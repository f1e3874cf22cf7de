--------------------------- MODULE StartupProofs ---------------------------
(***************************************************************************)
(* Proofs about CertPublish and Startup, for any configurations, requests  *)
(* and runs of cert init.  What is published is whole because of an order  *)
(* of steps: files are synced before the staging directory is, the staging *)
(* directory before it is renamed.  So a directory at the output path has  *)
(* nothing a power loss could take away (Settled), and what a power loss   *)
(* leaves there is that same directory or nothing (Lag).                   *)
(*                                                                         *)
(* The certificate and the key are read one after the other, while other   *)
(* runs publish; they belong together because a published directory is     *)
(* replaced by nothing but a power loss, which ends the reader too         *)
(* (Pinned).  The invariant of CertPublish carries over: no step of the    *)
(* service writes a variable of cert init (ServiceKeepsOut).               *)
(*                                                                         *)
(* The last part is about what a server serves.  Every step of NewRuntime  *)
(* adds one part to the runtime, computed from the parts before it and from *)
(* the configuration and environment of the scenario, which no step writes *)
(* (AsScenario, PinnedFrom); so an execution is the one that the           *)
(* configuration names for its request (Serves), with the credential of its *)
(* own provider and no other.                                              *)
(***************************************************************************)
EXTENDS Startup, TLAPS

(* The directory at the output path is on disk, all of it. *)
Settled == output \in Run => output \in entries /\ AllSynced(output)

(* The disk is behind at most by the rename. *)
Lag == durable = None \/ durable = output

(* Nothing takes the place of what was there before. *)
Kept == before # None => output = before /\ durable = before

(* Where a run is says how far its directory has come. *)
Staged(r) ==
  /\ pc[r] \in {"sync staging", "rename"} => AllSynced(r)
  /\ pc[r] = "rename" => r \in entries
  /\ pc[r] \in {"idle", "mkdir", "write", "sync staging", "rename", "remove"} => output # r
  /\ pc[r] \in {"sync parent", "print", "succeeded"} => output = r
  /\ pc[r] \in {"print", "succeeded"} => durable = r

CertInv == CertTypeOK /\ Settled /\ Lag /\ Kept /\ \A r \in Run : Staged(r)
-----------------------------------------------------------------------------
(* The invariant is stronger than what it is for. *)
LEMMA CertInvSuffices ==
  ASSUME CertInv PROVE PublishedIsWhole
<1>1. output \in Run => Whole(files[output])
  BY DEF CertInv, Settled, AllSynced, Whole
<1>2. before # None => output = before
  BY DEF CertInv, Kept
<1>3. ASSUME NEW r \in Run, pc[r] = "succeeded" PROVE output = r /\ durable = r
  <2>1. Staged(r)
    BY DEF CertInv
  <2> QED
    BY <2>1, <1>3 DEF Staged
<1> QED
  BY <1>1, <1>2, <1>3 DEF PublishedIsWhole

(* It holds before any run has begun, *)
LEMMA CertInvInit ==
  ASSUME RunsAreOrdinary, CertInit PROVE CertInv
<1>1. files \in [Run -> [File -> Content]]
  BY DEF CertInit, Empty, Content
<1>2. CertTypeOK
  BY <1>1 DEF CertInit, CertTypeOK
<1>3. output \notin Run
  BY DEF CertInit, RunsAreOrdinary
<1>4. ASSUME NEW r \in Run PROVE Staged(r)
  <2>1. pc[r] = "idle" /\ output # r
    BY <1>3 DEF CertInit
  <2> QED
    BY <2>1 DEF Staged
<1>5. Settled /\ Lag /\ Kept
  BY <1>3 DEF Settled, Lag, Kept, CertInit
<1> QED
  BY <1>2, <1>4, <1>5 DEF CertInv

(* and once one has succeeded and the others have failed. *)
LEMMA CertInvOver ==
  ASSUME RunsAreOrdinary, CertOver PROVE CertInv
<1>1. PICK w \in Run :
        /\ pc = [r \in Run |-> IF r = w THEN "succeeded" ELSE "failed"]
        /\ files = [r \in Run |-> [f \in File |-> IF r = w THEN "synced" ELSE "absent"]]
        /\ entries = {w} /\ output = w /\ durable = w /\ before = None
  BY DEF CertOver
<1>2. files \in [Run -> [File -> Content]]
  BY <1>1 DEF Content
<1>3. pc \in [Run -> Ended]
  BY <1>1 DEF Ended
<1>4. CertTypeOK
  BY <1>1, <1>2, <1>3 DEF CertTypeOK
<1>5. AllSynced(w)
  BY <1>1 DEF AllSynced
<1>6. Settled /\ Lag /\ Kept
  BY <1>1, <1>5 DEF Settled, Lag, Kept
<1>7. ASSUME NEW r \in Run PROVE Staged(r)
  <2>1. pc[r] = IF r = w THEN "succeeded" ELSE "failed"
    BY <1>1
  <2> QED
    BY <1>1, <2>1 DEF Staged
<1> QED
  BY <1>4, <1>6, <1>7 DEF CertInv
-----------------------------------------------------------------------------
(* A step of one run that leaves every directory as it is changes what is  *)
(* known of that run alone. *)
LEMMA OneRunMoves ==
  ASSUME CertInv, NEW r \in Run, NEW step \in {"idle"} \cup Running \cup Ended,
         Goto(r, step), UNCHANGED <<files, Directories>>, Staged(r)'
  PROVE  CertInv'
<1>1. CertTypeOK'
  BY DEF CertInv, CertTypeOK, Goto, Directories
<1>2. (Settled /\ Lag /\ Kept)'
  BY DEF CertInv, Settled, Lag, Kept, AllSynced, Directories
<1>3. ASSUME NEW s \in Run, s # r PROVE Staged(s)'
  <2>1. pc'[s] = pc[s]
    BY <1>3 DEF Goto, CertInv, CertTypeOK
  <2>2. Staged(s)
    BY DEF CertInv
  <2> QED
    BY <2>1, <2>2 DEF Staged, AllSynced, Directories
<1> QED
  BY <1>1, <1>2, <1>3 DEF CertInv

(* The steps that only move a run: it starts, makes its directory, has     *)
(* written all files, fails, prints or is killed. *)
LEMMA MovesKeep ==
  ASSUME CertInv, NEW r \in Run,
         \/ Start(r) \/ MkdirTemp(r) \/ writeStagedFiles(r) \/ StagingFails(r) \/ PrintPaths(r)
         \/ Killed(r)
  PROVE  CertInv'
<1>0. pc \in [Run -> {"idle"} \cup Running \cup Ended] /\ Staged(r)
  BY DEF CertInv, CertTypeOK
<1>1. PICK step \in {"idle"} \cup Running \cup Ended :
        /\ Goto(r, step) /\ UNCHANGED <<files, Directories>>
        /\ \/ pc[r] = "idle" /\ step \in {"mkdir", "failed"}
           \/ pc[r] = "mkdir" /\ step \in {"write", "failed"}
           \/ pc[r] = "write" /\ AllSynced(r) /\ step = "sync staging"
           \/ pc[r] \in {"write", "sync staging", "rename"} /\ step = "remove"
           \/ pc[r] = "print" /\ step \in {"succeeded", "failed"}
           \/ step = "dead"
  BY DEF Start, MkdirTemp, writeStagedFiles, StagingFails, PrintPaths, Killed, Running, Ended
<1>2. pc'[r] = step
  BY <1>0, <1>1 DEF Goto
<1>3. Staged(r)'
  BY <1>0, <1>1, <1>2 DEF Staged, AllSynced, Directories
<1> QED
  BY <1>1, <1>3, OneRunMoves

(* What a run writes into, or removes from, a directory that is not        *)
(* published concerns that run alone. *)
LEMMA OwnFilesMove ==
  ASSUME CertInv, NEW r \in Run, output # r,
         files' \in [Run -> [File -> Content]], \A s \in Run \ {r} : files'[s] = files[s],
         pc' \in [Run -> {"idle"} \cup Running \cup Ended], \A s \in Run \ {r} : pc'[s] = pc[s],
         UNCHANGED Directories, Staged(r)'
  PROVE  CertInv'
<1>1. CertTypeOK'
  BY DEF CertInv, CertTypeOK, Directories
<1>2. (Settled /\ Lag /\ Kept)'
  BY DEF CertInv, Settled, Lag, Kept, AllSynced, Directories
<1>3. ASSUME NEW s \in Run, s # r PROVE Staged(s)'
  <2>1. pc'[s] = pc[s] /\ files'[s] = files[s]
    BY <1>3
  <2>2. Staged(s)
    BY DEF CertInv
  <2> QED
    BY <2>1, <2>2 DEF Staged, AllSynced, Directories
<1> QED
  BY <1>1, <1>2, <1>3 DEF CertInv

(* A file is written only in a staging directory. *)
LEMMA WriteKeeps ==
  ASSUME CertInv, NEW r \in Run, writeStagedFile(r)
  PROVE  CertInv'
<1>0. pc \in [Run -> {"idle"} \cup Running \cup Ended] /\ files \in [Run -> [File -> Content]] /\ Staged(r)
  BY DEF CertInv, CertTypeOK
<1>1. pc[r] = "write" /\ output # r /\ pc' = pc /\ UNCHANGED Directories
  BY <1>0 DEF writeStagedFile, Staged
<1>2. PICK i \in 1..4 : files[r][Specs[i]] # "synced" /\ i = Current(r)
  <2>1. \E i \in 1..4 : /\ files[r][Specs[i]] # "synced"
                        /\ \A j \in 1..(i - 1) : files[r][Specs[j]] = "synced"
    <3>1. PICK f \in File : files[r][f] # "synced"
      BY DEF writeStagedFile, AllSynced
    <3>2. \E i \in 1..4 : files[r][Specs[i]] # "synced"
      BY <3>1 DEF File
    <3>3. CASE files[r][Specs[1]] # "synced"
      BY <3>3
    <3>4. CASE files[r][Specs[1]] = "synced" /\ files[r][Specs[2]] # "synced"
      BY <3>4
    <3>5. CASE files[r][Specs[1]] = "synced" /\ files[r][Specs[2]] = "synced" /\ files[r][Specs[3]] # "synced"
      BY <3>5
    <3>6. CASE /\ files[r][Specs[1]] = "synced" /\ files[r][Specs[2]] = "synced"
               /\ files[r][Specs[3]] = "synced" /\ files[r][Specs[4]] # "synced"
      BY <3>6
    <3> QED
      BY <3>2, <3>3, <3>4, <3>5, <3>6
  <2> QED
    BY <2>1 DEF Current
<1>3. Specs[i] \in File
  BY DEF File
<1>4. PICK content \in Content : Write(r, Specs[i], content)
  <2>1. files[r][Specs[i]] \in {"absent", "partial", "whole"}
    BY <1>0, <1>2, <1>3 DEF Content
  <2> QED
    BY <1>2, <2>1 DEF writeStagedFile, Content
<1>5. files' \in [Run -> [File -> Content]] /\ \A s \in Run \ {r} : files'[s] = files[s]
  BY <1>0, <1>3, <1>4 DEF Write
<1>6. Staged(r)'
  BY <1>0, <1>1 DEF Staged, Directories
<1> QED
  BY <1>0, <1>1, <1>5, <1>6, OwnFilesMove

(* removeStaging never meets a published directory. *)
LEMMA RemoveKeeps ==
  ASSUME CertInv, NEW r \in Run, removeStaging(r)
  PROVE  CertInv'
<1>0. pc \in [Run -> {"idle"} \cup Running \cup Ended] /\ files \in [Run -> [File -> Content]] /\ Staged(r)
  BY DEF CertInv, CertTypeOK
<1>1. output # r /\ UNCHANGED Directories
  BY <1>0 DEF removeStaging, Staged
<1>2. Empty \in [File -> Content]
  BY DEF Empty, Content
<1>3. files' \in [Run -> [File -> Content]] /\ \A s \in Run \ {r} : files'[s] = files[s]
  BY <1>0, <1>2 DEF removeStaging
<1>4. /\ pc' \in [Run -> {"idle"} \cup Running \cup Ended] /\ \A s \in Run \ {r} : pc'[s] = pc[s]
      /\ pc'[r] = "failed"
  BY <1>0 DEF removeStaging, Goto, Ended
<1>5. Staged(r)'
  BY <1>4 DEF Staged
<1> QED
  BY <1>1, <1>3, <1>4, <1>5, OwnFilesMove

(* The staging directory is synced. *)
LEMMA SyncKeeps ==
  ASSUME CertInv, NEW r \in Run, syncDirectory(r)
  PROVE  CertInv'
<1>0. pc \in [Run -> {"idle"} \cup Running \cup Ended] /\ Staged(r)
  BY DEF CertInv, CertTypeOK
<1>1. /\ pc' \in [Run -> {"idle"} \cup Running \cup Ended] /\ \A s \in Run \ {r} : pc'[s] = pc[s]
      /\ pc'[r] = "rename" /\ pc[r] = "sync staging"
      /\ entries' = entries \cup {r} /\ UNCHANGED <<files, output, durable, before>>
  BY <1>0 DEF syncDirectory, Goto, Running
<1>2. CertTypeOK'
  BY <1>1 DEF CertInv, CertTypeOK
<1>3. (Settled /\ Lag /\ Kept)'
  BY <1>1 DEF CertInv, Settled, Lag, Kept, AllSynced
<1>4. ASSUME NEW s \in Run PROVE Staged(s)'
  <2>1. Staged(s)
    BY DEF CertInv
  <2>2. CASE s = r
    BY <1>1, <2>1, <2>2 DEF Staged, AllSynced
  <2>3. CASE s # r
    BY <1>1, <2>1, <2>3 DEF Staged, AllSynced
  <2> QED
    BY <2>2, <2>3
<1> QED
  BY <1>2, <1>3, <1>4 DEF CertInv

(* The rename publishes a settled directory where nothing was. *)
LEMMA RenameKeeps ==
  ASSUME RunsAreOrdinary, CertInv, NEW r \in Run, renameNoReplace(r)
  PROVE  CertInv'
<1>0. pc \in [Run -> {"idle"} \cup Running \cup Ended] /\ Staged(r)
  BY DEF CertInv, CertTypeOK
<1>1. CASE output # None
  <2>1. Goto(r, "remove") /\ pc[r] = "rename" /\ UNCHANGED <<files, Directories>>
    BY <1>1 DEF renameNoReplace, Directories
  <2>2. pc'[r] = "remove"
    BY <1>0, <2>1 DEF Goto
  <2>3. Staged(r)'
    BY <1>0, <2>1, <2>2 DEF Staged, Directories
  <2> QED
    BY <2>1, <2>3, OneRunMoves DEF Running
<1>2. CASE output = None
  <2>1. /\ pc' \in [Run -> {"idle"} \cup Running \cup Ended] /\ \A s \in Run \ {r} : pc'[s] = pc[s]
        /\ pc'[r] = "sync parent" /\ pc[r] = "rename"
        /\ output' = r /\ UNCHANGED <<files, entries, durable, before>>
    BY <1>0, <1>2 DEF renameNoReplace, Goto, Running
  <2>2. CertTypeOK'
    BY <2>1 DEF CertInv, CertTypeOK
  <2>3. before = None /\ durable = None
    BY <1>2 DEF CertInv, Kept, Lag
  <2>4. (Settled /\ Lag /\ Kept)'
    BY <1>0, <2>1, <2>3 DEF Settled, Lag, Kept, Staged, AllSynced
  <2>5. ASSUME NEW s \in Run PROVE Staged(s)'
    <3>1. Staged(s) /\ s # None
      BY DEF CertInv, RunsAreOrdinary
    <3>2. CASE s = r
      BY <2>1, <3>2 DEF Staged
    <3>3. CASE s # r
      BY <1>2, <2>1, <3>1, <3>3 DEF Staged, AllSynced
    <3> QED
      BY <3>2, <3>3
  <2> QED
    BY <2>2, <2>4, <2>5 DEF CertInv
<1> QED
  BY <1>1, <1>2

(* The parent directory is synced, or the attempt fails. *)
LEMMA SyncParentKeeps ==
  ASSUME CertInv, NEW r \in Run, syncParent(r)
  PROVE  CertInv'
<1>0. pc \in [Run -> {"idle"} \cup Running \cup Ended] /\ Staged(r)
  BY DEF CertInv, CertTypeOK
<1>1. PICK step \in {"print", "failed"} :
        /\ pc[r] = "sync parent" /\ Goto(r, step) /\ durable' \in {durable, output}
        /\ step = "print" => durable' = output
        /\ UNCHANGED <<files, entries, output, before>>
  BY DEF syncParent
<1>2. /\ pc' \in [Run -> {"idle"} \cup Running \cup Ended] /\ \A s \in Run \ {r} : pc'[s] = pc[s]
      /\ pc'[r] = step
  BY <1>0, <1>1 DEF Goto, Running, Ended
<1>3. output = r
  BY <1>0, <1>1 DEF Staged
<1>4. CertTypeOK'
  BY <1>1, <1>2 DEF CertInv, CertTypeOK
<1>5. (Settled /\ Lag /\ Kept)'
  BY <1>1 DEF CertInv, Settled, Lag, Kept, AllSynced
<1>6. ASSUME NEW s \in Run PROVE Staged(s)'
  <2>1. Staged(s)
    BY DEF CertInv
  <2>2. CASE s = r
    BY <1>1, <1>2, <1>3, <2>2 DEF Staged
  <2>3. CASE s # r
    BY <1>1, <1>2, <1>3, <2>1, <2>3 DEF Staged, AllSynced
  <2> QED
    BY <2>2, <2>3
<1> QED
  BY <1>4, <1>5, <1>6 DEF CertInv

(* A power loss takes nothing from a directory that is published and synced. *)
LEMMA PowerLossKeeps ==
  ASSUME RunsAreOrdinary, CertInv, PowerLoss
  PROVE  CertInv'
<1>0. /\ pc \in [Run -> {"idle"} \cup Running \cup Ended] /\ files \in [Run -> [File -> Content]]
      /\ {output, durable, before} \subseteq Run \cup {None, Foreign}
  BY DEF CertInv, CertTypeOK
<1>1. PICK o \in {output, durable}, contents \in [File -> Content] :
        /\ output' = o /\ durable' = o
        /\ \A f \in File : o \in Run => contents[f] \in Remains(o, f)
        /\ o \notin Run => contents = Empty
        /\ files' = [r \in Run |-> IF r = o THEN contents ELSE Empty]
        /\ entries' = {o} \cap Run
  BY DEF PowerLoss
<1>2. o = None \/ o = output
  BY DEF CertInv, Lag
<1>3. /\ pc' = [r \in Run |-> IF pc[r] \in Running THEN "dead" ELSE pc[r]]
      /\ before' = before
  BY DEF PowerLoss
<1>4. Empty \in [File -> Content]
  BY DEF Empty, Content
<1>5. files' \in [Run -> [File -> Content]]
  BY <1>1, <1>4
<1>6. pc' \in [Run -> {"idle"} \cup Running \cup Ended]
  BY <1>0, <1>3 DEF Ended
<1>7. CertTypeOK'
  BY <1>0, <1>1, <1>3, <1>5, <1>6 DEF CertTypeOK
<1>8. Settled'
  <2>1. SUFFICES ASSUME o \in Run PROVE o \in entries' /\ \A f \in File : files'[o][f] = "synced"
    BY <1>1 DEF Settled, AllSynced
  <2>2. o \in entries /\ AllSynced(o)
    BY <1>2, <2>1 DEF CertInv, Settled, RunsAreOrdinary
  <2>3. ASSUME NEW f \in File PROVE contents[f] = "synced"
    <3>1. Remains(o, f) = {"synced"}
      BY <2>2 DEF Remains, AllSynced
    <3> QED
      BY <1>1, <2>1, <3>1
  <2> QED
    BY <1>1, <2>1, <2>3
<1>9. (Lag /\ Kept)'
  BY <1>1, <1>3 DEF CertInv, Lag, Kept
<1>10. ASSUME NEW r \in Run PROVE Staged(r)'
  <2>1. Staged(r) /\ r # None
    BY DEF CertInv, RunsAreOrdinary
  <2>2. pc'[r] = IF pc[r] \in Running THEN "dead" ELSE pc[r]
    BY <1>3
  <2>3. pc[r] \notin Running => pc[r] \in {"idle"} \cup Ended
    BY <1>0
  <2>4. CASE pc'[r] = "idle"
    BY <1>1, <1>2, <2>1, <2>2, <2>4 DEF Staged
  <2>5. CASE pc'[r] = "succeeded"
    BY <1>1, <1>2, <2>1, <2>2, <2>5 DEF Staged
  <2>6. CASE pc'[r] \in {"failed", "dead"}
    BY <2>6 DEF Staged
  <2> QED
    BY <2>2, <2>3, <2>4, <2>5, <2>6 DEF Ended
<1> QED
  BY <1>7, <1>8, <1>9, <1>10 DEF CertInv

(* Every step keeps the invariant. *)
LEMMA CertInvStep ==
  ASSUME RunsAreOrdinary, CertInv, [CertNext]_certVars
  PROVE  CertInv'
<1>1. CASE PowerLoss
  BY <1>1, PowerLossKeeps
<1>2. ASSUME NEW r \in Run, CertRun(r) PROVE CertInv'
  BY <1>2, MovesKeep, WriteKeeps, RemoveKeeps, SyncKeeps, RenameKeeps, SyncParentKeeps DEF CertRun
<1>3. CASE UNCHANGED certVars
  BY <1>3 DEF certVars, CertInv, CertTypeOK, Settled, Lag, Kept, Staged, AllSynced
<1> QED
  BY <1>1, <1>2, <1>3 DEF CertNext

(* However many runs of cert init compete for one output directory, and    *)
(* wherever they are killed or the power fails: what is at the output path *)
(* is whole, nothing that was there before is replaced, and a run that     *)
(* reported success keeps its directory there. *)
THEOREM PublishedStaysWhole == CertSpec => []PublishedIsWhole
<1>1. CertInit => CertInv
  BY RunsAreOrdinary, CertInvInit
<1>2. CertInv /\ [CertNext]_certVars => CertInv'
  BY RunsAreOrdinary, CertInvStep
<1>3. CertInv => PublishedIsWhole
  BY CertInvSuffices
<1> QED
  BY <1>1, <1>2, <1>3, PTL DEF CertSpec
-----------------------------------------------------------------------------
(* All that has been read so far is of the directory that is published. *)
Pinned ==
  /\ cert \in Seq(Run)
  /\ \A i \in 1..Len(cert) : cert[i] = output

StartInv == CertInv /\ Pinned
-----------------------------------------------------------------------------
(* A run of cert init does not replace a directory that is there. *)
LEMMA OutputStays ==
  ASSUME RunsAreOrdinary, NEW r \in Run, CertRun(r), output \in Run
  PROVE  output' = output
BY DEF CertRun, Start, MkdirTemp, writeStagedFile, writeStagedFiles, syncDirectory, StagingFails,
       renameNoReplace, syncParent, removeStaging, PrintPaths, Killed, Directories, RunsAreOrdinary

(* A step of the service leaves cert init's variables alone; it keeps what *)
(* it has read, forgets it, reads the certificate, or reads the key of the *)
(* directory the certificate came from. *)
LEMMA ServiceKeepsOut ==
  ASSUME \/ LoadFile \/ LoadCredentials \/ ReadCertificate \/ ReadKey \/ ResolveTools
         \/ buildProviderInstances \/ NewGitService \/ Listen \/ Answered \/ Restart
         \/ \E q \in Requests : Handle(q)
  PROVE  /\ UNCHANGED certVars
         /\ \/ cert' = cert
            \/ cert' = <<>>
            \/ output \in Run /\ cert' = <<output>>
            \/ output \in Run /\ cert' = Append(cert, output)
<1>1. CASE LoadFile
  BY <1>1 DEF LoadFile, Fails, Beside
<1>2. CASE LoadCredentials
  BY <1>2 DEF LoadCredentials, Fails, Beside
<1>3. CASE ReadCertificate
  BY <1>3 DEF ReadCertificate, Readable, Fails, Beside
<1>4. CASE ReadKey
  BY <1>4 DEF ReadKey, Readable, Fails, Beside
<1>5. CASE ResolveTools
  BY <1>5 DEF ResolveTools, Fails, Beside
<1>6. CASE buildProviderInstances
  BY <1>6 DEF buildProviderInstances, Fails, Beside
<1>7. CASE NewGitService
  BY <1>7 DEF NewGitService, Fails, Beside
<1>8. CASE Listen
  BY <1>8 DEF Listen, Fails, Beside
<1>9. CASE Answered
  BY <1>9 DEF Answered
<1>10. CASE Restart
  BY <1>10 DEF Restart
<1>11. ASSUME NEW q \in Requests, Handle(q) PROVE UNCHANGED certVars /\ cert' = cert
  BY <1>11 DEF Handle
<1> QED
  BY <1>1, <1>2, <1>3, <1>4, <1>5, <1>6, <1>7, <1>8, <1>9, <1>10, <1>11

(* The invariant of cert init, started at either of Init's two states, is  *)
(* kept by every step of the composition. *)
LEMMA CertInvHolds ==
  ASSUME RunsAreOrdinary PROVE (Init => CertInv) /\ (CertInv /\ [Next]_vars => CertInv')
<1>1. Init => CertInv
  <2>1. Init => CertInit \/ CertOver
    BY DEF Init
  <2> QED
    BY <2>1, CertInvInit, CertInvOver
<1>2. [Next]_vars => [CertNext]_certVars
  <2>1. CASE Outage
    BY <2>1 DEF Outage, CertNext
  <2>2. ASSUME NEW r \in Run, CertInitRun(r) PROVE CertNext
    BY <2>2 DEF CertInitRun, CertNext
  <2>3. CASE UNCHANGED vars
    BY <2>3 DEF vars
  <2> QED
    BY <2>1, <2>2, <2>3, ServiceKeepsOut DEF Next
<1> QED
  BY <1>1, <1>2, CertInvStep

(* What has been read stays true of what is published. *)
LEMMA PinnedStep ==
  ASSUME RunsAreOrdinary, CertInv, Pinned, [Next]_vars
  PROVE  Pinned'
<1>1. CASE Outage
  BY <1>1 DEF Outage, Pinned
<1>2. ASSUME NEW r \in Run, CertInitRun(r) PROVE Pinned'
  <2>1. cert' = cert
    BY <1>2 DEF CertInitRun, startVars
  <2>2. cert # <<>> => output \in Run
    BY DEF Pinned
  <2>3. cert # <<>> => output' = output
    BY <1>2, <2>2, OutputStays DEF CertInitRun
  <2>4. cert = <<>> => Len(cert) = 0
    OBVIOUS
  <2> QED
    BY <2>1, <2>3, <2>4 DEF Pinned
<1>3. CASE UNCHANGED vars
  BY <1>3 DEF vars, certVars, startVars, Pinned
<1>4. ASSUME output' = output,
             \/ cert' = cert
             \/ cert' = <<>>
             \/ output \in Run /\ cert' = <<output>>
             \/ output \in Run /\ cert' = Append(cert, output)
      PROVE  Pinned'
  <2>1. CASE cert' = cert
    BY <1>4, <2>1 DEF Pinned
  <2>2. CASE cert' = <<>>
    <3>1. Len(cert') = 0 /\ cert' \in Seq(Run)
      BY <2>2
    <3> QED
      BY <3>1 DEF Pinned
  <2>3. CASE output \in Run /\ cert' = <<output>>
    <3>1. cert' \in Seq(Run) /\ Len(cert') = 1 /\ cert'[1] = output
      BY <2>3
    <3> QED
      BY <1>4, <3>1 DEF Pinned
  <2>4. CASE output \in Run /\ cert' = Append(cert, output)
    <3>1. cert' \in Seq(Run) /\ Len(cert') = Len(cert) + 1
      BY <2>4 DEF Pinned
    <3>2. ASSUME NEW i \in 1..Len(cert') PROVE cert'[i] = output
      BY <2>4, <3>1, <3>2 DEF Pinned
    <3> QED
      BY <1>4, <3>1, <3>2 DEF Pinned
  <2> QED
    BY <1>4, <2>1, <2>2, <2>3, <2>4
<1> QED
  BY <1>1, <1>2, <1>3, <1>4, ServiceKeepsOut DEF Next, certVars

(* Whatever the configuration and however often the service restarts, the  *)
(* published directory is whole, nothing it replaced was there before, and *)
(* the certificate and key a server has pinned are those of one run of     *)
(* cert init: the one that is still published. *)
THEOREM CertificatesHoldAlways == Spec => []CertificatesHold
<1>1. Init => StartInv
  <2>1. Init => Pinned
    BY DEF Init, Pinned
  <2> QED
    BY <2>1, RunsAreOrdinary, CertInvHolds DEF StartInv
<1>2. StartInv /\ [Next]_vars => StartInv'
  BY RunsAreOrdinary, CertInvHolds, PinnedStep DEF StartInv
<1>3. StartInv => CertificatesHold
  <2>1. Pinned => (Len(cert) = 2 => cert[1] = cert[2] /\ output = cert[1])
    BY DEF Pinned
  <2> QED
    BY <2>1, CertInvSuffices DEF StartInv, CertificatesHold
<1> QED
  BY <1>1, <1>2, <1>3, PTL DEF Spec
-----------------------------------------------------------------------------
(* What NewRuntime has pinned when it has come this far. *)
Configured == {"credentials", "certificate", "key", "tools", "providers", "git_service", "listen", "serving"}
Credentialed == Configured \ {"credentials"}
Built == {"git_service", "listen", "serving"}

FreeOf(d, e) == TokenFreeEnvironment(e, Names(normalize(d), e))
PinnedFrom(d, e, step, pinned) ==
  /\ DOMAIN pinned = {"cfg", "credentials", "environment", "instances"}
  /\ step \in Configured => Decodes(d) /\ pinned.cfg = normalize(d)
  /\ step \in Credentialed =>
       CredentialsLoad(normalize(d), e) /\ pinned.credentials = Load(normalize(d), e)
  /\ step \in Built =>
       /\ pinned.environment = FreeOf(d, e)
       /\ \A id \in DOMAIN normalize(d).providers :
            /\ pinned.instances[id].token = Load(normalize(d), e).providers[id]
            /\ pinned.instances[id].environment =
                 IF normalize(d).providers[id].kind = "github"
                 THEN GitHubEnvironment(FreeOf(d, e), Load(normalize(d), e).providers[id]) ELSE Absent

(* What a request that is carried out was given. *)
Execution(pinned, done) ==
  /\ done.request \in Requests
  /\ done.principal = Authenticate(pinned.credentials.auth, done.request.token) /\ done.principal # Absent
  /\ SelectorOK(done.request)
  /\ done.repository = Resolved(pinned.cfg, done.request, done.principal) /\ done.repository # Absent
  /\ done.provider = pinned.cfg.repositories[done.repository].provider
  /\ done.token = IF done.request.kind = "git" THEN Absent ELSE pinned.instances[done.provider].token
  /\ done.request.kind = "git" => done.child = pinned.environment
  /\ done.request.kind = "github" => done.child = pinned.instances[done.provider].environment
  /\ done.request.kind = "gitea" => done.child = Absent

AsScenario == \E s \in Scenarios : doc = s.doc /\ env = s.env
Serves ==
  /\ phase # "serving" => last = Nothing
  /\ last.step = "executed" => Execution(runtime, last)
RuntimeInv == AsScenario /\ PinnedFrom(doc, env, phase, runtime) /\ Serves

(* Before the first step nothing is pinned. *)
LEMMA RuntimeInit == Init => RuntimeInv
<1> SUFFICES ASSUME Init PROVE RuntimeInv
  OBVIOUS
<1>1. AsScenario
  BY DEF Init, AsScenario
<1>2. phase = "configuration" /\ runtime = NoRuntime /\ last = Nothing
  BY DEF Init
<1>3. PinnedFrom(doc, env, phase, runtime)
  BY <1>2 DEF PinnedFrom, NoRuntime, Configured, Credentialed, Built
<1>4. Serves
  BY <1>2 DEF Serves, Nothing
<1> QED
  BY <1>1, <1>3, <1>4 DEF RuntimeInv

(* A failed step, a restart or a power loss leaves nothing pinned. *)
LEMMA NothingPinned ==
  ASSUME NEW d, NEW e, NEW step \in {"configuration", "failed"}
  PROVE  PinnedFrom(d, e, step, NoRuntime)
BY DEF PinnedFrom, NoRuntime, Configured, Credentialed, Built

(* The steps of NewRuntime pin what the configuration and the environment say. *)
LEMMA PinnedRuntime ==
  ASSUME PinnedFrom(doc, env, phase, runtime),
         \/ LoadFile \/ LoadCredentials \/ ReadCertificate \/ ReadKey \/ ResolveTools
         \/ buildProviderInstances \/ NewGitService \/ Listen
  PROVE  PinnedFrom(doc, env, phase', runtime') /\ UNCHANGED <<doc, env, last>> /\ phase # "serving"
<1>0. UNCHANGED <<doc, env, last>> /\ phase # "serving"
  BY DEF LoadFile, LoadCredentials, ReadCertificate, ReadKey, ResolveTools, buildProviderInstances,
         NewGitService, Listen, Beside, inputs, Step, Fails
<1> SUFFICES PinnedFrom(doc, env, phase', runtime')
  BY <1>0
<1>1. ASSUME NEW from, Fails(from) PROVE PinnedFrom(doc, env, phase', runtime')
  BY <1>1, NothingPinned DEF Fails, Step
<1>2. ASSUME NEW from \in Configured, NEW to \in Configured, Step(from, to), runtime' = runtime,
             to \in Credentialed => from \in Credentialed, to \in Built => from \in Built
      PROVE  PinnedFrom(doc, env, phase', runtime')
  BY <1>2 DEF PinnedFrom, Step
<1>3. CASE LoadFile
  <2>1. CASE Decodes(doc) /\ Step("configuration", "credentials") /\ runtime' = [runtime EXCEPT !.cfg = normalize(doc)]
    <3>1. phase' = "credentials" /\ Decodes(doc)
      BY <2>1 DEF Step
    <3>2. DOMAIN runtime' = {"cfg", "credentials", "environment", "instances"} /\ runtime'.cfg = normalize(doc)
      BY <2>1 DEF PinnedFrom
    <3> QED
      BY <3>1, <3>2 DEF PinnedFrom, Credentialed, Built
  <2> QED
    BY <1>1, <1>3, <2>1 DEF LoadFile
<1>4. CASE LoadCredentials
  <2>1. CASE /\ CredentialsLoad(runtime.cfg, env) /\ Step("credentials", "certificate")
             /\ runtime' = [runtime EXCEPT !.credentials = Load(runtime.cfg, env)]
    <3>1. phase' = "certificate" /\ Decodes(doc) /\ runtime.cfg = normalize(doc)
      BY <2>1 DEF Step, PinnedFrom, Configured
    <3>2. /\ DOMAIN runtime' = {"cfg", "credentials", "environment", "instances"}
          /\ runtime'.cfg = normalize(doc) /\ runtime'.credentials = Load(normalize(doc), env)
      BY <2>1, <3>1 DEF PinnedFrom
    <3>3. CredentialsLoad(normalize(doc), env)
      BY <2>1, <3>1
    <3> QED
      BY <3>1, <3>2, <3>3 DEF PinnedFrom, Built
  <2> QED
    BY <1>1, <1>4, <2>1 DEF LoadCredentials
<1>5. CASE ReadCertificate
  BY <1>1, <1>2, <1>5 DEF ReadCertificate, Configured, Credentialed, Built
<1>6. CASE ReadKey
  BY <1>1, <1>2, <1>6 DEF ReadKey, Configured, Credentialed, Built
<1>7. CASE ResolveTools
  BY <1>1, <1>2, <1>7 DEF ResolveTools, Configured, Credentialed, Built
<1>8. CASE buildProviderInstances
  <2> DEFINE free == TokenFreeEnvironment(env, runtime.credentials.environments)
             instances == [id \in DOMAIN runtime.cfg.providers |->
                [token |-> runtime.credentials.providers[id],
                 environment |-> IF runtime.cfg.providers[id].kind = "github"
                                 THEN GitHubEnvironment(free, runtime.credentials.providers[id])
                                 ELSE Absent]]
  <2>1. CASE /\ Step("providers", "git_service")
             /\ runtime' = [runtime EXCEPT !.environment = free, !.instances = instances]
    <3>1. phase = "providers" /\ phase' = "git_service"
      BY <2>1 DEF Step
    <3>2. Decodes(doc) /\ runtime.cfg = normalize(doc)
      BY <3>1 DEF PinnedFrom, Configured
    <3>3. CredentialsLoad(normalize(doc), env) /\ runtime.credentials = Load(normalize(doc), env)
      BY <3>1 DEF PinnedFrom, Configured, Credentialed
    <3>4. runtime.credentials.environments = Names(normalize(doc), env)
      BY <3>3 DEF Load
    <3>5. free = FreeOf(doc, env)
      BY <3>4 DEF FreeOf
    <3> HIDE DEF free
    <3>6. \A id \in DOMAIN normalize(doc).providers :
            /\ instances[id].token = Load(normalize(doc), env).providers[id]
            /\ instances[id].environment =
                 IF normalize(doc).providers[id].kind = "github"
                 THEN GitHubEnvironment(FreeOf(doc, env), Load(normalize(doc), env).providers[id]) ELSE Absent
      BY <3>2, <3>3, <3>5
    <3> HIDE DEF instances
    <3>7. /\ DOMAIN runtime' = {"cfg", "credentials", "environment", "instances"}
          /\ runtime'.cfg = runtime.cfg /\ runtime'.credentials = runtime.credentials
          /\ runtime'.environment = free /\ runtime'.instances = instances
      BY <2>1 DEF PinnedFrom
    <3> QED
      BY <3>1, <3>2, <3>3, <3>5, <3>6, <3>7 DEF PinnedFrom
  <2> QED
    BY <1>1, <1>8, <2>1 DEF buildProviderInstances
<1>9. CASE NewGitService
  BY <1>1, <1>2, <1>9 DEF NewGitService, Configured, Credentialed, Built
<1>10. CASE Listen
  BY <1>1, <1>2, <1>10 DEF Listen, Configured, Credentialed, Built
<1> QED
  BY <1>0, <1>3, <1>4, <1>5, <1>6, <1>7, <1>8, <1>9, <1>10

(* A request is refused, or carried out with what was pinned. *)
LEMMA HandleServes ==
  ASSUME NEW q \in Requests, Handle(q)
  PROVE  /\ UNCHANGED <<doc, env, phase, runtime>> /\ phase = "serving"
         /\ last'.step = "executed" => Execution(runtime, last')
<1>0. q.kind \in {"github", "gitea", "git"}
  BY StartupAssumption DEF StartupAssumption
<1>1. UNCHANGED <<doc, env, phase, runtime>> /\ phase = "serving"
  BY DEF Handle, inputs
<1>2. CASE \E status : Refuse(q, status)
  BY <1>1, <1>2 DEF Refuse
<1> DEFINE p == Authenticate(runtime.credentials.auth, q.token)
           id == Resolved(runtime.cfg, q, p)
<1>3. CASE p # Absent /\ SelectorOK(q) /\ id # Absent /\ Execute(q, p, id)
  <2>1. p # Absent /\ SelectorOK(q) /\ id # Absent /\ Execute(q, p, id)
    BY <1>3
  <2> HIDE DEF p, id
  <2> DEFINE provider == runtime.cfg.repositories[id].provider
  <2>2. /\ last'.request = q /\ last'.principal = p /\ last'.repository = id
        /\ last'.provider = provider
        /\ last'.token = IF q.kind = "git" THEN Absent ELSE runtime.instances[provider].token
        /\ last'.child = CASE q.kind = "git" -> runtime.environment
                           [] q.kind = "github" -> runtime.instances[provider].environment
                           [] q.kind = "gitea" -> Absent
    BY <2>1 DEF Execute
  <2>3. p = Authenticate(runtime.credentials.auth, q.token) /\ id = Resolved(runtime.cfg, q, p)
    BY DEF p, id
  <2>4. Execution(runtime, last')
    BY <1>0, <2>1, <2>2, <2>3 DEF Execution
  <2> QED
    BY <1>1, <2>4
<1>4. (\E status : Refuse(q, status)) \/ (p # Absent /\ SelectorOK(q) /\ id # Absent /\ Execute(q, p, id))
  BY DEF Handle
<1> QED
  BY <1>2, <1>3, <1>4

(* Every step keeps what is pinned and what a request was given. *)
LEMMA RuntimeStep == RuntimeInv /\ [Next]_vars => RuntimeInv'
<1> SUFFICES ASSUME RuntimeInv, [Next]_vars PROVE RuntimeInv'
  OBVIOUS
<1>0. AsScenario /\ PinnedFrom(doc, env, phase, runtime) /\ Serves
  BY DEF RuntimeInv
<1>1. ASSUME UNCHANGED <<doc, env>>, PinnedFrom(doc, env, phase', runtime'), Serves' PROVE RuntimeInv'
  <2>1. AsScenario'
    BY <1>0, <1>1 DEF AsScenario
  <2>2. PinnedFrom(doc', env', phase', runtime')
    BY <1>1
  <2> QED
    BY <1>1, <2>1, <2>2 DEF RuntimeInv
<1>2. CASE \/ LoadFile \/ LoadCredentials \/ ReadCertificate \/ ReadKey \/ ResolveTools
           \/ buildProviderInstances \/ NewGitService \/ Listen
  <2>1. PinnedFrom(doc, env, phase', runtime') /\ UNCHANGED <<doc, env, last>> /\ phase # "serving"
    BY <1>0, <1>2, PinnedRuntime
  <2>2. last' = Nothing
    BY <1>0, <2>1 DEF Serves
  <2>3. Serves'
    BY <2>2 DEF Serves, Nothing
  <2> QED
    BY <1>1, <2>1, <2>3
<1>3. CASE Restart \/ Outage
  <2>1. /\ phase' = "configuration" /\ runtime' = NoRuntime /\ last' = Nothing /\ UNCHANGED <<doc, env>>
    BY <1>3 DEF Restart, Outage, Step, inputs
  <2>2. Serves'
    BY <2>1 DEF Serves, Nothing
  <2>3. PinnedFrom(doc, env, phase', runtime')
    BY <2>1, NothingPinned
  <2> QED
    BY <1>1, <2>1, <2>2, <2>3
<1>4. CASE Answered
  <2>1. last' = Nothing /\ UNCHANGED <<doc, env, phase, runtime>>
    BY <1>4 DEF Answered, inputs
  <2>2. Serves'
    BY <2>1 DEF Serves, Nothing
  <2>3. PinnedFrom(doc, env, phase', runtime')
    BY <1>0, <2>1
  <2> QED
    BY <1>1, <2>1, <2>2, <2>3
<1>5. ASSUME NEW q \in Requests, Handle(q) PROVE RuntimeInv'
  <2>1. /\ UNCHANGED <<doc, env, phase, runtime>> /\ phase = "serving"
        /\ last'.step = "executed" => Execution(runtime, last')
    BY <1>5, HandleServes
  <2>2. Serves'
    BY <2>1 DEF Serves
  <2>3. PinnedFrom(doc, env, phase', runtime')
    BY <1>0, <2>1
  <2> QED
    BY <1>1, <2>1, <2>2, <2>3
<1>6. CASE UNCHANGED startVars
  <2>1. UNCHANGED <<doc, env, phase, runtime, last>>
    BY <1>6 DEF startVars
  <2>2. Serves'
    BY <1>0, <2>1 DEF Serves
  <2>3. PinnedFrom(doc, env, phase', runtime')
    BY <1>0, <2>1
  <2> QED
    BY <1>1, <2>1, <2>2, <2>3
<1>7. ASSUME NEW r \in Run, CertInitRun(r) PROVE RuntimeInv'
  BY <1>6, <1>7 DEF CertInitRun
<1>8. CASE UNCHANGED vars
  BY <1>6, <1>8 DEF vars
<1> QED
  BY <1>2, <1>3, <1>4, <1>5, <1>7, <1>8 DEF Next
-----------------------------------------------------------------------------
(* A set that has an only member is its singleton. *)
LEMMA OnlyOne ==
  ASSUME NEW set, Only(set) # Absent
  PROVE  set = {Only(set)}
<1>1. PICK x \in set : set = {x}
  BY DEF Only
<1>2. Only(set) = CHOOSE y \in set : TRUE
  BY <1>1 DEF Only
<1>3. Only(set) \in set
  BY <1>1, <1>2
<1> QED
  BY <1>1, <1>3

(* The token of an authenticated request is that of one principal. *)
OwnedByOne(cfg, e, token, p) ==
  /\ p \in DOMAIN cfg.principals
  /\ \E n \in PrincipalNames(cfg, p) : e[n] = token
  /\ \A o \in DOMAIN cfg.principals : \A n \in PrincipalNames(cfg, o) : e[n] = token => o = p

(* That is what Authenticate finds. *)
LEMMA AuthenticatedOne ==
  ASSUME NEW cfg, NEW e, NEW token, NEW p, p = Authenticate(Load(cfg, e).auth, token), p # Absent
  PROVE  OwnedByOne(cfg, e, token, p)
<1> DEFINE index == UNION {{<<e[n], id>> : n \in PrincipalNames(cfg, id)} : id \in DOMAIN cfg.principals}
           hits == {x \in index : TokenForm(token) /\ x[1] = token}
<1>1. Load(cfg, e).auth = index
  BY DEF Load
<1>2. Only(hits) # Absent /\ p = Only(hits)[2]
  BY <1>1 DEF Authenticate
<1>3. hits = {Only(hits)}
  BY <1>2, OnlyOne
<1>4a. PICK id \in DOMAIN cfg.principals : Only(hits) \in {<<e[n], id>> : n \in PrincipalNames(cfg, id)}
  <2>1. Only(hits) \in index
    BY <1>3
  <2> QED
    BY <2>1
<1>4. PICK n \in PrincipalNames(cfg, id) : Only(hits) = <<e[n], id>>
  BY <1>4a
<1>5. p = id /\ e[n] = token /\ TokenForm(token)
  BY <1>2, <1>3, <1>4
<1>6. ASSUME NEW o \in DOMAIN cfg.principals, NEW m \in PrincipalNames(cfg, o), e[m] = token PROVE o = p
  <2>1. <<e[m], o>> \in index
    OBVIOUS
  <2>2. <<e[m], o>> \in hits
    BY <1>5, <1>6, <2>1
  <2> QED
    BY <1>3, <1>4, <1>5, <2>2
<1> QED
  BY <1>4, <1>5, <1>6 DEF OwnedByOne

(* A port that was accepted keeps its value in 16 bits, so that the policy *)
(* is asked about what the client sent. *)
LEMMA PortIsKept ==
  ASSUME NEW q \in Requests, SelectorOK(q), NEW cfg, NEW id
  PROVE  Matches(policySelector(q), cfg, id) <=> Matches(q, cfg, id)
<1>1. q.sshPort \in Nat /\ q.kind \in {"github", "gitea", "git"}
  BY StartupAssumption DEF StartupAssumption
<1>2. q.sshPort \in Nat /\ q.sshPort <= 65535
  <2>1. githubSelector(q) \/ giteaSelector(q) \/ gitSelector(q)
    BY <1>1 DEF SelectorOK
  <2>2. githubSelector(q) => q.sshPort = 0
    BY DEF githubSelector
  <2>3. giteaSelector(q) => q.sshPort = 0
    BY DEF giteaSelector
  <2>4. gitSelector(q) => q.sshPort <= maximumPort
    BY DEF gitSelector
  <2> QED
    BY <1>1, <2>1, <2>2, <2>3, <2>4 DEF maximumPort
<1>3. q.sshPort % (maximumPort + 1) = q.sshPort
  <2>1. \A n \in Nat : n <= 65535 => n % (maximumPort + 1) = n
    BY DEF maximumPort
  <2> QED
    BY <1>2, <2>1
<1>4. /\ policySelector(q).kind = q.kind /\ policySelector(q).host = q.host
      /\ policySelector(q).sshUser = q.sshUser /\ policySelector(q).sshPort = q.sshPort
      /\ policySelector(q).owner = q.owner /\ policySelector(q).name = q.name
  BY <1>3 DEF policySelector
<1> QED
  BY <1>4 DEF Matches, matches, matchesGit, IdentityMatches

(* A request that resolves is of the only granted repository it matches,   *)
(* and has every capability it needs there. *)
LEMMA ResolvedOne ==
  ASSUME NEW cfg, NEW q \in Requests, SelectorOK(q), NEW p, Resolved(cfg, q, p) # Absent
  PROVE  /\ Matching(cfg, p, q) = {Resolved(cfg, q, p)}
         /\ Needed(q) \subseteq Grants(cfg, p)[Resolved(cfg, q, p)]
<1> DEFINE id == Resolved(cfg, q, p)
           s == policySelector(q)
           ids == {resolve(cfg, p, s, c) : c \in Needed(q)}
<1>1. ids = {id}
  BY OnlyOne DEF Resolved
<1>2. \A c \in Needed(q) : resolve(cfg, p, s, c) = id
  BY <1>1
<1>3. \E c \in Needed(q) : TRUE
  BY <1>1
<1>4. id # Absent
  OBVIOUS
<1>a. Matching(cfg, p, s) = Matching(cfg, p, q)
  BY PortIsKept DEF Matching
<1> HIDE DEF id, ids, s
<1>5. \A c \in Needed(q) : OneMatch(cfg, p, s) = id /\ c \in Grants(cfg, p)[id]
  BY <1>2, <1>4 DEF resolve
<1>6. Matching(cfg, p, s) = {id}
  BY <1>3, <1>4, <1>5, OnlyOne DEF OneMatch
<1> QED
  BY <1>5, <1>6, <1>a DEF id

(* A granted repository is one of the principal's grants. *)
ListedGrant(cfg, p, id) ==
  \E g \in Elements(cfg.principals[p].grants) :
    g.repository = id /\ Grants(cfg, p)[id] = Elements(g.capabilities)

(* That is where Grants finds it. *)
LEMMA GrantsAreListed ==
  ASSUME NEW cfg, NEW p
  PROVE  /\ DOMAIN Grants(cfg, p) = {g.repository : g \in Elements(cfg.principals[p].grants)}
         /\ \A id : id \in DOMAIN Grants(cfg, p) => ListedGrant(cfg, p, id)
<1> DEFINE grants == cfg.principals[p].grants
<1>1. DOMAIN Grants(cfg, p) = {grants[i].repository : i \in DOMAIN grants}
  BY DEF Grants
<1>2. {grants[i].repository : i \in DOMAIN grants} = {g.repository : g \in Elements(grants)}
  BY DEF Elements
<1>3. ASSUME NEW id \in DOMAIN Grants(cfg, p)
      PROVE  ListedGrant(cfg, p, id)
  <2> DEFINE k == CHOOSE i \in DOMAIN grants : grants[i].repository = id
  <2>1. \E i \in DOMAIN grants : grants[i].repository = id
    BY <1>1
  <2>2. k \in DOMAIN grants /\ grants[k].repository = id
    BY <2>1
  <2>3. Grants(cfg, p)[id] = Elements(grants[k].capabilities)
    BY <1>1, <1>3 DEF Grants
  <2> QED
    BY <2>2, <2>3 DEF ListedGrant, Elements
<1> QED
  BY <1>1, <1>2, <1>3

(* What a configuration that decodes has. *)
LEMMA Normalized ==
  ASSUME NEW d
  PROVE  /\ DOMAIN normalize(d).providers = DOMAIN d.providers
         /\ \A id \in DOMAIN d.providers : normalize(d).providers[id] = decodedProvider(d.providers[id])
         /\ DOMAIN normalize(d).repositories = DOMAIN d.repositories
         /\ \A id \in DOMAIN d.repositories :
              normalize(d).repositories[id].provider = d.repositories[id].provider
         /\ normalize(d).principals = d.principals
BY DEF normalize

(* The variable of a provider's credential is one that the file names for  *)
(* it, although a field may be merged, null or left out, and it is set. *)
LEMMA ProviderVariable ==
  ASSUME Decodes(doc), CredentialsLoad(normalize(doc), env), Absent \notin DOMAIN env,
         NEW id \in DOMAIN doc.providers
  PROVE  LET n == EnvironmentOf(normalize(doc).providers[id], env)
         IN /\ n \in DOMAIN env /\ n \in Says(id) /\ n \in Names(normalize(doc), env)
            /\ n \in LegacyNames \/ (n = normalize(doc).providers[id].tokenEnv /\ n # "")
<1> DEFINE p == normalize(doc).providers[id]
           n == EnvironmentOf(p, env)
           fields == Effective(doc.providers[id])
<1>1. p = decodedProvider(doc.providers[id])
  BY Normalized
<1>2. p.tokenEnv = Field(doc.providers[id], "tokenEnv", "")
  <2>1. decodedProvider(doc.providers[id]).tokenEnv = Field(doc.providers[id], "tokenEnv", "")
    BY DEF decodedProvider
  <2> QED
    BY <1>1, <2>1
<1>3. id \in DOMAIN normalize(doc).providers
  BY Normalized
<1>4. n \in Names(normalize(doc), env)
  <2>1. n \in ProviderNames(normalize(doc), env)
    BY <1>3 DEF ProviderNames
  <2> QED
    BY <2>1 DEF Names
<1>5. n \in DOMAIN env
  BY <1>4 DEF CredentialsLoad
<1>6. validateProvider(p)
  BY <1>3 DEF Decodes, Validate
<1> HIDE DEF p
<1>7. CASE UsesLegacyProviderToken(p)
  <2>1. n = Only(LegacyNames \cap DOMAIN env)
    BY <1>7 DEF EnvironmentOf
  <2>2. n \in LegacyNames
    BY <1>5, <2>1, OnlyOne
  <2>3. "tokenEnv" \in DOMAIN fields => fields["tokenEnv"] # Null
    BY DEF Decodes, WellFormed, rejectNullProviderFields, NullChecked
  <2>4. "tokenEnv" \in DOMAIN fields => fields["tokenEnv"] # ""
    BY DEF Decodes, Normalizable, OptionalsFilled
  <2>5. p.tokenEnv = ""
    BY <1>7 DEF UsesLegacyProviderToken
  <2>6. "tokenEnv" \notin DOMAIN fields
    BY <1>2, <2>3, <2>4, <2>5 DEF Field
  <2>7. Says(id) = LegacyNames
    BY <2>6 DEF Says
  <2> QED
    BY <1>4, <1>5, <2>2, <2>7 DEF p
<1>8. CASE ~UsesLegacyProviderToken(p)
  <2>1. n = p.tokenEnv
    BY <1>8 DEF EnvironmentOf
  <2>2. p.tokenEnv # ""
    BY <1>6, <1>8 DEF validateProvider, UsesLegacyProviderToken
  <2>3. "tokenEnv" \in DOMAIN fields /\ p.tokenEnv = fields["tokenEnv"]
    BY <1>2, <2>2 DEF Field
  <2>4. Says(id) = {p.tokenEnv}
    BY <2>3 DEF Says
  <2> QED
    BY <1>4, <1>5, <2>1, <2>2, <2>4 DEF p
<1> QED
  BY <1>7, <1>8

(* The repository of a request that is carried out, and its provider, are  *)
(* configured; a provider service reaches only providers of its kind. *)
LEMMA RepositoryIsConfigured ==
  ASSUME Decodes(doc), NEW p \in DOMAIN doc.principals, NEW q,
         NEW id \in Matching(normalize(doc), p, q)
  PROVE  /\ id \in DOMAIN doc.repositories
         /\ doc.repositories[id].provider \in DOMAIN doc.providers
         /\ Matches(q, normalize(doc), id)
         /\ q.kind # "git" => normalize(doc).providers[doc.repositories[id].provider].kind = q.kind
<1> DEFINE cfg == normalize(doc)
<1>1. id \in DOMAIN Grants(cfg, p) /\ Matches(q, cfg, id)
  BY DEF Matching
<1>2. validatePrincipal(cfg, cfg.principals[p])
  BY Normalized DEF Decodes, Validate
<1>3. id \in DOMAIN cfg.repositories
  <2>1. DOMAIN Grants(cfg, p) = {cfg.principals[p].grants[i].repository : i \in DOMAIN cfg.principals[p].grants}
    BY DEF Grants
  <2> QED
    BY <1>1, <1>2, <2>1 DEF validatePrincipal
<1>4. validateRepository(cfg, cfg.repositories[id])
  BY <1>3 DEF Decodes, Validate
<1>5. cfg.repositories[id].provider = doc.repositories[id].provider /\ id \in DOMAIN doc.repositories
  BY <1>3, Normalized
<1>6. doc.repositories[id].provider \in DOMAIN doc.providers
  BY <1>4, <1>5, Normalized DEF validateRepository
<1>7. q.kind # "git" => cfg.providers[doc.repositories[id].provider].kind = q.kind
  BY <1>1, <1>5 DEF Matches, matches
<1> QED
  BY <1>1, <1>5, <1>6, <1>7

(* A Gitea selector means one configured repository. *)
LEMMA GiteaIsUnambiguous ==
  ASSUME Decodes(doc), NEW q, q.kind = "gitea", SelectorOK(q),
         NEW a \in DOMAIN doc.repositories, NEW b \in DOMAIN doc.repositories,
         Matches(q, normalize(doc), a), Matches(q, normalize(doc), b)
  PROVE  a = b
<1> DEFINE cfg == normalize(doc)
<1>1. q.owner # "" /\ q.name # ""
  <2>1. q.owner \in GiteaName /\ q.name \in GiteaName
    BY DEF SelectorOK, giteaSelector, ValidRepositoryIdentity
  <2> QED
    BY <2>1, ConfigAssumption DEF ConfigAssumption
<1>2. a \in DOMAIN cfg.repositories /\ b \in DOMAIN cfg.repositories
  BY Normalized
<1> HIDE DEF cfg
<1>3. ASSUME NEW id \in {a, b}
      PROVE  /\ KindOf(cfg, id) = "gitea"
             /\ SameFold(q.owner, cfg.repositories[id].owner) /\ SameFold(q.name, cfg.repositories[id].name)
  <2>1. Matches(q, cfg, id)
    BY <1>3 DEF cfg
  <2>2. matches(q, cfg.repositories[id], cfg.providers[cfg.repositories[id].provider])
    BY <2>1 DEF Matches
  <2>3. KindOf(cfg, id) = "gitea"
    BY <2>2 DEF matches, KindOf
  <2>4. IdentityMatches(q, cfg.repositories[id], "gitea")
    BY <2>2, <2>3 DEF matches, KindOf
  <2> QED
    BY <1>1, <2>3, <2>4 DEF IdentityMatches
<1>4. /\ SameFold(cfg.repositories[a].owner, cfg.repositories[b].owner)
      /\ SameFold(cfg.repositories[a].name, cfg.repositories[b].name)
  BY <1>3 DEF SameFold
<1>5. validateGiteaRepositoryCollisions(cfg)
  BY DEF Decodes, Validate, cfg
<1> QED
  BY <1>2, <1>3, <1>4, <1>5 DEF validateGiteaRepositoryCollisions

(* The invariant implies what is promised of a request that is carried out. *)
LEMMA ServedSuffices ==
  ASSUME RuntimeInv PROVE ServedAsConfigured
<1> SUFFICES ASSUME last.step = "executed" PROVE ServedAsConfigured
  BY DEF ServedAsConfigured
<1> DEFINE q == last.request
           cfg == normalize(doc)
           p == last.principal
           id == last.repository
           provider == last.provider
<1>1. phase = "serving" /\ Execution(runtime, last)
  BY DEF RuntimeInv, Serves, Nothing
<1>2. /\ Decodes(doc) /\ runtime.cfg = cfg
      /\ CredentialsLoad(cfg, env) /\ runtime.credentials = Load(cfg, env)
  BY <1>1 DEF RuntimeInv, PinnedFrom, Configured, Credentialed
<1>3. \A i \in DOMAIN cfg.providers : runtime.instances[i].token = Load(cfg, env).providers[i]
  BY <1>1 DEF RuntimeInv, PinnedFrom, Built
<1>4. Absent \notin DOMAIN env
  BY StartupAssumption DEF StartupAssumption, RuntimeInv, AsScenario
<1>5. p # Absent /\ p = Authenticate(Load(cfg, env).auth, q.token)
  BY <1>1, <1>2 DEF Execution
<1>6. id # Absent /\ id = Resolved(cfg, q, p) /\ SelectorOK(q) /\ q \in Requests
  BY <1>1, <1>2 DEF Execution
<1>7. provider = cfg.repositories[id].provider
  BY <1>1, <1>2 DEF Execution
<1>8. last.token = IF q.kind = "git" THEN Absent ELSE runtime.instances[provider].token
  BY <1>1 DEF Execution
<1> HIDE DEF q, cfg, p, id, provider
<1>9. cfg.principals = doc.principals
  BY Normalized DEF cfg
<1>10. /\ p \in DOMAIN doc.principals
       /\ \E n \in PrincipalNames(cfg, p) : env[n] = q.token
       /\ \A o \in DOMAIN doc.principals : \A n \in PrincipalNames(cfg, o) : env[n] = q.token => o = p
  <2>1. /\ p \in DOMAIN cfg.principals
        /\ \E n \in PrincipalNames(cfg, p) : env[n] = q.token
        /\ \A o \in DOMAIN cfg.principals : \A n \in PrincipalNames(cfg, o) : env[n] = q.token => o = p
    <3>1. OwnedByOne(cfg, env, q.token, p)
      BY <1>5, AuthenticatedOne
    <3> QED
      BY <3>1 DEF OwnedByOne
  <2> QED
    BY <1>9, <2>1
<1>11. {o \in DOMAIN doc.principals : Owns(o, q.token)} = {p}
  <2>1. \A o \in DOMAIN doc.principals : Owns(o, q.token) => o = p
    BY <1>10, <1>9 DEF Owns, PrincipalNames
  <2>2. \A n \in PrincipalNames(cfg, p) : n \in DOMAIN env
    BY <1>2, <1>9, <1>10 DEF CredentialsLoad, Names, ClientNames
  <2>3. Owns(p, q.token)
    BY <1>10, <1>9, <2>2 DEF Owns, PrincipalNames
  <2> QED
    BY <1>10, <2>1, <2>3
<1>12. Matching(cfg, p, q) = {id} /\ Needed(q) \subseteq Grants(cfg, p)[id]
  BY <1>6, ResolvedOne
<1>13. /\ id \in DOMAIN doc.repositories /\ doc.repositories[id].provider \in DOMAIN doc.providers
       /\ Matches(q, cfg, id)
  BY <1>2, <1>10, <1>12, RepositoryIsConfigured DEF cfg
<1>14. provider = doc.repositories[id].provider
  BY <1>7, <1>13, Normalized DEF cfg
<1>15. DOMAIN Grants(cfg, p) = Granted(p)
  <2>1. DOMAIN Grants(cfg, p) = {g.repository : g \in Elements(cfg.principals[p].grants)}
    BY GrantsAreListed
  <2> QED
    BY <1>9, <2>1 DEF Granted
<1>16. \E g \in {h \in Elements(doc.principals[p].grants) : h.repository = id} :
          Needed(q) \subseteq Elements(g.capabilities)
  <2>1. id \in DOMAIN Grants(cfg, p)
    BY <1>12 DEF Matching
  <2>2. PICK g \in Elements(cfg.principals[p].grants) :
          g.repository = id /\ Grants(cfg, p)[id] = Elements(g.capabilities)
    <3>1. ListedGrant(cfg, p, id)
      BY <2>1, GrantsAreListed
    <3> QED
      BY <3>1 DEF ListedGrant
  <2>3. g \in Elements(doc.principals[p].grants)
    BY <1>9, <2>2
  <2> QED
    BY <1>12, <2>2, <2>3
<1>17. \A i \in Granted(p) : Matches(q, cfg, i) <=> i = id
  BY <1>12, <1>13, <1>15 DEF Matching
<1>18. q.kind = "gitea" => \A i \in DOMAIN doc.repositories : Matches(q, cfg, i) => i = id
  BY <1>2, <1>6, <1>13, GiteaIsUnambiguous DEF cfg
<1>19. last.token # Absent => \E n \in Says(provider) : n \in DOMAIN env /\ env[n] = last.token
  <2>1. SUFFICES ASSUME last.token # Absent PROVE \E n \in Says(provider) : n \in DOMAIN env /\ env[n] = last.token
    OBVIOUS
  <2>2. provider \in DOMAIN doc.providers /\ provider \in DOMAIN cfg.providers
    BY <1>13, <1>14, Normalized DEF cfg
  <2>3. last.token = Load(cfg, env).providers[provider]
    BY <1>3, <1>8, <2>1, <2>2
  <2>4. last.token = env[EnvironmentOf(cfg.providers[provider], env)]
    BY <2>2, <2>3 DEF Load
  <2>5. /\ EnvironmentOf(cfg.providers[provider], env) \in DOMAIN env
        /\ EnvironmentOf(cfg.providers[provider], env) \in Says(provider)
    BY <1>2, <1>4, <2>2, ProviderVariable DEF cfg
  <2> QED
    BY <2>4, <2>5
<1> QED
  BY <1>11, <1>14, <1>16, <1>17, <1>18, <1>19 DEF ServedAsConfigured, q, cfg, p, id, provider

(* Whatever the file leaves out, merges or sets to null: a request that is *)
(* carried out acts for the one owner of its token, on the one repository  *)
(* it can mean, with the credential the file names for its provider. *)
THEOREM ServedAsConfiguredAlways == Spec => []ServedAsConfigured
<1>1. RuntimeInv => ServedAsConfigured
  BY ServedSuffices
<1> QED
  BY <1>1, RuntimeInit, RuntimeStep, PTL DEF Spec
-----------------------------------------------------------------------------
(* No principal's variable holds the credential of a provider: the values  *)
(* differ because the names do, and no name has two owners. *)
LEMMA ProvidersAreNoPrincipals ==
  ASSUME Decodes(doc), CredentialsLoad(normalize(doc), env), Absent \notin DOMAIN env,
         NEW id \in DOMAIN doc.providers, NEW o \in DOMAIN doc.principals,
         NEW m \in PrincipalNames(normalize(doc), o)
  PROVE  env[m] # env[EnvironmentOf(normalize(doc).providers[id], env)]
<1> DEFINE cfg == normalize(doc)
           n == EnvironmentOf(cfg.providers[id], env)
<1>1. /\ n \in Names(cfg, env)
      /\ n \in LegacyNames \/ (n = cfg.providers[id].tokenEnv /\ n # "")
  BY ProviderVariable
<1>2. cfg.principals = doc.principals /\ id \in DOMAIN cfg.providers
  BY Normalized
<1>3. validateCredentialNames(cfg)
  BY DEF Decodes, Validate
<1>4. \A k \in Names(cfg, env), l \in Names(cfg, env) : env[k] = env[l] => k = l
  BY DEF CredentialsLoad
<1> HIDE DEF n, cfg
<1>5. m \in PrincipalNames(cfg, o)
  BY DEF cfg
<1>6. m \in Names(cfg, env)
  BY <1>2, <1>5 DEF Names, ClientNames
<1>7. PICK i \in DOMAIN cfg.principals[o].tokenEnvs : m = cfg.principals[o].tokenEnvs[i]
  BY <1>5 DEF PrincipalNames, Elements
<1>8. m # n
  <2>1. CASE n \in LegacyNames
    <3>1. m \in TokenEnvName
      BY <1>2, <1>3, <1>5 DEF validateCredentialNames, PrincipalNames
    <3>2. LegacyNames \cap TokenEnvName = {}
      BY ConfigAssumption DEF ConfigAssumption
    <3> QED
      BY <2>1, <3>1, <3>2
  <2>2. CASE n = cfg.providers[id].tokenEnv /\ n # ""
    <3> DEFINE a == <<"principal", o, i>>
               b == <<"provider", id, 0>>
    <3>1. a \in CredentialNames(cfg) /\ b \in CredentialNames(cfg)
      <4>1. a \in {<<"principal", o, k>> : k \in DOMAIN cfg.principals[o].tokenEnvs}
        BY <1>7
      <4>2. b \in ProviderOwners(cfg)
        BY <1>2, <2>2 DEF ProviderOwners
      <4> HIDE DEF a, b
      <4>3. a \in PrincipalOwners(cfg)
        BY <1>2, <4>1 DEF PrincipalOwners
      <4> QED
        BY <4>2, <4>3 DEF CredentialNames
    <3>2. NameOf(cfg, a) = m /\ NameOf(cfg, b) = n
      BY <1>7, <2>2 DEF NameOf
    <3>3. a # b
      OBVIOUS
    <3> HIDE DEF a, b
    <3> QED
      BY <1>3, <3>1, <3>2, <3>3 DEF validateCredentialNames
  <2> QED
    BY <1>1, <2>1, <2>2
<1>9. env[m] # env[n]
  BY <1>1, <1>4, <1>6, <1>8
<1> QED
  BY <1>9 DEF n, cfg

(* What is left in the token-free environment is under names that are      *)
(* neither configured nor controls, and is no credential. *)
LEMMA FreeHasNoSecret ==
  ASSUME AsScenario, Decodes(doc), CredentialsLoad(normalize(doc), env),
         NEW k \in DOMAIN FreeOf(doc, env)
  PROVE  /\ k \in DOMAIN env /\ k \notin Controls /\ FreeOf(doc, env)[k] = env[k]
         /\ \A n \in Names(normalize(doc), env) : env[k] # env[n]
<1> DEFINE names == Names(normalize(doc), env)
<1>1. k \in DOMAIN env /\ k \notin names /\ k \notin Controls /\ FreeOf(doc, env)[k] = env[k]
  BY DEF FreeOf, TokenFreeEnvironment
<1>2. PICK s \in Scenarios : doc = s.doc /\ env = s.env
  BY DEF AsScenario
<1>3. HasSecrets(s)
  BY <1>2 DEF HasSecrets
<1>4. \A n \in DOMAIN env : env[n] \in Secret(s) => n \in names \cup Controls
  <2>1. s \in {t \in Scenarios : HasSecrets(t)}
    BY <1>3
  <2>2. \A n \in DOMAIN s.env : s.env[n] \in Secret(s) => n \in Names(normalize(s.doc), s.env) \cup Controls
    BY <2>1, SecretsAssumption DEF SecretsAssumption
  <2> QED
    BY <1>2, <2>2
<1>5. \A n \in names : env[n] \in Secret(s)
  BY <1>2 DEF Secret
<1> HIDE DEF names
<1>6. \A n \in names : env[k] # env[n]
  BY <1>1, <1>4, <1>5
<1> QED
  BY <1>1, <1>6 DEF names

(* No credential is the "1" that gh's switches are set to. *)
LEMMA SwitchesAreNoSecret ==
  ASSUME AsScenario, Decodes(doc), CredentialsLoad(normalize(doc), env),
         NEW n \in Names(normalize(doc), env)
  PROVE  env[n] # "1"
<1>1. PICK s \in Scenarios : doc = s.doc /\ env = s.env
  BY DEF AsScenario
<1>2. s \in {t \in Scenarios : HasSecrets(t)}
  BY <1>1 DEF HasSecrets
<1>3. "1" \notin Secret(s)
  BY <1>2, SecretsAssumption DEF SecretsAssumption
<1>4. env[n] \in Secret(s)
  BY <1>1 DEF Secret
<1> QED
  BY <1>3, <1>4

(* A child that gets this environment, for a request with this token, gets *)
(* no other credential and no other control. *)
Guarded(child, token, allowed) ==
  /\ DOMAIN child \cap Controls \subseteq allowed
  /\ "GH_TOKEN" \in DOMAIN child => child["GH_TOKEN"] = token
  /\ \A k \in DOMAIN child : \A i \in DOMAIN normalize(doc).providers :
       child[k] = Load(normalize(doc), env).providers[i] => child[k] = token
  /\ \A k \in DOMAIN child : ~\E o \in DOMAIN doc.principals : Owns(o, child[k])

(* Credentials, of providers and of principals, are in the variables of Names. *)
LEMMA SecretsHaveNames ==
  ASSUME Decodes(doc), CredentialsLoad(normalize(doc), env), NEW v
  PROVE  /\ \A i \in DOMAIN normalize(doc).providers :
              v = Load(normalize(doc), env).providers[i] => \E n \in Names(normalize(doc), env) : v = env[n]
         /\ \A o \in DOMAIN doc.principals : Owns(o, v) => \E n \in Names(normalize(doc), env) : v = env[n]
<1> DEFINE cfg == normalize(doc)
<1>1. cfg.principals = doc.principals
  BY Normalized
<1> HIDE DEF cfg
<1>2. ASSUME NEW i \in DOMAIN cfg.providers, v = Load(cfg, env).providers[i]
      PROVE  \E n \in Names(cfg, env) : v = env[n]
  <2>1. v = env[EnvironmentOf(cfg.providers[i], env)]
    BY <1>2 DEF Load
  <2>2. EnvironmentOf(cfg.providers[i], env) \in ProviderNames(cfg, env)
    BY <1>2 DEF ProviderNames
  <2>3. EnvironmentOf(cfg.providers[i], env) \in Names(cfg, env)
    BY <2>2 DEF Names
  <2> QED
    BY <2>1, <2>3
<1>3. ASSUME NEW o \in DOMAIN doc.principals, Owns(o, v) PROVE \E n \in Names(cfg, env) : v = env[n]
  <2>1. PICK n \in PrincipalNames(cfg, o) : env[n] = v
    BY <1>1, <1>3 DEF Owns, PrincipalNames
  <2>2. n \in Names(cfg, env)
    BY <1>1, <2>1 DEF Names, ClientNames
  <2> QED
    BY <2>1, <2>2
<1> QED
  BY <1>2, <1>3 DEF cfg

(* The environment of ssh holds no credential and no control. *)
LEMMA FreeIsGuarded ==
  ASSUME AsScenario, Decodes(doc), CredentialsLoad(normalize(doc), env), NEW token
  PROVE  Guarded(FreeOf(doc, env), token, {})
<1> DEFINE free == FreeOf(doc, env)
<1>1. \A k \in DOMAIN free : k \notin Controls /\ \A n \in Names(normalize(doc), env) : free[k] # env[n]
  BY FreeHasNoSecret
<1>2. "GH_TOKEN" \in Controls
  BY ConfigAssumption DEF ConfigAssumption, LegacyNames
<1> HIDE DEF free
<1>3. \A k \in DOMAIN free : \A i \in DOMAIN normalize(doc).providers :
        free[k] # Load(normalize(doc), env).providers[i]
  BY <1>1, SecretsHaveNames
<1>4. \A k \in DOMAIN free : ~\E o \in DOMAIN doc.principals : Owns(o, free[k])
  BY <1>1, SecretsHaveNames
<1>5. DOMAIN free \cap Controls \subseteq {} /\ "GH_TOKEN" \notin DOMAIN free
  BY <1>1, <1>2
<1> QED
  BY <1>3, <1>4, <1>5 DEF Guarded, free

(* The environment of gh holds the token of its provider and no other. *)
LEMMA GitHubIsGuarded ==
  ASSUME AsScenario, Decodes(doc), CredentialsLoad(normalize(doc), env), Absent \notin DOMAIN env,
         NEW id \in DOMAIN doc.providers, NEW token, token = Load(normalize(doc), env).providers[id]
  PROVE  Guarded(GitHubEnvironment(FreeOf(doc, env), token), token,
                 {"GH_TOKEN", "GH_PROMPT_DISABLED", "GH_NO_UPDATE_NOTIFIER"})
<1> DEFINE free == FreeOf(doc, env)
           child == GitHubEnvironment(free, token)
           cfg == normalize(doc)
<1>1. \A k \in DOMAIN free : k \notin Controls /\ \A n \in Names(cfg, env) : free[k] # env[n]
  BY FreeHasNoSecret
<1>2. "GH_TOKEN" \in Controls /\ "NO_COLOR" \notin Controls /\ "1" \notin ValidToken
  BY ConfigAssumption DEF ConfigAssumption, LegacyNames
<1> HIDE DEF free
<1>3. /\ DOMAIN child = DOMAIN free \cup GitHubSets \cup {"GH_TOKEN"}
      /\ child["GH_TOKEN"] = token
      /\ \A k \in GitHubSets : child[k] = "1"
      /\ \A k \in DOMAIN free : k \in GitHubSets \cup {"GH_TOKEN"} \/ child[k] = free[k]
  BY DEF GitHubEnvironment, GitHubSets
<1>4. id \in DOMAIN cfg.providers
  BY Normalized
<1>5. token = env[EnvironmentOf(cfg.providers[id], env)]
  BY <1>4 DEF Load
<1> HIDE DEF child
<1>6. \A k \in DOMAIN child : \/ child[k] = token \/ child[k] = "1"
                              \/ \A n \in Names(cfg, env) : child[k] # env[n]
  BY <1>1, <1>3
<1>7. DOMAIN child \cap Controls \subseteq {"GH_TOKEN", "GH_PROMPT_DISABLED", "GH_NO_UPDATE_NOTIFIER"}
  BY <1>1, <1>2, <1>3 DEF GitHubSets
<1>8. \A n \in Names(cfg, env) : env[n] # "1"
  BY SwitchesAreNoSecret
<1>9. ASSUME NEW k \in DOMAIN child, NEW i \in DOMAIN cfg.providers, child[k] = Load(cfg, env).providers[i]
      PROVE  child[k] = token
  <2>1. \E n \in Names(cfg, env) : child[k] = env[n]
    BY <1>9, SecretsHaveNames
  <2> QED
    BY <1>6, <1>8, <2>1
<1>10. ASSUME NEW k \in DOMAIN child, NEW o \in DOMAIN doc.principals, Owns(o, child[k]) PROVE FALSE
  <2>1. \E n \in Names(cfg, env) : child[k] = env[n]
    BY <1>10, SecretsHaveNames
  <2>2. child[k] = token
    BY <1>6, <1>8, <2>1
  <2>3. PICK m \in PrincipalNames(cfg, o) : env[m] = child[k]
    BY <1>10, Normalized DEF Owns, PrincipalNames
  <2>4. env[m] # env[EnvironmentOf(cfg.providers[id], env)]
    BY <2>3, ProvidersAreNoPrincipals
  <2> QED
    BY <1>5, <2>2, <2>3, <2>4
<1> QED
  BY <1>3, <1>7, <1>9, <1>10 DEF Guarded, child, free

(* The invariant implies what is promised of child environments. *)
LEMMA SecretsSuffice ==
  ASSUME RuntimeInv PROVE SecretsStayHome
<1> SUFFICES ASSUME last.step = "executed", last.child # Absent PROVE SecretsStayHome
  BY DEF SecretsStayHome
<1> DEFINE q == last.request
           cfg == normalize(doc)
           allowed == IF q.kind = "github" THEN {"GH_TOKEN", "GH_PROMPT_DISABLED", "GH_NO_UPDATE_NOTIFIER"} ELSE {}
<1>1. phase = "serving" /\ Execution(runtime, last) /\ AsScenario
  BY DEF RuntimeInv, Serves, Nothing
<1>2. /\ Decodes(doc) /\ runtime.cfg = cfg
      /\ CredentialsLoad(cfg, env) /\ runtime.credentials = Load(cfg, env)
  BY <1>1 DEF RuntimeInv, PinnedFrom, Configured, Credentialed
<1>3. /\ runtime.environment = FreeOf(doc, env)
      /\ \A i \in DOMAIN cfg.providers :
           /\ runtime.instances[i].token = Load(cfg, env).providers[i]
           /\ runtime.instances[i].environment =
                IF cfg.providers[i].kind = "github"
                THEN GitHubEnvironment(FreeOf(doc, env), Load(cfg, env).providers[i]) ELSE Absent
  BY <1>1 DEF RuntimeInv, PinnedFrom, Built
<1>4. Absent \notin DOMAIN env
  BY StartupAssumption DEF StartupAssumption, RuntimeInv, AsScenario
<1>5. /\ q.kind \in {"github", "gitea", "git"}
      /\ last.token = IF q.kind = "git" THEN Absent ELSE runtime.instances[last.provider].token
      /\ q.kind = "git" => last.child = runtime.environment
      /\ q.kind = "github" => last.child = runtime.instances[last.provider].environment
      /\ q.kind = "gitea" => last.child = Absent
  BY <1>1, StartupAssumption DEF StartupAssumption, Execution
<1>6. Guarded(last.child, last.token, allowed)
  <2>1. CASE q.kind = "git"
    <3>1. last.child = FreeOf(doc, env) /\ allowed = {}
      BY <1>3, <1>5, <2>1
    <3> QED
      BY <1>1, <1>2, <3>1, FreeIsGuarded
  <2>2. CASE q.kind = "github"
    <3>1. last.provider \in DOMAIN doc.providers /\ last.provider \in DOMAIN cfg.providers
          /\ cfg.providers[last.provider].kind = "github"
      <4>1. last.principal # Absent /\ last.principal = Authenticate(Load(cfg, env).auth, q.token)
        BY <1>1, <1>2 DEF Execution
      <4>2. /\ last.repository # Absent /\ last.repository = Resolved(cfg, q, last.principal)
            /\ SelectorOK(q) /\ q \in Requests
        BY <1>1, <1>2 DEF Execution
      <4>3. last.provider = cfg.repositories[last.repository].provider
        BY <1>1, <1>2 DEF Execution
      <4> HIDE DEF cfg, q
      <4>4. OwnedByOne(cfg, env, q.token, last.principal)
        BY <4>1, AuthenticatedOne
      <4>5. last.principal \in DOMAIN doc.principals
        BY <4>4, Normalized DEF OwnedByOne, cfg
      <4>6. last.repository \in Matching(cfg, last.principal, q)
        BY <4>2, ResolvedOne
      <4>7. /\ last.repository \in DOMAIN doc.repositories
            /\ doc.repositories[last.repository].provider \in DOMAIN doc.providers
            /\ cfg.providers[doc.repositories[last.repository].provider].kind = q.kind
        BY <1>2, <2>2, <4>5, <4>6, RepositoryIsConfigured DEF cfg
      <4>8. last.provider = doc.repositories[last.repository].provider
        BY <4>3, <4>7, Normalized DEF cfg
      <4>9. DOMAIN cfg.providers = DOMAIN doc.providers
        BY Normalized DEF cfg
      <4> QED
        BY <2>2, <4>7, <4>8, <4>9
    <3>2. last.token = Load(cfg, env).providers[last.provider]
      BY <1>3, <1>5, <2>2, <3>1
    <3>3. last.child = GitHubEnvironment(FreeOf(doc, env), last.token)
      BY <1>3, <1>5, <2>2, <3>1, <3>2
    <3>4. allowed = {"GH_TOKEN", "GH_PROMPT_DISABLED", "GH_NO_UPDATE_NOTIFIER"}
      BY <2>2
    <3> HIDE DEF allowed
    <3> QED
      BY <1>1, <1>2, <1>4, <3>1, <3>2, <3>3, <3>4, GitHubIsGuarded
  <2> QED
    BY <1>5, <2>1, <2>2
<1>7. DOMAIN runtime.credentials.providers = DOMAIN cfg.providers
  BY <1>2 DEF Load
<1> HIDE DEF cfg
<1>8. \A n \in DOMAIN last.child : \A i \in DOMAIN runtime.credentials.providers :
        last.child[n] = runtime.credentials.providers[i] => last.child[n] = last.token
  BY <1>2, <1>6, <1>7 DEF Guarded, cfg
<1> QED
  BY <1>6, <1>8 DEF SecretsStayHome, Guarded

(* No child process gets a credential of the broker, except gh its own     *)
(* provider's token, and none gets a variable that steers gh: for every    *)
(* configuration and every environment in which a credential has no other  *)
(* copy. *)
THEOREM SecretsStayHomeAlways == Spec => []SecretsStayHome
<1>1. RuntimeInv => SecretsStayHome
  BY SecretsSuffice
<1> QED
  BY <1>1, RuntimeInit, RuntimeStep, PTL DEF Spec
=============================================================================
