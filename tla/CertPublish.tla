---------------------------- MODULE CertPublish ----------------------------
(***************************************************************************)
(* `repowolf cert init`: tlsconfig.Init and publishDirectory.  Several     *)
(* runs may publish to one output directory; each stages its four files in *)
(* a directory of its own next to the output and renames it into place.    *)
(*                                                                         *)
(* The file system is the one the code is written for: what a process sees *)
(* (files, output) is ahead of what a power loss leaves (durable), and     *)
(* fsync closes the gap for one file, one directory or the parent.  A run  *)
(* may be killed between any two steps, and the power may fail.  A         *)
(* staging directory nobody renames is litter that no code looks at.       *)
(***************************************************************************)
EXTENDS Naturals, Sequences

CONSTANTS Run,      \* invocations of `repowolf cert init --output DIR`
          None,
          Foreign   \* an empty directory that was at the output before

ASSUME RunsAreOrdinary == None \notin Run /\ Foreign \notin Run /\ None # Foreign

VARIABLES
  pc,       \* the step each run is at
  files,    \* what each run's directory holds, file by file
  entries,  \* the runs whose staging directory has been synced
  output,   \* whose directory is at the output path
  durable,  \* whose directory a power loss would leave there
  before    \* what was at the output path when it all began

certVars == <<pc, files, entries, output, durable, before>>

\* generateFileSpecs, in the order in which they are written
Specs == <<"ca.crt", "ca.key", "tls.crt", "tls.key">>
File == {Specs[i] : i \in 1..4}

Content == {"absent", "partial", "whole", "synced"}
Empty == [f \in File |-> "absent"]
Whole(contents) == \A f \in File : contents[f] \in {"whole", "synced"}

Running == {"mkdir", "write", "sync staging", "rename", "sync parent", "remove", "print"}
Ended == {"succeeded", "failed", "dead"}

CertTypeOK ==
  /\ pc \in [Run -> {"idle"} \cup Running \cup Ended]
  /\ files \in [Run -> [File -> Content]]
  /\ entries \subseteq Run
  /\ {output, durable, before} \subseteq Run \cup {None, Foreign}

CertInit ==
  /\ pc = [r \in Run |-> "idle"]
  /\ files = [r \in Run |-> Empty]
  /\ entries = {}
  /\ output \in {None, Foreign}
  /\ durable = output /\ before = output

(* The same after one run has succeeded and the others have met EEXIST.    *)
CertOver ==
  \E winner \in Run :
    /\ pc = [r \in Run |-> IF r = winner THEN "succeeded" ELSE "failed"]
    /\ files = [r \in Run |-> [f \in File |-> IF r = winner THEN "synced" ELSE "absent"]]
    /\ entries = {winner} /\ output = winner /\ durable = winner /\ before = None

Goto(r, step) == pc' = [pc EXCEPT ![r] = step]
Write(r, f, content) == files' = [files EXCEPT ![r][f] = content]
Directories == <<entries, output, durable, before>>

(* parseCertInit, Init's checks, key generation and the opening of the     *)
(* parent may all refuse before anything is created.                       *)
Start(r) ==
  /\ pc[r] = "idle"
  /\ Goto(r, "mkdir") \/ Goto(r, "failed")
  /\ UNCHANGED <<files, Directories>>

MkdirTemp(r) ==
  /\ pc[r] = "mkdir"
  /\ Goto(r, "write") \/ Goto(r, "failed")
  /\ UNCHANGED <<files, Directories>>

\* the file writeStagedFiles is at
Current(r) == CHOOSE i \in 1..4 :
  /\ files[r][Specs[i]] # "synced"
  /\ \A j \in 1..(i - 1) : files[r][Specs[j]] = "synced"
AllSynced(r) == \A f \in File : files[r][f] = "synced"

(* writeStagedFile: O_CREATE|O_EXCL, io.Copy, then Sync.                   *)
writeStagedFile(r) ==
  /\ pc[r] = "write" /\ ~AllSynced(r)
  /\ LET f == Specs[Current(r)]
     IN Write(r, f, CASE files[r][f] = "absent" -> "partial"
                      [] files[r][f] = "partial" -> "whole"
                      [] files[r][f] = "whole" -> "synced")
  /\ UNCHANGED <<pc, Directories>>

writeStagedFiles(r) ==
  /\ pc[r] = "write" /\ AllSynced(r)
  /\ Goto(r, "sync staging")
  /\ UNCHANGED <<files, Directories>>

\* mutant: the entries of the staging directory left to the page cache
NoStagingSync(r) ==
  /\ pc[r] = "sync staging"
  /\ Goto(r, "rename")
  /\ UNCHANGED <<files, Directories>>

syncDirectory(r) ==
  /\ pc[r] = "sync staging"
  /\ entries' = entries \cup {r}
  /\ Goto(r, "rename")
  /\ UNCHANGED <<files, output, durable, before>>

(* Any of these steps may fail; the deferred function then removes the     *)
(* staging directory.                                                      *)
StagingFails(r) ==
  /\ pc[r] \in {"write", "sync staging", "rename"}
  /\ Goto(r, "remove")
  /\ UNCHANGED <<files, Directories>>

(* RENAME_NOREPLACE succeeds only where nothing is; EEXIST otherwise.      *)
renameNoReplace(r) ==
  /\ pc[r] = "rename"
  /\ IF output = None
     THEN output' = r /\ Goto(r, "sync parent")
     ELSE Goto(r, "remove") /\ UNCHANGED output
  /\ UNCHANGED <<files, entries, durable, before>>

(* The parent is synced after the rename, whose entry is on disk then.     *)
(* When that fails the run fails, although its directory is published.     *)
syncParent(r) ==
  /\ pc[r] = "sync parent"
  /\ \/ durable' = output /\ Goto(r, "print")
     \/ durable' \in {durable, output} /\ Goto(r, "failed")
  /\ UNCHANGED <<files, entries, output, before>>

(* removeStaging, which may fail half-way.                                 *)
removeStaging(r) ==
  /\ pc[r] = "remove"
  /\ Goto(r, "failed")
  /\ files' = [files EXCEPT ![r] = Empty]
  /\ UNCHANGED Directories

(* RunCertInit prints the four paths, the user's sign that all is well.    *)
PrintPaths(r) ==
  /\ pc[r] = "print"
  /\ Goto(r, "succeeded") \/ Goto(r, "failed")
  /\ UNCHANGED <<files, Directories>>

Killed(r) ==
  /\ pc[r] \in Running
  /\ Goto(r, "dead")
  /\ UNCHANGED <<files, Directories>>

(* What a power loss may leave of a file: all of it when the file and the  *)
(* directory entry are on disk, otherwise also less.                       *)
Remains(r, f) ==
  CASE files[r][f] = "synced" /\ r \in entries -> {"synced"}
    [] files[r][f] = "synced" /\ r \notin entries -> {"absent", "synced"}
    [] OTHER -> {"absent", "partial", files[r][f]}

PowerLoss ==
  /\ \E o \in {output, durable} :
       /\ output' = o /\ durable' = o
       /\ \E contents \in [File -> Content] :
            /\ \A f \in File : o \in Run => contents[f] \in Remains(o, f)
            /\ o \notin Run => contents = Empty
            /\ files' = [r \in Run |-> IF r = o THEN contents ELSE Empty]
       /\ entries' = {o} \cap Run
  /\ pc' = [r \in Run |-> IF pc[r] \in Running THEN "dead" ELSE pc[r]]
  /\ UNCHANGED before

CertRun(r) ==
  \/ Start(r) \/ MkdirTemp(r) \/ writeStagedFile(r) \/ writeStagedFiles(r) \/ syncDirectory(r)
  \/ StagingFails(r) \/ renameNoReplace(r) \/ syncParent(r) \/ removeStaging(r)
  \/ PrintPaths(r) \/ Killed(r)

CertNext == PowerLoss \/ \E r \in Run : CertRun(r)

CertSpec == CertInit /\ [][CertNext]_certVars
-----------------------------------------------------------------------------
(* The directory at the output path is whole from the moment it is there,  *)
(* also after a power loss at the worst moment; it is never put in place   *)
(* of something that was there; and a run that told its user of success    *)
(* has its own directory there, for good.                                  *)
PublishedIsWhole ==
  /\ output \in Run => Whole(files[output])
  /\ before # None => output = before
  /\ \A r \in Run : pc[r] = "succeeded" => output = r /\ durable = r
=============================================================================
