----------------------------- MODULE Artifacts -----------------------------
(***************************************************************************)
(* The artifacts of one execution, internal/artifact: when its process has *)
(* ended, the worker copies each declared file from the container into     *)
(* the local store and makes a row of it, and the API serves what the rows *)
(* point to, also while others are still being copied.                     *)
(*                                                                         *)
(* An artifact is the number of its declaration.  The store names a file   *)
(* after the last element of its path only, and one deadline runs for all  *)
(* artifacts and for the rows about them.  A file is a sequence of blocks, *)
(* written one by one, and read one by one by each download: os.Create     *)
(* empties the file that a download has open, and does not replace it.     *)
(***************************************************************************)
EXTENDS Naturals, Sequences

CONSTANTS
  FileName,
  BaseName,   \* the file name of each declaration
  Archives,   \* what may be at a declared path: the entries of the tar
  Reader,     \* downloads under way at a time
  MaxFaults   \* bound on calls that fail by themselves

Declared == 1..Len(BaseName)

ASSUME NamesAssumption == BaseName \in Seq(FileName)
ASSUME ArchivesAssumption ==
  Archives \subseteq Seq([kind : {"dir", "file", "link"}, size : Nat])
ASSUME BoundsAssumption == MaxFaults \in Nat

VARIABLES
  archive,   \* what the container has at each path; << >>: nothing
  work,      \* the artifact that is copied, and the worker's next step
  files,     \* the blocks of each file in the directory of the execution
  rows,      \* table execution_artifacts
  expired,   \* the deadline of five minutes has passed
  download,  \* what each download is about, how much it has announced and sent
  created,   \* history: artifacts for which os.Create has made a file
  lost,      \* history: artifacts whose row could not be inserted
  faults

vars == <<archive, work, files, rows, expired, download, created, lost, faults>>

NoDownload == [of |-> 0, stage |-> "idle", size |-> 0, sent |-> << >>]

Init ==
  /\ archive \in [Declared -> Archives]
  /\ work = [on |-> 1, step |-> IF Declared = {} THEN "done" ELSE "copy"]
  /\ files = [n \in FileName |-> << >>]
  /\ rows = [a \in Declared |-> "none"]
  /\ expired = FALSE
  /\ download = [r \in Reader |-> NoDownload]
  /\ created = {} /\ lost = {} /\ faults = 0

Go(step) == work' = [work EXCEPT !.step = step]

\* A call of the worker fails by itself, or because its context has expired;
\* the daemon and the database are not even asked with such a context.
Fault ==
  \/ expired /\ UNCHANGED faults
  \/ faults < MaxFaults /\ faults' = faults + 1
Works == ~expired /\ UNCHANGED faults

\* extractFileFromTar: the first entry, or the second if that one is a
\* directory, must be a file.  0: there is none.
Extracted(tar) ==
  LET k == IF tar # << >> /\ tar[1].kind = "dir" THEN 2 ELSE 1
  IN IF k <= Len(tar) /\ tar[k].kind = "file" THEN k ELSE 0

\* What the container has in an entry of the tar for an artifact.
Blocks(a, entry) ==
  [i \in 1..archive[a][entry].size |-> [of |-> a, entry |-> entry, at |-> i]]

\* What the reader that extractFileFromTar returns yields until its end.
Content(a) == Blocks(a, Extracted(archive[a]))

\* The file of an artifact in the directory of its execution.
Path(a) == BaseName[a]

\* CopyFromContainer.
CopyFromContainer ==
  /\ work.step = "copy"
  /\ \/ Works /\ archive[work.on] # << >> /\ Go("extract")
     \/ Works /\ archive[work.on] = << >> /\ Go("record failed")
     \/ Fault /\ Go("record failed")
  /\ UNCHANGED <<archive, files, rows, expired, download, created, lost>>

Extract ==
  /\ work.step = "extract"
  /\ \/ /\ Go(IF Extracted(archive[work.on]) # 0 THEN "create" ELSE "record failed")
        /\ UNCHANGED faults
     \/ Fault /\ Go("record failed")
  /\ UNCHANGED <<archive, files, rows, expired, download, created, lost>>

\* Store, up to os.Create, which empties a file of that name, whoever has it
\* open.  Store does not look at its context.
CreateFile ==
  /\ work.step = "create"
  /\ \/ /\ files' = [files EXCEPT ![Path(work.on)] = << >>]
        /\ created' = created \cup {work.on}
        /\ Go("write") /\ UNCHANGED faults
     \/ Fault /\ Go("record failed") /\ UNCHANGED <<files, created>>
  /\ UNCHANGED <<archive, rows, expired, download, lost>>

\* Mutant of Written: the error of the copy is not looked at.
Written_Unchecked(ok) == "record stored"

Written(ok) == IF ok THEN "record stored" ELSE "record failed"

\* io.Copy, block by block to the end of the entry, from a stream that the
\* context may end; what came before stays.
WriteFile ==
  /\ work.step = "write"
  /\ LET content == Content(work.on)
         done == Len(files[Path(work.on)])
     IN \/ /\ done < Len(content) /\ Go("write") /\ UNCHANGED faults
           /\ files' = [files EXCEPT ![Path(work.on)] = Append(@, content[done + 1])]
        \/ done = Len(content) /\ Go(Written(TRUE)) /\ UNCHANGED <<files, faults>>
        \/ Fault /\ Go(Written(FALSE)) /\ UNCHANGED files
  /\ UNCHANGED <<archive, rows, expired, download, created, lost>>

\* Mutant of Follow: the first failure ends the loop of CopyArtifacts.
Follow_StopsAtFailure(status) ==
  IF status = "stored" /\ work.on < Len(BaseName) THEN [on |-> work.on + 1, step |-> "copy"]
  ELSE [work EXCEPT !.step = "done"]

\* The loop of CopyArtifacts.
Follow(status) ==
  IF work.on < Len(BaseName) THEN [on |-> work.on + 1, step |-> "copy"]
  ELSE [work EXCEPT !.step = "done"]

\* repo.Create for the artifact, with the same context; an error is logged.
Record(status) ==
  /\ \/ Works /\ rows' = [rows EXCEPT ![work.on] = status] /\ UNCHANGED lost
     \/ Fault /\ lost' = lost \cup {work.on} /\ UNCHANGED rows
  /\ work' = Follow(status)
  /\ UNCHANGED <<archive, files, expired, download, created>>

RecordStored == work.step = "record stored" /\ Record("stored")
RecordFailed == work.step = "record failed" /\ Record("failed")

\* The five minutes are over.
Expire ==
  /\ work.step # "done" /\ ~expired /\ expired' = TRUE
  /\ UNCHANGED <<archive, work, files, rows, download, created, lost, faults>>

\* The process ends; nothing resumes the copying.
Crash ==
  /\ work' = [work EXCEPT !.step = "crashed"]
  /\ work.step \notin {"done", "crashed"}
  /\ download' = [r \in Reader |-> NoDownload]
  /\ UNCHANGED <<archive, files, rows, expired, created, lost, faults>>

-----------------------------------------------------------------------------
Sending == UNCHANGED <<archive, work, files, rows, expired, created, lost, faults>>

\* DownloadArtifact: GetByID; an artifact that failed is refused.
DownloadArtifact(r, a) ==
  /\ download[r].stage = "idle" /\ rows[a] = "stored"
  /\ download' = [download EXCEPT ![r].of = a, ![r].stage = "found"]
  /\ Sending

\* GetDownloadURL, and c.File up to the header: the file at the path of the row
\* is opened, and the length that it has now is announced.
OpenFile(r) ==
  /\ download[r].stage = "found"
  /\ download' = [download EXCEPT ![r].stage = "open",
                                  ![r].size = Len(files[Path(download[r].of)])]
  /\ Sending

\* c.File copies as much as was announced, from what the file has by now.
SendBlock(r) ==
  LET next == Len(download[r].sent) + 1
      file == files[Path(download[r].of)]
  IN /\ download[r].stage = "open" /\ next <= download[r].size /\ next <= Len(file)
     /\ download' = [download EXCEPT ![r].sent = Append(@, file[next])]
     /\ Sending

\* It stops there, or where the file ends: the answer is then short of what was
\* announced.
EndOfFile(r) ==
  LET next == Len(download[r].sent) + 1
  IN /\ download[r].stage = "open"
     /\ next > download[r].size \/ next > Len(files[Path(download[r].of)])
     /\ download' = [download EXCEPT ![r].stage = "sent"]
     /\ Sending

\* The request ends, or its client goes away before.
EndDownload(r) ==
  /\ download[r].stage # "idle"
  /\ download' = [download EXCEPT ![r] = NoDownload]
  /\ Sending

-----------------------------------------------------------------------------
Store == CreateFile \/ WriteFile

CopyOne == CopyFromContainer \/ Extract \/ Store \/ RecordStored \/ RecordFailed

Download(r) ==
  \/ \E a \in Declared : DownloadArtifact(r, a)
  \/ OpenFile(r) \/ SendBlock(r) \/ EndOfFile(r) \/ EndDownload(r)

Next ==
  \/ CopyOne \/ Expire \/ Crash
  \/ \E r \in Reader : Download(r)

Spec == Init /\ [][Next]_vars

=============================================================================
