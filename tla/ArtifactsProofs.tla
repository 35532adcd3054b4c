--------------------------- MODULE ArtifactsProofs ---------------------------
(* What downloads send and what the rows tell, for any declarations, files,
   downloads and faults. *)
EXTENDS ArtifactsProperties, TLAPS

Steps ==
  {"copy", "extract", "create", "write", "record stored", "record failed", "done", "crashed"}

Block == [of : Declared, entry : {1, 2}, at : Nat]

Transfer ==
  [of : Declared \cup {0}, stage : {"idle", "found", "open", "sent"}, size : Nat,
   sent : Seq(Block)]

\* The worker is through with the artifact.
Passed(a) == a < work.on \/ work.step = "done"

\* Types, and rows only of artifacts that the worker is through with.
WorkInv ==
  /\ archive \in [Declared -> Archives]
  /\ work \in [on : Nat, step : Steps]
  /\ work.step # "done" => work.on \in Declared
  /\ rows \in [Declared -> {"none", "stored", "failed"}]
  /\ expired \in BOOLEAN /\ faults \in Nat
  /\ \A a \in Declared : rows[a] # "none" => Passed(a)

\* A file is stored only if the archive has one, and created only for artifacts
\* that the worker has come to.
StoreInv ==
  /\ files \in [FileName -> Seq(Block)]
  /\ \A a \in created : a \in Declared /\ a <= work.on
  /\ work.step \in {"create", "write", "record stored"} => Extracted(archive[work.on]) # 0

\* s is the beginning of t.
Beginning(s, t) == Len(s) <= Len(t) /\ \A i \in 1..Len(s) : s[i] = t[i]

\* The artifact under way owns the file with its path, as far as it is written.
Owned ==
  /\ work.step \in {"write", "record stored"} =>
       work.on \in created /\ Beginning(files[Path(work.on)], Content(work.on))
  /\ work.step = "record stored" => Len(files[Path(work.on)]) = Len(Content(work.on))

\* An artifact keeps its file, or has lost it to a later one.
Kept(a) ==
  /\ a \in created /\ Extracted(archive[a]) # 0
  /\ \/ TakenOver(a)
     \/ Beginning(files[Path(a)], Content(a)) /\ Len(files[Path(a)]) = Len(Content(a))

FilesInv == Owned /\ \A a \in Declared : rows[a] = "stored" => Kept(a)

\* A block is at its place in a file with its artifact's path, and no later
\* artifact has created that file.
Newest(n, i, b) ==
  /\ b.at = i /\ b.of \in created /\ Path(b.of) = n
  /\ \A c \in created : Path(c) = n => c <= b.of

BlocksInv == \A n \in FileName : \A i \in 1..Len(files[n]) : Newest(n, i, files[n][i])

\* What holds of a download while rows and files are added.
Sound(d) ==
  /\ d.stage # "idle" => d.of \in Declared /\ rows[d.of] = "stored"
  /\ d.stage \in {"idle", "found"} => d.sent = << >>
  /\ \A i \in 1..Len(d.sent) : d.sent[i].of \in created
  /\ Forwards(d)
  /\ d.stage # "idle" /\ ~TakenOver(d.of) =>
       /\ Beginning(d.sent, Content(d.of))
       /\ d.stage \in {"open", "sent"} => d.size = Len(Content(d.of))
       /\ d.stage = "sent" => Len(d.sent) = Len(Content(d.of))

DownloadInv ==
  /\ download \in [Reader -> Transfer]
  /\ \A r \in Reader : Sound(download[r])

\* Every row that is missing was lost; without a fault and in time the row
\* tells what the container has.
ToldInv ==
  /\ \A a \in Declared : Passed(a) /\ rows[a] = "none" => a \in lost
  /\ faults = 0 /\ ~expired =>
       /\ \A a \in Declared : Passed(a) => rows[a] = IF HasFile(a) THEN "stored" ELSE "failed"
       /\ work.step \in {"create", "write", "record stored"} => HasFile(work.on)
       /\ work.step = "record failed" => ~HasFile(work.on)

-----------------------------------------------------------------------------
(* Declarations, names and archives *)

LEMMA Names ==
  /\ Len(BaseName) \in Nat /\ 0 \notin Declared
  /\ \A a \in Declared : a \in Nat /\ BaseName[a] \in FileName
BY NamesAssumption DEF Declared

LEMMA ExtractedType ==
  ASSUME NEW tar \in Archives  PROVE Extracted(tar) \in {0, 1, 2}
BY DEF Extracted

LEMMA NothingExtracted ==
  ASSUME NEW tar \in Archives, tar = << >>  PROVE Extracted(tar) = 0
<1>1. tar \in Seq([kind : {"dir", "file", "link"}, size : Nat])
  BY ArchivesAssumption
<1>2. tar # << >> <=> 1 <= Len(tar)
  BY <1>1
<1>3. Len(tar) \in Nat
  BY <1>1
<1> QED BY <1>2, <1>3 DEF Extracted

\* extractFileFromTar finds the file, if there is one to find.
LEMMA ExtractedIsFile ==
  ASSUME WorkInv, NEW a \in Declared
  PROVE  /\ HasFile(a) <=> Extracted(archive[a]) # 0
         /\ Extracted(archive[a]) # 0 =>
              Extracted(archive[a]) \in {1, 2} /\ IsFile(a, Extracted(archive[a]))
<1> DEFINE tar == archive[a]
<1>1. tar \in Seq([kind : {"dir", "file", "link"}, size : Nat])
  BY ArchivesAssumption DEF WorkInv
<1>2. tar # << >> <=> 1 <= Len(tar)
  BY <1>1
<1>3. Len(tar) \in Nat /\ DOMAIN tar = 1..Len(tar)
  BY <1>1
<1>4. IsFile(a, 1) <=> 1 <= Len(tar) /\ tar[1].kind = "file"
  BY <1>3 DEF IsFile
<1>5. IsFile(a, 2) <=> 2 <= Len(tar) /\ tar[2].kind = "file" /\ tar[1].kind = "dir"
  BY <1>3 DEF IsFile
<1>6. HasFile(a) <=> IsFile(a, 1) \/ IsFile(a, 2)
  BY DEF HasFile
<1>7. CASE tar # << >> /\ tar[1].kind = "dir"
  BY <1>2, <1>3, <1>4, <1>5, <1>6, <1>7 DEF Extracted
<1>8. CASE ~(tar # << >> /\ tar[1].kind = "dir")
  BY <1>2, <1>3, <1>4, <1>5, <1>6, <1>8 DEF Extracted
<1> QED BY <1>7, <1>8

\* The blocks of the file that is extracted.
LEMMA ContentBlocks ==
  ASSUME WorkInv, NEW a \in Declared, Extracted(archive[a]) # 0
  PROVE  /\ Content(a) \in Seq(Block) /\ Len(Content(a)) \in Nat
         /\ \A i \in 1..Len(Content(a)) : Content(a)[i].of = a /\ Content(a)[i].at = i
<1> DEFINE k == Extracted(archive[a])
           n == archive[a][k].size
<1>1. archive[a] \in Seq([kind : {"dir", "file", "link"}, size : Nat])
  BY ArchivesAssumption DEF WorkInv
<1>2. k \in {1, 2} /\ k \in DOMAIN archive[a]
  BY ExtractedIsFile DEF IsFile
<1>3. n \in Nat
  <2> DEFINE Entries == [kind : {"dir", "file", "link"}, size : Nat]
             tar == archive[a]
  <2>1. tar \in Seq(Entries) /\ k \in DOMAIN tar
    BY <1>1, <1>2
  <2> HIDE DEF Entries, tar, k
  <2>2. tar[k] \in Entries
    BY <2>1
  <2>3. tar[k].size \in Nat
    BY <2>2 DEF Entries
  <2> QED BY <2>3 DEF tar
<1> HIDE DEF n, k
<1>4. Content(a) = [i \in 1..n |-> [of |-> a, entry |-> k, at |-> i]]
  BY DEF Content, Blocks, n, k
<1>5. \A i \in 1..n : [of |-> a, entry |-> k, at |-> i] \in Block
  BY <1>2, <1>3 DEF Block
<1>6. Content(a) \in Seq(Block) /\ Len(Content(a)) = n
  BY <1>3, <1>4, <1>5
<1> QED BY <1>3, <1>4, <1>6

-----------------------------------------------------------------------------
(* Types and the order of the rows *)

LEMMA WorkInit == Init => WorkInv
<1> SUFFICES ASSUME Init PROVE WorkInv
  OBVIOUS
<1>1. Declared # {} => 1 \in Declared
  BY Names DEF Declared
<1>2. work \in [on : Nat, step : Steps] /\ (work.step # "done" => work.on \in Declared)
  BY <1>1 DEF Init, Steps
<1> QED BY <1>2 DEF Init, WorkInv

LEMMA StoreInit == Init => StoreInv
<1> SUFFICES ASSUME Init PROVE StoreInv
  OBVIOUS
<1>1. work.step \in {"copy", "done"}
  BY DEF Init
<1>2. << >> \in Seq(Block)
  OBVIOUS
<1> QED BY <1>1, <1>2 DEF Init, StoreInv

\* The next declaration, or the end.
LEMMA Following ==
  ASSUME WorkInv, work.step # "done", NEW status, work' = Follow(status)
  PROVE  /\ work' \in [on : Nat, step : {"copy", "done"}]
         /\ work'.step # "done" => work'.on \in Declared
         /\ \A a \in Declared : Passed(a)' <=> Passed(a) \/ a = work.on
<1>1. CASE work.on < Len(BaseName)
  <2>1. work'.on = work.on + 1 /\ work'.step = "copy" /\ work' \in [on : Nat, step : {"copy", "done"}]
    BY <1>1 DEF Follow, WorkInv
  <2> QED BY <1>1, <2>1, Names DEF Passed, WorkInv, Declared
<1>2. CASE ~(work.on < Len(BaseName))
  <2>1. work'.on = work.on /\ work'.step = "done" /\ work' \in [on : Nat, step : {"copy", "done"}]
    BY <1>2 DEF Follow, WorkInv
  <2>2. \A a \in Declared : a < work.on \/ a = work.on
    BY <1>2, Names DEF WorkInv, Declared
  <2> QED BY <2>1, <2>2 DEF Passed
<1> QED BY <1>1, <1>2

\* A step within the copy of one artifact passes none.
LEMMA Going ==
  ASSUME WorkInv, work.step # "done", NEW step \in Steps \ {"done"}, Go(step)
  PROVE  /\ work' \in [on : Nat, step : Steps] /\ work'.on = work.on /\ work'.step = step
         /\ work'.step # "done" => work'.on \in Declared
         /\ \A a \in Declared : Passed(a)' <=> Passed(a)
BY DEF Go, WorkInv, Passed

\* The calls of the worker before the row is inserted.
Copying == CopyFromContainer \/ Extract \/ CreateFile \/ WriteFile

LEMMA FaultsCount == WorkInv /\ (Fault \/ Works \/ UNCHANGED faults) => faults' \in Nat
BY DEF WorkInv, Fault, Works

\* A fault is counted, or the deadline has passed.
LEMMA FaultsShow ==
  ASSUME WorkInv, Fault \/ Works \/ UNCHANGED faults, faults' = 0, ~expired
  PROVE  faults = 0 /\ ~Fault
<1>1. faults \in Nat
  BY DEF WorkInv
<1> QED BY <1>1 DEF Fault, Works

\* What such a call leaves alone, and where it leads.
LEMMA CopyingGoes ==
  ASSUME WorkInv, Copying
  PROVE  /\ work.step \in {"copy", "extract", "create", "write"}
         /\ \E step \in {"extract", "create", "write", "record stored", "record failed"} : Go(step)
         /\ UNCHANGED <<archive, rows, expired, download, lost>>
         /\ faults' \in Nat
<1>1. CASE CopyFromContainer
  BY <1>1, FaultsCount DEF CopyFromContainer
<1>2. CASE Extract
  BY <1>2, FaultsCount DEF Extract
<1>3. CASE CreateFile
  BY <1>3, FaultsCount DEF CreateFile
<1>4. CASE WriteFile
  BY <1>4, FaultsCount DEF WriteFile, Written
<1> QED BY <1>1, <1>2, <1>3, <1>4 DEF Copying

\* A download changes nothing but itself.
LEMMA DownloadsOnlySend ==
  ASSUME NEW r, Download(r)
  PROVE  UNCHANGED <<archive, work, files, rows, expired, created, lost, faults>>
BY DEF Download, DownloadArtifact, OpenFile, SendBlock, EndOfFile, EndDownload, Sending

LEMMA WorkStep == WorkInv /\ [Next]_vars => WorkInv'
<1> SUFFICES ASSUME WorkInv, [Next]_vars PROVE WorkInv'
  OBVIOUS
<1>1. CASE Copying
  <2>1. PICK step \in {"extract", "create", "write", "record stored", "record failed"} : Go(step)
    BY <1>1, CopyingGoes
  <2>2. work.step # "done" /\ step \in Steps \ {"done"} /\ work.on \in Declared
    BY <1>1, CopyingGoes DEF Steps, WorkInv
  <2>4. /\ work' \in [on : Nat, step : Steps] /\ work'.on = work.on
        /\ work'.step # "done" => work'.on \in Declared
        /\ \A a \in Declared : Passed(a)' <=> Passed(a)
    BY <2>1, <2>2, Going
  <2>5. UNCHANGED <<archive, rows, expired>> /\ faults' \in Nat
    BY <1>1, CopyingGoes
  <2> QED BY <2>4, <2>5 DEF WorkInv
<1>2. ASSUME NEW status \in {"stored", "failed"}, Record(status), work.step # "done"
      PROVE  WorkInv'
  <2>1. /\ work' \in [on : Nat, step : {"copy", "done"}]
        /\ work'.step # "done" => work'.on \in Declared
        /\ \A a \in Declared : Passed(a)' <=> Passed(a) \/ a = work.on
    BY <1>2, Following DEF Record
  <2>2. rows' \in [Declared -> {"none", "stored", "failed"}]
        /\ \A a \in Declared : rows'[a] # "none" => rows[a] # "none" \/ a = work.on
    BY <1>2 DEF Record, WorkInv
  <2>3. faults' \in Nat /\ UNCHANGED <<archive, expired>>
    BY <1>2, FaultsCount DEF Record
  <2> QED BY <2>1, <2>2, <2>3 DEF WorkInv, Steps
<1>3. CASE RecordStored
  BY <1>2, <1>3 DEF RecordStored
<1>4. CASE RecordFailed
  BY <1>2, <1>4 DEF RecordFailed
<1>5. CASE Expire
  BY <1>5 DEF Expire, WorkInv, Passed
<1>6. CASE Crash
  <2>1. Go("crashed") /\ work.step # "done"
    BY <1>6 DEF Crash, Go
  <2>2. /\ work' \in [on : Nat, step : Steps] /\ work'.on = work.on /\ work'.step = "crashed"
        /\ work'.on \in Declared
        /\ \A a \in Declared : Passed(a)' <=> Passed(a)
    BY <2>1, Going DEF Steps
  <2> QED BY <1>6, <2>2 DEF Crash, WorkInv
<1>7. ASSUME NEW r \in Reader, Download(r) PROVE WorkInv'
  <2>1. UNCHANGED <<archive, work, files, rows, expired, created, lost, faults>>
    BY <1>7, DownloadsOnlySend
  <2> QED BY <2>1 DEF WorkInv, Passed
<1>8. CASE UNCHANGED vars
  BY <1>8 DEF vars, WorkInv, Passed
<1> QED BY <1>1, <1>3, <1>4, <1>5, <1>6, <1>7, <1>8 DEF Next, CopyOne, Store, Copying

LEMMA WorkInvariant == Spec => []WorkInv
BY WorkInit, WorkStep, PTL DEF Spec

-----------------------------------------------------------------------------
(* What the files hold *)

\* Nothing changes what the container has.
LEMMA ArchiveStays == [Next]_vars => UNCHANGED archive
<1>1. CASE \E r \in Reader : Download(r)
  BY <1>1, DownloadsOnlySend
<1>2. CASE CopyOne \/ Expire \/ Crash \/ UNCHANGED vars
  BY <1>2 DEF vars, CopyOne, CopyFromContainer, Extract, Store, CreateFile, WriteFile,
              RecordStored, RecordFailed, Record, Expire, Crash
<1> QED BY <1>1, <1>2 DEF Next

LEMMA ContentStays == [Next]_vars => \A a : Content(a)' = Content(a)
BY ArchiveStays DEF Content, Blocks

\* What it does to the files.
LEMMA CopyingFiles ==
  ASSUME WorkInv, StoreInv, Copying
  PROVE  /\ files' \in [FileName -> Seq(Block)]
         /\ created' = created \/ (work.step = "create" /\ created' = created \cup {work.on})
         /\ work'.step \in {"create", "write", "record stored"} =>
              Extracted(archive[work.on]) # 0
<1>0. work.on \in Declared /\ Path(work.on) \in FileName
  BY CopyingGoes, Names DEF WorkInv, Path
<1>1. CASE CopyFromContainer
  <2>1. work'.step \in {"extract", "record failed"} /\ UNCHANGED <<files, created>>
    BY <1>1 DEF CopyFromContainer, Go, WorkInv
  <2> QED BY <2>1 DEF StoreInv
<1>2. CASE Extract
  <2>1. work'.step = "record failed" \/ Extracted(archive[work.on]) # 0
    BY <1>2 DEF Extract, Go, WorkInv
  <2>2. UNCHANGED <<files, created>>
    BY <1>2 DEF Extract
  <2> QED BY <2>1, <2>2 DEF StoreInv
<1>3. CASE CreateFile
  <2>1. Extracted(archive[work.on]) # 0 /\ work.step = "create"
    BY <1>3 DEF CreateFile, StoreInv
  <2>2. files' = files \/ files' = [files EXCEPT ![Path(work.on)] = << >>]
    BY <1>3 DEF CreateFile
  <2>3. files' \in [FileName -> Seq(Block)]
    <3>1. << >> \in Seq(Block)
      OBVIOUS
    <3> QED BY <2>2, <3>1 DEF StoreInv
  <2>4. created' = created \/ created' = created \cup {work.on}
    BY <1>3 DEF CreateFile
  <2> QED BY <2>1, <2>3, <2>4
<1>4. CASE WriteFile
  <2>1. Extracted(archive[work.on]) # 0 /\ UNCHANGED created
    BY <1>4 DEF WriteFile, StoreInv
  <2> DEFINE content == Content(work.on)
             done == Len(files[Path(work.on)])
  <2>2. \/ files' = files
        \/ done < Len(content)
           /\ files' = [files EXCEPT ![Path(work.on)] = Append(@, content[done + 1])]
    BY <1>4 DEF WriteFile
  <2>3. content \in Seq(Block) /\ Len(content) \in Nat
    BY <1>0, <2>1, ContentBlocks
  <2>4. files[Path(work.on)] \in Seq(Block) /\ done \in Nat
    <3>1. files[Path(work.on)] \in Seq(Block)
      BY <1>0 DEF StoreInv
    <3> QED BY <3>1
  <2> HIDE DEF content
  <2>5. CASE done < Len(content)
             /\ files' = [files EXCEPT ![Path(work.on)] = Append(@, content[done + 1])]
    <3>1. content[done + 1] \in Block
      BY <2>3, <2>4, <2>5
    <3>2. Append(files[Path(work.on)], content[done + 1]) \in Seq(Block)
      BY <2>4, <3>1
    <3>3. files' = [files EXCEPT ![Path(work.on)] = Append(files[Path(work.on)], content[done + 1])]
      BY <2>5
    <3> QED BY <2>1, <3>2, <3>3 DEF StoreInv
  <2> QED BY <2>1, <2>2, <2>5 DEF StoreInv
<1> QED BY <1>1, <1>2, <1>3, <1>4 DEF Copying

LEMMA StoreStep == WorkInv /\ StoreInv /\ [Next]_vars => StoreInv'
<1> SUFFICES ASSUME WorkInv, StoreInv, [Next]_vars PROVE StoreInv'
  OBVIOUS
<1>1. StoreInv' <=>
        /\ files' \in [FileName -> Seq(Block)]
        /\ \A a \in created' : a \in Declared /\ a <= work'.on
        /\ work'.step \in {"create", "write", "record stored"} => Extracted(archive[work'.on]) # 0
  BY ArchiveStays DEF StoreInv, Extracted
<1>2. CASE Copying
  <2>1. work'.on = work.on /\ work.on \in Declared /\ work.on <= work.on
    <3>1. work.on \in Declared /\ \E step : Go(step)
      BY <1>2, CopyingGoes DEF WorkInv
    <3>2. work'.on = work.on
      BY <3>1 DEF Go, WorkInv
    <3> QED BY <3>1, <3>2, Names
  <2>2. \A a \in created' : a \in created \/ a = work.on
    BY <1>2, CopyingFiles
  <2>3. \A a \in created' : a \in Declared /\ a <= work.on
    BY <2>1, <2>2 DEF StoreInv
  <2> QED BY <1>1, <1>2, <2>1, <2>3, CopyingFiles
<1>3. ASSUME NEW status, Record(status), work.step # "done" PROVE StoreInv'
  <2>1. work'.step \in {"copy", "done"} /\ UNCHANGED <<files, created>>
    BY <1>3, Following DEF Record
  <2>2. work.on \in Nat /\ (work'.on = work.on \/ work'.on = work.on + 1)
    <3>1. work' = Follow(status) /\ work \in [on : Nat, step : Steps]
      BY <1>3 DEF Record, WorkInv
    <3> QED BY <3>1 DEF Follow
  <2>3. \A a \in created : a \in Declared /\ a <= work'.on
    <3>1. \A a \in created : a \in Declared /\ a <= work.on
      BY DEF StoreInv
    <3> QED BY <2>2, <3>1, Names
  <2> QED BY <1>1, <2>1, <2>3 DEF StoreInv
<1>4. CASE RecordStored \/ RecordFailed
  BY <1>3, <1>4 DEF RecordStored, RecordFailed
<1>5. CASE Crash
  <2>1. work'.step = "crashed" /\ work'.on = work.on /\ UNCHANGED <<files, created>>
    BY <1>5 DEF Crash, WorkInv
  <2> QED BY <1>1, <2>1 DEF StoreInv
<1>6. CASE UNCHANGED <<work, files, created>>
  BY <1>1, <1>6 DEF StoreInv
<1>7. CASE \E r \in Reader : Download(r)
  BY <1>6, <1>7, DownloadsOnlySend
<1>8. CASE Expire \/ UNCHANGED vars
  BY <1>6, <1>8 DEF Expire, vars
<1> QED BY <1>2, <1>4, <1>5, <1>7, <1>8 DEF Next, CopyOne, Store, Copying

\* A file that is replaced while an artifact is copied goes to a later one.
LEMMA KeptOver ==
  ASSUME WorkInv, work.step # "done", NEW a \in Declared, rows[a] # "none"
  PROVE  a < work.on /\ a # work.on
BY Names DEF WorkInv, Passed

LEMMA RowsStay ==
  ASSUME WorkInv, [Next]_vars, NEW a \in Declared, rows[a] = "stored"
  PROVE  rows'[a] = "stored"
<1>1. CASE RecordStored \/ RecordFailed
  <2>1. a # work.on
    BY <1>1, KeptOver DEF RecordStored, RecordFailed
  <2> QED BY <1>1, <2>1 DEF RecordStored, RecordFailed, Record, WorkInv
<1>2. CASE Copying
  BY <1>2, CopyingGoes
<1>3. CASE \E r \in Reader : Download(r)
  BY <1>3, DownloadsOnlySend
<1>4. CASE Expire \/ Crash \/ UNCHANGED vars
  BY <1>4 DEF Expire, Crash, vars
<1> QED BY <1>1, <1>2, <1>3, <1>4 DEF Next, CopyOne, Store, Copying

LEMMA CreatedStay ==
  ASSUME WorkInv, StoreInv, [Next]_vars
  PROVE  created \subseteq created'
<1>1. CASE RecordStored \/ RecordFailed
  BY <1>1 DEF RecordStored, RecordFailed, Record
<1>2. CASE Copying
  BY <1>2, CopyingFiles
<1>3. CASE \E r \in Reader : Download(r)
  BY <1>3, DownloadsOnlySend
<1>4. CASE Expire \/ Crash \/ UNCHANGED vars
  BY <1>4 DEF Expire, Crash, vars
<1> QED BY <1>1, <1>2, <1>3, <1>4 DEF Next, CopyOne, Store, Copying

\* What a step adds to the files: os.Create empties one for the artifact under
\* way, and io.Copy appends a block of that artifact to its file.
Emptied ==
  /\ files' = [files EXCEPT ![Path(work.on)] = << >>]
  /\ created' = created \cup {work.on} /\ Go("write")

Extended ==
  LET content == Content(work.on)
      done == Len(files[Path(work.on)])
  IN /\ work.step = "write" /\ done < Len(content) /\ Go("write") /\ UNCHANGED created
     /\ files' = [files EXCEPT ![Path(work.on)] = Append(@, content[done + 1])]

LEMMA FilesChange ==
  ASSUME WorkInv, [Next]_vars
  PROVE  \/ work.step = "create" /\ Emptied /\ UNCHANGED rows
         \/ Extended /\ UNCHANGED rows
         \/ UNCHANGED <<files, created>>
<1>1. CASE Copying
  BY <1>1 DEF Copying, CopyFromContainer, Extract, CreateFile, WriteFile, Emptied, Extended
<1>2. CASE RecordStored \/ RecordFailed
  BY <1>2 DEF RecordStored, RecordFailed, Record
<1>3. CASE \E r \in Reader : Download(r)
  BY <1>3, DownloadsOnlySend
<1>4. CASE Expire \/ Crash \/ UNCHANGED vars
  BY <1>4 DEF Expire, Crash, vars
<1> QED BY <1>1, <1>2, <1>3, <1>4 DEF Next, CopyOne, Store, Copying

LEMMA OwnedStep == WorkInv /\ StoreInv /\ Owned /\ [Next]_vars => Owned'
<1> SUFFICES ASSUME WorkInv, StoreInv, Owned, [Next]_vars PROVE Owned'
  OBVIOUS
<1>1. Owned' <=>
        /\ work'.step \in {"write", "record stored"} =>
             work'.on \in created' /\ Beginning(files'[Path(work'.on)], Content(work'.on))
        /\ work'.step = "record stored" => Len(files'[Path(work'.on)]) = Len(Content(work'.on))
  <2>1. \A a : Content(a)' = Content(a)
    BY ContentStays
  <2> QED BY <2>1, ArchiveStays DEF Owned, Beginning, Path, Content, Blocks
<1>2. CASE CopyFromContainer \/ Extract
  <2>1. work'.step \notin {"write", "record stored"}
    BY <1>2 DEF CopyFromContainer, Extract, Go, WorkInv
  <2> QED BY <1>1, <2>1
<1>3. CASE CreateFile
  <2>1. CASE Go("record failed")
    <3>1. work'.step = "record failed"
      BY <2>1 DEF Go, WorkInv
    <3> QED BY <1>1, <3>1
  <2>2. CASE Emptied
    <3>1. work'.step = "write" /\ work'.on = work.on /\ work.on \in created'
      BY <2>2 DEF Emptied, Go, WorkInv
    <3>2. work.on \in Declared /\ Path(work.on) \in FileName /\ Extracted(archive[work.on]) # 0
      BY <1>3, Names DEF CreateFile, WorkInv, StoreInv, Path
    <3>3. files'[Path(work.on)] = << >>
      BY <2>2, <3>2 DEF Emptied, StoreInv
    <3>4. Len(Content(work.on)) \in Nat
      BY <3>2, ContentBlocks
    <3>5. Beginning(<< >>, Content(work.on))
      BY <3>4 DEF Beginning
    <3> QED BY <1>1, <3>1, <3>3, <3>5
  <2> QED BY <1>3, <2>1, <2>2 DEF CreateFile, Emptied
<1>4. CASE WriteFile
  <2>0. /\ work.step = "write" /\ work.on \in Declared /\ Path(work.on) \in FileName
        /\ Extracted(archive[work.on]) # 0
    BY <1>4, Names DEF WriteFile, WorkInv, StoreInv, Path
  <2> DEFINE content == Content(work.on)
             file == files[Path(work.on)]
  <2>1. work.on \in created /\ Beginning(file, content)
    BY <2>0 DEF Owned
  <2>2. file \in Seq(Block) /\ Len(file) \in Nat /\ Len(content) \in Nat
    <3>1. file \in Seq(Block)
      BY <2>0 DEF StoreInv
    <3>2. Len(content) \in Nat
      BY <2>0, ContentBlocks
    <3> HIDE DEF file, content
    <3> QED BY <3>1, <3>2
  <2>3. created' = created
    BY <1>4 DEF WriteFile
  <2>4. CASE Extended
    <3>1. work'.step = "write" /\ work'.on = work.on
      BY <2>4 DEF Extended, Go, WorkInv
    <3>2. files'[Path(work.on)] = Append(file, content[Len(file) + 1]) /\ Len(file) < Len(content)
      BY <2>0, <2>4 DEF Extended, StoreInv
    <3> HIDE DEF content, file
    <3>3. Beginning(Append(file, content[Len(file) + 1]), content)
      <4> DEFINE b == content[Len(file) + 1]
                 g == Append(file, b)
      <4>1. /\ Len(g) = Len(file) + 1 /\ g[Len(file) + 1] = b
            /\ \A i \in 1..Len(file) : g[i] = file[i]
        BY <2>2
      <4> HIDE DEF g
      <4>2. \A i \in 1..(Len(file) + 1) : i \in 1..Len(file) \/ i = Len(file) + 1
        BY <2>2
      <4>3. \A i \in 1..Len(file) : file[i] = content[i]
        BY <2>1 DEF Beginning
      <4>4. Len(g) <= Len(content)
        BY <2>2, <3>2, <4>1
      <4>5. \A i \in 1..Len(g) : g[i] = content[i]
        BY <4>1, <4>2, <4>3
      <4>6. Beginning(g, content)
        BY <4>4, <4>5 DEF Beginning
      <4> QED BY <4>6 DEF g
    <3>4. Beginning(files'[Path(work.on)], Content(work.on))
      BY <3>2, <3>3 DEF content
    <3> QED BY <1>1, <2>1, <2>3, <3>1, <3>4
  <2>5. CASE UNCHANGED files /\ Len(file) = Len(content) /\ Go("record stored")
    <3>1. work'.step = "record stored" /\ work'.on = work.on
      BY <2>5 DEF Go, WorkInv
    <3> QED BY <1>1, <2>1, <2>3, <2>5, <3>1
  <2>6. CASE Go("record failed")
    <3>1. work'.step = "record failed"
      BY <2>6 DEF Go, WorkInv
    <3> QED BY <1>1, <3>1
  <2> QED BY <1>4, <2>4, <2>5, <2>6 DEF WriteFile, Extended, Written
<1>5. ASSUME NEW status, Record(status), work.step # "done" PROVE Owned'
  <2>1. work'.step \in {"copy", "done"}
    BY <1>5, Following DEF Record
  <2> QED BY <1>1, <2>1
<1>6. CASE RecordStored \/ RecordFailed
  BY <1>5, <1>6 DEF RecordStored, RecordFailed
<1>7. CASE Crash
  <2>1. work'.step = "crashed"
    BY <1>7 DEF Crash, WorkInv
  <2> QED BY <1>1, <2>1
<1>8. CASE UNCHANGED <<work, files, created>>
  BY <1>1, <1>8 DEF Owned
<1>9. CASE \E r \in Reader : Download(r)
  BY <1>8, <1>9, DownloadsOnlySend
<1>10. CASE Expire \/ UNCHANGED vars
  BY <1>8, <1>10 DEF Expire, vars
<1> QED BY <1>2, <1>3, <1>4, <1>6, <1>7, <1>9, <1>10 DEF Next, CopyOne, Store

\* Who has lost a file has lost it for good.
LEMMA TakenOverStays ==
  ASSUME WorkInv, StoreInv, [Next]_vars, NEW a, TakenOver(a)  PROVE TakenOver(a)'
BY CreatedStay DEF TakenOver, Path

\* A file that is kept and not written to stays; one that is written to belongs
\* to the artifact under way.
LEMMA KeptStep ==
  ASSUME WorkInv, StoreInv, FilesInv, [Next]_vars, NEW a \in Declared, Kept(a),
         rows[a] = "stored"
  PROVE  Kept(a)'
<1>1. a \in created' /\ Extracted(archive'[a]) # 0 /\ Content(a)' = Content(a)
  BY CreatedStay, ArchiveStays, ContentStays DEF Kept
<1>2. CASE TakenOver(a)
  BY <1>1, <1>2, TakenOverStays DEF Kept, Extracted
<1>3. CASE ~TakenOver(a) /\ files'[Path(a)] = files[Path(a)]
  BY <1>1, <1>3 DEF Kept, Beginning, Path, Extracted
<1>4. CASE files'[Path(a)] # files[Path(a)]
  <2>1. (work.step = "create" /\ Emptied) \/ Extended
    BY <1>4, FilesChange
  <2>2. work.step # "done" /\ work.on \in created'
    BY <2>1, CreatedStay DEF Emptied, Extended, FilesInv, Owned
  <2>3. Path(a) = Path(work.on)
    <3>1. Path(a) \in FileName
      BY Names DEF Path
    <3> QED BY <1>4, <2>1, <3>1 DEF Emptied, Extended, StoreInv
  <2>4. a < work.on
    BY <2>2, KeptOver
  <2>5. TakenOver(a)'
    BY <2>2, <2>3, <2>4 DEF TakenOver, Path
  <2> QED BY <1>1, <2>5 DEF Kept, Extracted
<1> QED BY <1>2, <1>3, <1>4

LEMMA FilesStep == WorkInv /\ StoreInv /\ FilesInv /\ [Next]_vars => FilesInv'
<1> SUFFICES ASSUME WorkInv, StoreInv, FilesInv, [Next]_vars PROVE FilesInv'
  OBVIOUS
<1>1. Owned'
  BY OwnedStep DEF FilesInv
<1>2. ASSUME NEW a \in Declared, rows'[a] = "stored" PROVE Kept(a)'
  <2>1. CASE rows[a] = "stored"
    BY <2>1, KeptStep DEF FilesInv
  <2>2. CASE rows[a] # "stored"
    <3>1. RecordStored /\ a = work.on
      <4>1. rows' # rows
        BY <1>2, <2>2
      <4>2. RecordStored \/ RecordFailed
        <5>1. ~Copying
          BY <4>1, CopyingGoes
        <5>2. ~(\E r \in Reader : Download(r))
          BY <4>1, DownloadsOnlySend
        <5>3. ~(Expire \/ Crash \/ UNCHANGED vars)
          BY <4>1 DEF Expire, Crash, vars
        <5> QED BY <5>1, <5>2, <5>3 DEF Next, CopyOne, Store, Copying
      <4> QED BY <1>2, <2>2, <4>2 DEF RecordStored, RecordFailed, Record, WorkInv
    <3>2. UNCHANGED <<archive, files, created>>
      BY <3>1 DEF RecordStored, Record
    <3>3. Kept(a)
      <4>1. work.step = "record stored" /\ a = work.on
        BY <3>1 DEF RecordStored
      <4>2. Extracted(archive[a]) # 0
        BY <4>1 DEF StoreInv
      <4>3. /\ a \in created /\ Beginning(files[Path(a)], Content(a))
            /\ Len(files[Path(a)]) = Len(Content(a))
        BY <4>1 DEF FilesInv, Owned
      <4> QED BY <4>2, <4>3 DEF Kept
    <3>4. Content(a)' = Content(a)
      BY ContentStays
    <3> QED BY <3>2, <3>3, <3>4 DEF Kept, Extracted, TakenOver, Beginning, Path
  <2> QED BY <2>1, <2>2
<1> QED BY <1>1, <1>2 DEF FilesInv

LEMMA BlocksStep == WorkInv /\ StoreInv /\ FilesInv /\ BlocksInv /\ [Next]_vars => BlocksInv'
<1> SUFFICES ASSUME WorkInv, StoreInv, FilesInv, BlocksInv, [Next]_vars,
                    NEW n \in FileName, NEW i \in 1..Len(files'[n]), NEW b, b = files'[n][i]
             PROVE  Newest(n, i, b)'
  BY DEF BlocksInv, Newest, Path
<1>1. ASSUME Newest(n, i, b), \A c \in created' : c \in created \/ Path(c) # n
      PROVE  Newest(n, i, b)'
  BY <1>1, CreatedStay DEF Newest, Path
<1>2. CASE work.step = "create" /\ Emptied
  <2>1. n # Path(work.on)
    <3>1. ASSUME n = Path(work.on) PROVE FALSE
      <4>1. files'[n] = << >>
        BY <1>2, <3>1 DEF Emptied, StoreInv
      <4> QED BY <4>1
    <3> QED BY <3>1
  <2>2. files'[n] = files[n] /\ created' = created \cup {work.on}
    BY <1>2, <2>1 DEF Emptied, StoreInv
  <2>3. Newest(n, i, b)
    BY <2>2 DEF BlocksInv
  <2> QED BY <1>1, <2>1, <2>2, <2>3
<1>3. CASE Extended
  <2>0. /\ work.step = "write" /\ work.on \in Declared /\ Path(work.on) \in FileName
        /\ Extracted(archive[work.on]) # 0 /\ created' = created
    BY <1>3, Names DEF Extended, WorkInv, StoreInv, Path
  <2> DEFINE content == Content(work.on)
             file == files[n]
  <2>1. file \in Seq(Block) /\ Len(file) \in Nat
    <3>1. file \in Seq(Block)
      BY DEF StoreInv
    <3> HIDE DEF file
    <3> QED BY <3>1
  <2>2. CASE i \in 1..Len(file) /\ files'[n][i] = files[n][i]
    <3>1. Newest(n, i, b)
      BY <2>2 DEF BlocksInv
    <3> QED BY <1>1, <2>0, <3>1
  <2>3. CASE ~(i \in 1..Len(file) /\ files'[n][i] = files[n][i])
    <3>1. n = Path(work.on)
      BY <1>3, <2>1, <2>3 DEF Extended, StoreInv
    <3>2. files'[n] = Append(file, content[Len(file) + 1]) /\ Len(file) < Len(content)
      BY <1>3, <3>1 DEF Extended, StoreInv
    <3>3. i = Len(file) + 1 /\ files'[n][i] = content[i]
      <4> HIDE DEF file, content
      <4>1. i \in 1..(Len(file) + 1)
        BY <2>1, <3>2
      <4>2. CASE i \in 1..Len(file)
        <5>1. files'[n][i] = file[i]
          BY <2>1, <3>2, <4>2
        <5> QED BY <2>3, <4>2, <5>1 DEF file
      <4> QED BY <2>1, <3>2, <4>1, <4>2
    <3>4. content[i].of = work.on /\ content[i].at = i
      <4>1. Len(content) \in Nat /\ \A j \in 1..Len(content) : content[j].of = work.on /\ content[j].at = j
        BY <2>0, ContentBlocks
      <4> HIDE DEF content, file
      <4>2. i \in 1..Len(content)
        BY <2>1, <3>2, <3>3, <4>1
      <4> QED BY <4>1, <4>2
    <3>5. work.on \in created /\ \A c \in created : c <= work.on
      BY <2>0 DEF FilesInv, Owned, StoreInv
    <3>6. Newest(n, i, content[i])
      BY <3>1, <3>4, <3>5 DEF Newest
    <3> HIDE DEF content
    <3> QED BY <1>1, <2>0, <3>3, <3>6
  <2> QED BY <2>2, <2>3
<1>4. CASE UNCHANGED <<files, created>>
  <2>1. Newest(n, i, b)
    BY <1>4 DEF BlocksInv
  <2> QED BY <1>1, <1>4, <2>1
<1> QED BY <1>2, <1>3, <1>4, FilesChange

-----------------------------------------------------------------------------
(* What is sent *)

\* What holds of a transfer is kept by whatever else happens.
LEMMA SoundStays ==
  ASSUME WorkInv, StoreInv, [Next]_vars, NEW d \in Transfer, Sound(d)
  PROVE  Sound(d)'
<1>1. d.stage # "idle" => d.of \in Declared /\ rows'[d.of] = "stored"
  BY RowsStay DEF Sound
<1>2. \A i \in 1..Len(d.sent) : d.sent[i].of \in created'
  BY CreatedStay DEF Sound
<1>3. Forwards(d)' <=> Forwards(d)
  BY DEF Forwards, Path
<1>4. ~TakenOver(d.of)' => ~TakenOver(d.of)
  BY TakenOverStays
<1>5. Content(d.of)' = Content(d.of)
  BY ContentStays
<1>6. Beginning(d.sent, Content(d.of))' <=> Beginning(d.sent, Content(d.of))
  BY <1>5 DEF Beginning
<1> QED BY <1>1, <1>2, <1>3, <1>4, <1>5, <1>6 DEF Sound

\* The stored file that a download is about.
LEMMA FileOfDownload ==
  ASSUME WorkInv, StoreInv, FilesInv, NEW d \in Transfer, Sound(d), d.stage # "idle"
  PROVE  /\ d.of \in Declared /\ d.of \in created /\ Path(d.of) \in FileName
         /\ Len(Content(d.of)) \in Nat
         /\ files[Path(d.of)] \in Seq(Block) /\ Len(files[Path(d.of)]) \in Nat
         /\ ~TakenOver(d.of) =>
              /\ Len(files[Path(d.of)]) = Len(Content(d.of))
              /\ Beginning(files[Path(d.of)], Content(d.of))
<1>1. d.of \in Declared /\ Kept(d.of)
  BY DEF Sound, FilesInv
<1>2. Path(d.of) \in FileName
  BY <1>1, Names DEF Path
<1>3. Len(Content(d.of)) \in Nat
  BY <1>1, ContentBlocks DEF Kept
<1> DEFINE file == files[Path(d.of)]
<1>4. file \in Seq(Block)
  BY <1>2 DEF StoreInv
<1>5. Len(file) \in Nat
  <2> HIDE DEF file
  <2> QED BY <1>4
<1> QED BY <1>1, <1>2, <1>3, <1>4, <1>5 DEF Kept

\* Each step of a download keeps it sound.
LEMMA FoundSound ==
  ASSUME WorkInv, FilesInv, NEW d \in Transfer, Sound(d), d.stage = "idle",
         NEW a \in Declared, rows[a] = "stored"
  PROVE  LET e == [d EXCEPT !.of = a, !.stage = "found"] IN e \in Transfer /\ Sound(e)
<1> DEFINE e == [d EXCEPT !.of = a, !.stage = "found"]
<1>1. e \in Transfer /\ e.of = a /\ e.stage = "found" /\ e.sent = << >>
  BY DEF Transfer, Sound
<1>2. Len(Content(a)) \in Nat
  BY ContentBlocks DEF FilesInv, Kept
<1> HIDE DEF e
<1>3. Forwards(e) /\ Len(e.sent) = 0
  BY <1>1 DEF Forwards
<1>4. Beginning(e.sent, Content(a))
  BY <1>1, <1>2, <1>3 DEF Beginning
<1>5. Sound(e)
  BY <1>1, <1>3, <1>4 DEF Sound
<1> QED BY <1>1, <1>5 DEF e

LEMMA OpenSound ==
  ASSUME WorkInv, StoreInv, FilesInv, NEW d \in Transfer, Sound(d), d.stage = "found"
  PROVE  LET e == [d EXCEPT !.stage = "open", !.size = Len(files[Path(d.of)])]
         IN e \in Transfer /\ Sound(e)
<1> DEFINE size == Len(files[Path(d.of)])
           e == [d EXCEPT !.stage = "open", !.size = size]
<1>1. size \in Nat /\ (~TakenOver(d.of) => size = Len(Content(d.of)))
  BY FileOfDownload
<1> HIDE DEF size
<1>2. e \in Transfer /\ e.of = d.of /\ e.stage = "open" /\ e.sent = d.sent /\ e.size = size
  BY <1>1 DEF Transfer
<1> HIDE DEF e
<1>3. Forwards(e)
  BY <1>2 DEF Sound, Forwards
<1>4. Sound(e)
  BY <1>1, <1>2, <1>3 DEF Sound
<1> QED BY <1>2, <1>4 DEF e, size

LEMMA SendSound ==
  ASSUME WorkInv, StoreInv, FilesInv, BlocksInv,
         NEW d \in Transfer, Sound(d), d.stage = "open",
         NEW next, next = Len(d.sent) + 1,
         next <= d.size, next <= Len(files[Path(d.of)])
  PROVE  LET e == [d EXCEPT !.sent = Append(d.sent, files[Path(d.of)][next])]
         IN e \in Transfer /\ Sound(e)
<1> DEFINE file == files[Path(d.of)]
           content == Content(d.of)
           b == file[next]
           sent == Append(d.sent, b)
           e == [d EXCEPT !.sent = sent]
<1>1. /\ d.of \in Declared /\ d.of \in created /\ Path(d.of) \in FileName
      /\ file \in Seq(Block) /\ Len(file) \in Nat
      /\ ~TakenOver(d.of) => Len(file) = Len(content) /\ Beginning(file, content)
  BY FileOfDownload
<1>2. d.sent \in Seq(Block) /\ Len(d.sent) \in Nat /\ DOMAIN d.sent = 1..Len(d.sent)
  <2>1. d.sent \in Seq(Block)
    BY DEF Transfer
  <2> QED BY <2>1
<1>3. next \in 1..Len(file) /\ b \in Block
  <2>1. next \in 1..Len(file)
    BY <1>1, <1>2
  <2> HIDE DEF file
  <2> QED BY <1>1, <2>1
<1>4. Newest(Path(d.of), next, b)
  BY <1>1, <1>3 DEF BlocksInv
<1>5. /\ sent \in Seq(Block) /\ Len(sent) = next /\ DOMAIN sent = 1..next
      /\ sent[next] = b /\ \A i \in 1..Len(d.sent) : sent[i] = d.sent[i]
  <2> HIDE DEF b
  <2> QED BY <1>2, <1>3
<1>6. \A i \in 1..next : i \in 1..Len(d.sent) \/ i = next
  BY <1>2
<1>7. e \in Transfer /\ e.of = d.of /\ e.stage = "open" /\ e.sent = sent /\ e.size = d.size
  <2> HIDE DEF sent
  <2> QED BY <1>5 DEF Transfer
<1>8. b.of \in created /\ b.of \in Nat /\ b.at = next /\ Path(b.of) = Path(d.of)
      /\ \A c \in created : Path(c) = Path(d.of) => c <= b.of
  <2>1. b.of \in Declared
    <3> HIDE DEF b
    <3> QED BY <1>3 DEF Block
  <2> QED BY <1>4, <2>1, Names DEF Newest
<1>9. \A i \in 1..Len(d.sent) :
        /\ d.sent[i].at = i /\ d.sent[i].of >= d.of /\ Path(d.sent[i].of) = Path(d.of)
        /\ d.sent[i].of \in created /\ \A j \in 1..i : d.sent[j].of <= d.sent[i].of
  BY <1>2 DEF Sound, Forwards
<1> HIDE DEF b, e, sent, file, content
<1>10. \A i \in 1..next : sent[i].of \in created
  BY <1>5, <1>6, <1>8, <1>9
<1>11. ASSUME NEW i \in 1..next
       PROVE  /\ sent[i].at = i /\ sent[i].of >= d.of /\ Path(sent[i].of) = Path(d.of)
              /\ \A j \in 1..i : sent[j].of <= sent[i].of
  <2>1. CASE i \in 1..Len(d.sent)
    <3>1. \A j \in 1..i : j \in 1..Len(d.sent)
      BY <1>2, <2>1
    <3> QED BY <1>5, <1>9, <2>1, <3>1
  <2>2. CASE i = next
    <3>1. b.of >= d.of
      <4>1. d.of <= b.of /\ d.of \in Nat
        BY <1>1, <1>8, Names
      <4> QED BY <1>8, <4>1
    <3>2. ASSUME NEW j \in 1..i PROVE sent[j].of <= sent[i].of
      <4>1. CASE j \in 1..Len(d.sent)
        BY <1>5, <1>8, <1>9, <2>2, <4>1
      <4>2. CASE j = next
        BY <1>5, <1>8, <2>2, <4>2
      <4> QED BY <1>6, <2>2, <4>1, <4>2
    <3> QED BY <1>5, <1>8, <2>2, <3>1, <3>2
  <2> QED BY <1>6, <2>1, <2>2
<1>12. Forwards(e)
  BY <1>5, <1>7, <1>11 DEF Forwards
<1>13. ASSUME ~TakenOver(d.of)
       PROVE  Beginning(sent, content)
  <2>1. Beginning(d.sent, content)
    BY <1>13 DEF Sound, content
  <2>2. b = content[next] /\ next <= Len(content)
    BY <1>1, <1>3, <1>13 DEF Beginning, b
  <2>3. \A i \in 1..next : sent[i] = content[i]
    BY <1>5, <1>6, <2>1, <2>2 DEF Beginning
  <2> QED BY <1>5, <2>2, <2>3 DEF Beginning
<1>14. ~TakenOver(d.of) => d.size = Len(content)
  BY DEF Sound, content
<1>15. Sound(e)
  <2>1. rows[d.of] = "stored"
    BY DEF Sound
  <2> QED BY <1>1, <1>5, <1>7, <1>10, <1>12, <1>13, <1>14, <2>1 DEF Sound, content
<1> QED BY <1>7, <1>15 DEF e, sent, b, file

LEMMA EndSound ==
  ASSUME WorkInv, StoreInv, FilesInv, NEW d \in Transfer, Sound(d), d.stage = "open",
         NEW next, next = Len(d.sent) + 1,
         next > d.size \/ next > Len(files[Path(d.of)])
  PROVE  LET e == [d EXCEPT !.stage = "sent"] IN e \in Transfer /\ Sound(e)
<1> DEFINE e == [d EXCEPT !.stage = "sent"]
           content == Content(d.of)
           size == Len(files[Path(d.of)])
<1>1. e \in Transfer /\ e.of = d.of /\ e.stage = "sent" /\ e.sent = d.sent /\ e.size = d.size
  BY DEF Transfer
<1>2. Len(d.sent) \in Nat
  <2>1. d.sent \in Seq(Block)
    BY DEF Transfer
  <2> QED BY <2>1
<1>3. ASSUME ~TakenOver(d.of)
      PROVE  Len(d.sent) = Len(content)
  <2>1. Len(content) \in Nat /\ size = Len(content)
    BY <1>3, FileOfDownload
  <2>2. d.size = Len(content) /\ Len(d.sent) <= Len(content)
    BY <1>3 DEF Sound, Beginning
  <2> HIDE DEF content
  <2>3. next > Len(content)
    BY <2>1, <2>2
  <2> QED BY <1>2, <2>1, <2>2, <2>3
<1> HIDE DEF e
<1>4. Forwards(e)
  BY <1>1 DEF Sound, Forwards
<1>5. Sound(e)
  BY <1>1, <1>3, <1>4 DEF Sound
<1> QED BY <1>1, <1>5 DEF e

LEMMA IdleSound == NoDownload \in Transfer /\ Sound(NoDownload)
<1>1. << >> \in Seq(Block)
  OBVIOUS
<1>2. NoDownload = [of |-> 0, stage |-> "idle", size |-> 0, sent |-> << >>]
  BY DEF NoDownload
<1>3. NoDownload \in Transfer /\ NoDownload.stage = "idle" /\ NoDownload.sent = << >>
  BY <1>1, <1>2 DEF Transfer
<1>4. Forwards(NoDownload)
  BY <1>3 DEF Forwards
<1> QED BY <1>3, <1>4 DEF Sound

LEMMA DownloadStep ==
  WorkInv /\ StoreInv /\ FilesInv /\ BlocksInv /\ DownloadInv /\ [Next]_vars => DownloadInv'
<1> SUFFICES ASSUME WorkInv, StoreInv, FilesInv, BlocksInv, DownloadInv, [Next]_vars
             PROVE  DownloadInv'
  OBVIOUS
<1>1. \A d \in Transfer : Sound(d) => Sound(d)'
  BY SoundStays
<1>2. ASSUME NEW r \in Reader, Download(r) PROVE DownloadInv'
  <2> DEFINE d == download[r]
  <2>0. d \in Transfer /\ Sound(d)
    BY DEF DownloadInv
  <2>1. ASSUME NEW e, e \in Transfer, Sound(e), download' = [download EXCEPT ![r] = e]
        PROVE  DownloadInv'
    <3>1. download' \in [Reader -> Transfer]
      BY <2>1 DEF DownloadInv
    <3>2. \A q \in Reader : download'[q] \in Transfer /\ (download'[q] = e \/ download'[q] = download[q])
      BY <2>1 DEF DownloadInv
    <3>3. ASSUME NEW q \in Reader PROVE \A f : f = download'[q] => Sound(f)'
      BY <1>1, <2>1, <3>2 DEF DownloadInv
    <3> QED BY <3>1, <3>3 DEF DownloadInv, Sound, Forwards, Path
  <2>2. ASSUME NEW a \in Declared, DownloadArtifact(r, a) PROVE DownloadInv'
    <3> DEFINE e == [d EXCEPT !.of = a, !.stage = "found"]
    <3>1. e \in Transfer /\ Sound(e)
      BY <2>0, <2>2, FoundSound DEF DownloadArtifact
    <3>2. download' = [download EXCEPT ![r] = e]
      BY <2>2 DEF DownloadArtifact
    <3> QED BY <2>1, <3>1, <3>2
  <2>3. CASE OpenFile(r)
    <3> DEFINE e == [d EXCEPT !.stage = "open", !.size = Len(files[Path(d.of)])]
    <3>1. e \in Transfer /\ Sound(e)
      BY <2>0, <2>3, OpenSound DEF OpenFile
    <3>2. download' = [download EXCEPT ![r] = e]
      BY <2>3 DEF OpenFile
    <3> QED BY <2>1, <3>1, <3>2
  <2>4. CASE SendBlock(r)
    <3> DEFINE next == Len(d.sent) + 1
               e == [d EXCEPT !.sent = Append(d.sent, files[Path(d.of)][next])]
    <3>1. d.stage = "open" /\ next <= d.size /\ next <= Len(files[Path(d.of)])
      BY <2>4 DEF SendBlock
    <3>2. e \in Transfer /\ Sound(e)
      BY <2>0, <3>1, SendSound
    <3>3. download' = [download EXCEPT ![r] = e]
      BY <2>4 DEF SendBlock
    <3> QED BY <2>1, <3>2, <3>3
  <2>5. CASE EndOfFile(r)
    <3> DEFINE next == Len(d.sent) + 1
               e == [d EXCEPT !.stage = "sent"]
    <3>1. d.stage = "open" /\ (next > d.size \/ next > Len(files[Path(d.of)]))
      BY <2>5 DEF EndOfFile
    <3>2. e \in Transfer /\ Sound(e)
      BY <2>0, <3>1, EndSound
    <3>3. download' = [download EXCEPT ![r] = e]
      BY <2>5 DEF EndOfFile
    <3> QED BY <2>1, <3>2, <3>3
  <2>6. CASE EndDownload(r)
    BY <2>1, <2>6, IdleSound DEF EndDownload
  <2> QED BY <1>2, <2>2, <2>3, <2>4, <2>5, <2>6 DEF Download
<1>3. ASSUME UNCHANGED download \/ download' = [r \in Reader |-> NoDownload]
      PROVE  DownloadInv'
  <2>1. \A r \in Reader : download'[r] \in Transfer /\ Sound(download'[r])
    BY <1>3, IdleSound DEF DownloadInv
  <2>2. ASSUME NEW r \in Reader PROVE \A f : f = download'[r] => Sound(f)'
    BY <1>1, <2>1
  <2>3. download' \in [Reader -> Transfer]
    BY <1>3, IdleSound DEF DownloadInv
  <2> QED BY <2>2, <2>3 DEF DownloadInv, Sound, Forwards, Path
<1>4. CASE CopyOne \/ Expire \/ Crash \/ UNCHANGED vars
  BY <1>3, <1>4 DEF CopyOne, CopyFromContainer, Extract, Store, CreateFile, WriteFile,
                    RecordStored, RecordFailed, Record, Expire, Crash, vars
<1> QED BY <1>2, <1>4 DEF Next

\* DownloadsAreWhole: until a later artifact's file is created at its path, a
\* download announces and sends the whole file of its artifact, whatever fails,
\* runs out of time or crashes; from then on every block is still at its place,
\* from artifacts with that path, never an older one after a newer one.
THEOREM WholeDownloads == Spec => []DownloadsAreWhole
<1> DEFINE Inv == WorkInv /\ StoreInv /\ FilesInv /\ BlocksInv /\ DownloadInv
<1>1. Init => Inv
  <2> SUFFICES ASSUME Init PROVE FilesInv /\ BlocksInv /\ DownloadInv
    BY WorkInit, StoreInit
  <2>1. FilesInv
    BY DEF Init, FilesInv, Owned
  <2>2. BlocksInv
    <3>1. \A n \in FileName : Len(files[n]) = 0
      BY DEF Init
    <3> QED BY <3>1 DEF BlocksInv
  <2>3. DownloadInv
    BY IdleSound DEF Init, DownloadInv
  <2> QED BY <2>1, <2>2, <2>3
<1>2. Inv /\ [Next]_vars => Inv'
  BY WorkStep, StoreStep, FilesStep, BlocksStep, DownloadStep
<1>3. Inv => DownloadsAreWhole
  <2> SUFFICES ASSUME Inv, NEW r \in Reader, download[r].stage # "idle"
               PROVE  LET d == download[r] IN Forwards(d) /\ (TakenOver(d.of) \/ Faithful(d))
    BY DEF DownloadsAreWhole
  <2> DEFINE d == download[r]
             k == Extracted(archive[d.of])
  <2>1. d \in Transfer /\ Sound(d)
    BY DEF DownloadInv
  <2>2. d.of \in Declared /\ k # 0
    BY <2>1 DEF Sound, FilesInv, Kept
  <2>3. k \in 1..2 /\ IsFile(d.of, k)
    BY <2>2, ExtractedIsFile
  <2>4. Content(d.of) = Blocks(d.of, k)
    BY DEF Content
  <2>5. ASSUME ~TakenOver(d.of) PROVE Faithful(d)
    <3>1. d.sent \in Seq(Block)
      BY <2>1 DEF Transfer
    <3>2. DOMAIN d.sent = 1..Len(d.sent) /\ Len(d.sent) \in Nat
      BY <3>1
    <3>3. Len(Content(d.of)) \in Nat
      BY <2>2, ContentBlocks
    <3>4. /\ Beginning(d.sent, Content(d.of))
          /\ d.stage \in {"open", "sent"} => d.size = Len(Content(d.of))
          /\ d.stage = "sent" => Len(d.sent) = Len(Content(d.of))
      BY <2>1, <2>5 DEF Sound
    <3> HIDE DEF k
    <3>5. \A i \in DOMAIN d.sent : i <= Len(Content(d.of)) /\ d.sent[i] = Content(d.of)[i]
      BY <3>2, <3>3, <3>4 DEF Beginning
    <3> QED BY <2>3, <2>4, <3>4, <3>5 DEF Faithful
  <2> QED BY <2>1, <2>5 DEF Sound
<1> QED BY <1>1, <1>2, <1>3, PTL DEF Spec

-----------------------------------------------------------------------------
(* What the rows tell *)

LEMMA ToldStep == WorkInv /\ ToldInv /\ [Next]_vars => ToldInv'
<1> SUFFICES ASSUME WorkInv, ToldInv, [Next]_vars PROVE ToldInv'
  OBVIOUS
<1>1. \A a : HasFile(a)' <=> HasFile(a)
  BY ArchiveStays DEF HasFile, IsFile
<1>2. ASSUME Copying PROVE ToldInv'
  <2>1. work.step # "done" /\ UNCHANGED <<rows, expired, lost>>
        /\ work.step \in {"copy", "extract", "create", "write"}
    BY <1>2, CopyingGoes
  <2>2. PICK step \in {"extract", "create", "write", "record stored", "record failed"} : Go(step)
    BY <1>2, CopyingGoes
  <2>3. work'.on = work.on /\ work'.step = step /\ \A a \in Declared : Passed(a)' <=> Passed(a)
    BY <2>1, <2>2, Going DEF Steps
  <2>4. work.on \in Declared /\ (HasFile(work.on) <=> Extracted(archive[work.on]) # 0)
    BY <2>1, ExtractedIsFile DEF WorkInv
  <2>5. faults' = 0 /\ ~expired => faults = 0 /\ ~Fault
    <3>1. Fault \/ Works \/ UNCHANGED faults
      BY <1>2 DEF Copying, CopyFromContainer, Extract, CreateFile, WriteFile
    <3> QED BY <3>1, FaultsShow
  <2>6. ASSUME faults' = 0 /\ ~expired
        PROVE  /\ step \in {"create", "write", "record stored"} => HasFile(work.on)
               /\ step = "record failed" => ~HasFile(work.on)
    <3>1. faults = 0 /\ ~Fault
      BY <2>5, <2>6
    <3>2. CASE CopyFromContainer
      <4>1. step = IF archive[work.on] # << >> THEN "extract" ELSE "record failed"
        BY <2>3, <3>1, <3>2 DEF CopyFromContainer, Go, WorkInv
      <4>2. archive[work.on] = << >> => Extracted(archive[work.on]) = 0
        <5>1. archive[work.on] \in Archives
          BY <2>4 DEF WorkInv
        <5> QED BY <5>1, NothingExtracted
      <4> QED BY <2>4, <4>1, <4>2
    <3>3. CASE Extract
      <4>1. step = IF Extracted(archive[work.on]) # 0 THEN "create" ELSE "record failed"
        BY <2>3, <3>1, <3>3 DEF Extract, Go, WorkInv
      <4> QED BY <2>4, <4>1
    <3>4. CASE CreateFile
      <4>1. step = "write" /\ HasFile(work.on)
        BY <2>3, <2>6, <3>1, <3>4 DEF CreateFile, Go, WorkInv, ToldInv
      <4> QED BY <4>1
    <3>5. CASE WriteFile
      <4>1. Go("write") \/ Go("record stored")
        BY <3>1, <3>5 DEF WriteFile, Written
      <4>2. step \in {"write", "record stored"}
        BY <2>3, <4>1 DEF Go, WorkInv
      <4>3. HasFile(work.on)
        BY <2>6, <3>1, <3>5 DEF WriteFile, ToldInv
      <4> QED BY <4>2, <4>3
    <3> QED BY <1>2, <3>2, <3>3, <3>4, <3>5 DEF Copying
  <2> QED BY <1>1, <2>1, <2>3, <2>5, <2>6 DEF ToldInv
<1>3. ASSUME NEW status \in {"stored", "failed"}, Record(status),
             work.step = IF status = "stored" THEN "record stored" ELSE "record failed"
      PROVE  ToldInv'
  <2>1. /\ work'.step \in {"copy", "done"}
        /\ \A a \in Declared : Passed(a)' <=> Passed(a) \/ a = work.on
    BY <1>3, Following DEF Record
  <2>2. work.on \in Declared /\ UNCHANGED expired
    BY <1>3 DEF Record, WorkInv
  <2>3. CASE Works /\ rows' = [rows EXCEPT ![work.on] = status] /\ UNCHANGED lost
    <3>1. faults' = faults
      BY <2>3 DEF Works
    <3>2. faults = 0 /\ ~expired => (status = IF HasFile(work.on) THEN "stored" ELSE "failed")
      BY <1>3 DEF ToldInv
    <3>3. rows'[work.on] = status /\ \A a \in Declared : a # work.on => rows'[a] = rows[a]
      BY <2>2, <2>3 DEF WorkInv
    <3> QED BY <1>1, <1>3, <2>1, <2>2, <2>3, <3>1, <3>2, <3>3 DEF ToldInv
  <2>4. CASE Fault /\ lost' = lost \cup {work.on} /\ UNCHANGED rows
    <3>1. ~(faults' = 0 /\ ~expired)
      BY <2>4 DEF Fault, WorkInv
    <3> QED BY <2>1, <2>2, <2>4, <3>1 DEF ToldInv
  <2> QED BY <1>3, <2>3, <2>4 DEF Record
<1>4. CASE RecordStored
  BY <1>3, <1>4 DEF RecordStored
<1>5. CASE RecordFailed
  BY <1>3, <1>5 DEF RecordFailed
<1>6. CASE Crash
  <2>1. Go("crashed") /\ work.step # "done" /\ UNCHANGED <<rows, expired, lost, faults>>
    BY <1>6 DEF Crash, Go
  <2>2. work'.step = "crashed" /\ \A a \in Declared : Passed(a)' <=> Passed(a)
    BY <2>1, Going DEF Steps
  <2> QED BY <1>1, <2>1, <2>2 DEF ToldInv
<1>7. CASE Expire \/ (\E r \in Reader : Download(r)) \/ UNCHANGED vars
  <2>1. UNCHANGED <<work, rows, lost, faults>> /\ (expired' = expired \/ expired' = TRUE)
    BY <1>7, DownloadsOnlySend DEF Expire, vars
  <2>2. \A a : Passed(a)' <=> Passed(a)
    BY <2>1 DEF Passed
  <2> QED BY <1>1, <2>1, <2>2 DEF ToldInv
<1> QED BY <1>2, <1>4, <1>5, <1>6, <1>7 DEF Next, CopyOne, Store, Copying

\* EveryArtifactTold: when the worker is through, a row is missing only if its
\* insertion failed; with no fault and in time each tells what the container
\* has.
THEOREM ToldOfAll == Spec => []EveryArtifactTold
<1>1. Init => WorkInv /\ ToldInv
  <2> SUFFICES ASSUME Init PROVE ToldInv
    BY WorkInit
  <2>1. \A a \in Declared : ~Passed(a)
    BY Names DEF Init, Passed, Declared
  <2> QED BY <2>1 DEF Init, ToldInv
<1>2. WorkInv /\ ToldInv /\ [Next]_vars => (WorkInv /\ ToldInv)'
  BY WorkStep, ToldStep
<1>3. ToldInv => EveryArtifactTold
  BY DEF ToldInv, EveryArtifactTold, Passed
<1> QED BY <1>1, <1>2, <1>3, PTL DEF Spec

=============================================================================
