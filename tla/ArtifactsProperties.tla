------------------------ MODULE ArtifactsProperties ------------------------
(* What users may rely on about the artifacts of an execution. *)
EXTENDS Artifacts

\* A file of the container at the path of an artifact, the first one if that is
\* a directory.
IsFile(a, entry) ==
  /\ entry \in DOMAIN archive[a] /\ archive[a][entry].kind = "file"
  /\ \A j \in 1..(entry - 1) : archive[a][j].kind = "dir"

HasFile(a) == \E entry \in 1..2 : IsFile(a, entry)

\* os.Create has emptied the file for a later artifact with the same path.
TakenOver(a) == \E b \in created : b > a /\ Path(b) = Path(a)

\* What was announced and sent is the file of the artifact, or as yet its
\* beginning.
Faithful(d) ==
  \E entry \in 1..2 :
    LET file == Blocks(d.of, entry)
    IN /\ IsFile(d.of, entry)
       /\ d.stage \in {"open", "sent"} => d.size = Len(file)
       /\ \A i \in DOMAIN d.sent : i <= Len(file) /\ d.sent[i] = file[i]
       /\ d.stage = "sent" => Len(d.sent) = Len(file)

\* Each block comes from the artifact or from a later one with its path, is at
\* its own place, and none is of an older artifact than the one before.
Forwards(d) ==
  \A i \in DOMAIN d.sent :
    /\ d.sent[i].at = i /\ d.sent[i].of >= d.of /\ Path(d.sent[i].of) = Path(d.of)
    /\ \A j \in 1..i : d.sent[j].of <= d.sent[i].of

\* A download sends the whole file that the container had at the path of its
\* artifact, whatever failed, ran out of time or crashed in between, and
\* whichever other artifacts are being copied: a row says stored only of a
\* whole file.  It is so until os.Create makes the file of a later artifact of
\* the same base name, before the download or under it.  From then on the
\* answer may be that file as far as it has been written, the beginning of the
\* one and the rest of the other, or be cut short; but no block is sent at
\* another's place, and none of an artifact replaced before.
DownloadsAreWhole ==
  \A r \in Reader :
    LET d == download[r]
    IN d.stage # "idle" => Forwards(d) /\ (TakenOver(d.of) \/ Faithful(d))

\* copier.go:35: an artifact that fails does not keep the others from being
\* copied.  When the worker is through, each artifact has a row, "stored" if
\* the container had the file, unless the insertion of the row failed; with no
\* fault and in time none is missing.
EveryArtifactTold ==
  work.step = "done" =>
    /\ \A a \in Declared : rows[a] = "none" => a \in lost
    /\ faults = 0 /\ ~expired =>
         \A a \in Declared : rows[a] = IF HasFile(a) THEN "stored" ELSE "failed"

-----------------------------------------------------------------------------
(* What the code and its documents say *)

\* requirements.md, 12.3: the download of an artifact serves the file.
FileIsServed == \A r \in Reader : download[r].stage = "sent" => Faithful(download[r])

\* copier.go:38: "an ExecutionArtifact record with status "failed" and the
\* error message is created", if a file cannot be copied.
FailuresAreRecorded ==
  work.step = "done" /\ faults = 0 => \A a \in Declared : rows[a] # "none"

=============================================================================
