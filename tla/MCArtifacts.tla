---------------------------- MODULE MCArtifacts ----------------------------
(* The instance of Artifacts that TLC checks. *)
EXTENDS ArtifactsProperties, TLC

CONSTANTS d1, d2

\* Three declarations, the first and the last with the same base name.
Names == <<"report", "log", "report">>

\* Nothing, a file of one or two blocks, a directory with a file first, one with
\* nothing or a directory first, and a link.
Entry(kind, size) == [kind |-> kind, size |-> size]
Dir == Entry("dir", 0)

Tars ==
  {<< >>, <<Entry("file", 1)>>, <<Entry("file", 2)>>, <<Dir, Entry("file", 2)>>,
   <<Dir>>, <<Dir, Dir, Entry("file", 1)>>, <<Entry("link", 0)>>}

Slots == Permutations({d1, d2})

=============================================================================
