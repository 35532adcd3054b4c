--------------------------- MODULE MCStreamManager ---------------------------
(* The instances of StreamManager that TLC checks. *)
EXTENDS StreamProperties, TLC

CONSTANTS p1, p2, s1, s2, s3, x1

\* Two slots for the page p1, one for p2.
TwoPages == (s1 :> p1) @@ (s2 :> p1) @@ (s3 :> p2)
OnePage  == [s \in Session |-> p1]

Slots == Permutations({s1, s2})

=============================================================================
