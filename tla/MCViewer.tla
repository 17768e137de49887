------------------------------ MODULE MCViewer ------------------------------
(* Viewer on small instances.                                               *)
EXTENDS Viewer

CONSTANTS f1, f2, q1, q2, notq

\* Two rows to a page: a capture of five frames, of which q1 leaves four (its last
\* page full) and q2 three.
MCView ==
  [f \in Capture |->
    [q \in Text |->
      CASE q = NoFilter -> <<1, 2, 3, 4, 5>>
        [] q = q1 -> <<1, 3, 4, 5>>
        [] OTHER -> <<2, 3, 5>>]]

\* Neither capture is any different from the other: MCView is the same for both.
Alike == Permutations(Capture)

=============================================================================
