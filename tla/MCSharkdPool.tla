---------------------------- MODULE MCSharkdPool ----------------------------
(* SharkdPool on small instances.                                           *)
EXTENDS SharkdPool, TLC

CONSTANTS c1, c2, r1, r2, s1, s2, s3

MCSymmetry == Permutations(Session) \cup Permutations(Caller)

\* Two states that differ in the `used` stamps of sessions no longer in the pool,
\* nor on the way into it, or in what an ended one held, are the same state.
Dated == Published \cup {cur[c] : c \in {d \in Caller : pc[d] = "loading"}}
Past == {s \in Session : proc[s] = "waited" /\ \A c \in Caller : cur[c] # s}

MCView ==
  <<[s \in Dated |-> newer[s] \cap Dated],
    [s \in Session |-> IF s \in Past THEN None ELSE holds[s]],
    live, retiring, proc, dead, closed, lock, asked, tmp, callerVars>>

=============================================================================
