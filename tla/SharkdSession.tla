--------------------------- MODULE SharkdSession ---------------------------
(***************************************************************************)
(* What a session promises, whoever asks for what and whenever the pool    *)
(* lets go of it: it answers one request at a time, it is closed only      *)
(* between two requests, a broken one never answers again, and the merge   *)
(* it holds outlives the process reading it.                               *)
(***************************************************************************)
CONSTANT Session

VARIABLES
  phase,   \* of each session: unborn, open, broken, closed, ended
  busy,    \* whether a request is in flight on it
  file     \* the sessions whose temp merge is on disk

vars == <<phase, busy, file>>

Init ==
  /\ phase = [s \in Session |-> "unborn"]
  /\ busy = [s \in Session |-> FALSE]
  /\ file = {}

\* The process starts with the load in flight, and may take over a merge.
Begin(s) ==
  /\ phase[s] = "unborn"
  /\ phase' = [phase EXCEPT ![s] = "open"]
  /\ busy' = [busy EXCEPT ![s] = TRUE]
  /\ file' \in {file, file \cup {s}}

Request(s) ==
  /\ phase[s] = "open" /\ ~busy[s]
  /\ busy' = [busy EXCEPT ![s] = TRUE]
  /\ UNCHANGED <<phase, file>>

Reply(s) ==
  /\ phase[s] = "open" /\ busy[s]
  /\ busy' = [busy EXCEPT ![s] = FALSE]
  /\ UNCHANGED <<phase, file>>

Break(s) ==
  /\ phase[s] = "open" /\ busy[s]
  /\ phase' = [phase EXCEPT ![s] = "broken"]
  /\ busy' = [busy EXCEPT ![s] = FALSE]
  /\ UNCHANGED file

LetGo(s) ==
  /\ phase[s] = "open" /\ ~busy[s]
  /\ phase' = [phase EXCEPT ![s] = "closed"]
  /\ UNCHANGED <<busy, file>>

\* The process has been waited for, and only then is its file removed.
End(s) ==
  /\ phase[s] = "closed"
  /\ phase' = [phase EXCEPT ![s] = "ended"]
  /\ file' = file \ {s}
  /\ UNCHANGED busy

Next ==
  \E s \in Session :
    Begin(s) \/ Request(s) \/ Reply(s) \/ Break(s) \/ LetGo(s) \/ End(s)

Spec == Init /\ [][Next]_vars

=============================================================================
