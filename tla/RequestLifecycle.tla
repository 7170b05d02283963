--------------------------- MODULE RequestLifecycle ---------------------------
(***************************************************************************)
(* What the request manager promises about one request (spec.md 4.5,       *)
(* "State machine for an individual request"): it is admitted into one of  *)
(* the waiting places or straight to in-flight or failed, only moves       *)
(* forward through awaiting_peer_rule, awaiting_approval,                  *)
(* awaiting_connection, in-flight, and ends DONE or FAILED, after which    *)
(* nothing more happens to it.  An in-flight request can still fail (its   *)
(* connection closes, its handler reports an error).                       *)
(***************************************************************************)
EXTENDS Naturals

CONSTANTS Ids

VARIABLE phase

Waiting == <<"awaiting_peer_rule", "awaiting_approval", "awaiting_connection">>
Phase == {"none", "in_flight", "done", "failed"} \cup {Waiting[i] : i \in 1..3}

\* The position of a phase along the diagram.
Rank(p) ==
    CASE p = "none" -> 0
      [] p = Waiting[1] -> 1
      [] p = Waiting[2] -> 2
      [] p = Waiting[3] -> 3
      [] p = "in_flight" -> 4
      [] OTHER -> 5

\* Moves the diagram allows: forward to a later waiting place, to
\* in-flight, or to failed; from in-flight to done or failed.
Moves(from) ==
    CASE from \in {"done", "failed"} -> {}
      [] from = "in_flight" -> {"done", "failed"}
      [] OTHER -> {p \in Phase \ {"done"} : Rank(p) > Rank(from)}

Init == phase = [i \in Ids |-> "none"]

\* One step may move several requests at once (a connection closing fails
\* all of its in-flight requests), each along an allowed move.
Next ==
    /\ phase' \in [Ids -> Phase]
    /\ phase' # phase
    /\ \A i \in Ids : phase'[i] = phase[i] \/ phase'[i] \in Moves(phase[i])

Spec == Init /\ [][Next]_phase

=============================================================================
