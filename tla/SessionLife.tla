---------------------------- MODULE SessionLife ----------------------------
(***************************************************************************)
(* What a session promises the link that owns it, whatever its peer, its   *)
(* servers and its timers do: the life cycle that IceLink's callbacks      *)
(* (on_connected, on_failed) and its map of sessions rely on.  LinkIce     *)
(* lets every session take exactly these steps; IceSession implements them.*)
(*                                                                         *)
(* A session that is gathering, waiting or checking is "Running".          *)
(***************************************************************************)

VARIABLES life,   \* what the link can tell of the session's state
          closed  \* IceSession::close was called

vars == <<life, closed>>

Lives == {"New", "Running", "Connected", "Failed"}

Init == life = "New" /\ closed = FALSE

\* The one gather() of a session that connect or an offer made.
Begins == life = "New" /\ life' = "Running"

\* A nomination ends the checks.  It may come late: the session has failed by
\* then and its failure was reported.
Connects == life \in {"Running", "Failed"} /\ life' = "Connected"

\* Consent recovery, an auto-restart, or a restart by the operator.
StartsOver == life = "Connected" /\ life' = "Running"

\* on_failed.  A session that was never started does not fail by itself, and
\* a failed one never starts over.
Fails == life \in {"Running", "Connected"} /\ life' = "Failed"

Moves == Begins \/ Connects \/ StartsOver \/ Fails

\* close() stores Failed; a handler that runs at that moment may store what
\* it decided over it.
Closes == /\ closed = FALSE /\ closed' = TRUE
          /\ \/ life' = "Failed"
             \/ life = "Running" /\ UNCHANGED life
             \/ Moves

Next == \/ Moves /\ UNCHANGED closed
        \/ Closes

Spec == Init /\ [][Next]_vars
=============================================================================
