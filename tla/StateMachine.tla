---------------------------- MODULE StateMachine ----------------------------
(* The states of a session and the legal moves of internal/session/state.go. *)

States == {"unknown", "pending", "running", "paused", "stopped", "errored"}
Terminal == {"stopped", "errored"}

Legal == ({"unknown"} \X {"pending", "running", "stopped", "errored"})
   \union ({"pending"} \X {"running", "stopped", "errored"})
   \union ({"running"} \X {"paused", "stopped", "errored"})
   \union ({"paused"}  \X {"running", "stopped", "errored"})

\* Mutant: transitionLocked without its terminal and legality errors.
MayAlwaysMove(from, to) == from \in States /\ to \in States

\* transitionLocked returns nil on a step to the same state as well.
MayMove(from, to) == from = to \/ <<from, to>> \in Legal
=============================================================================
