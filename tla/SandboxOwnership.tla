-------------------------- MODULE SandboxOwnership --------------------------
(***************************************************************************)
(* What the session locks of one sandbox promise, without the locks.       *)
(*                                                                         *)
(* Launches join and leave the sandbox.  A launch that joins while nobody  *)
(* else is in owns the persistent state; one that joins beside others does *)
(* not.  The state on disk is taken away only while nobody is in.          *)
(*                                                                         *)
(* The promise is conditional: once the state has been removed under a     *)
(* live session (`broken') nothing is promised about that sandbox.         *)
(***************************************************************************)
CONSTANT Launch

VARIABLES sessions,   \* launches registered as live
          owners,     \* those that own the persistent state
          present,    \* the sandbox root exists
          broken      \* it was removed under a live session

vars == <<sessions, owners, present, broken>>

TypeOK ==
  /\ sessions \subseteq Launch
  /\ owners \subseteq sessions
  /\ present \in BOOLEAN
  /\ broken \in BOOLEAN

Init ==
  /\ sessions = {}
  /\ owners = {}
  /\ present \in BOOLEAN
  /\ broken = FALSE

\* The first one in owns the state.  One that was told it has company does
\* not, even if the company has left by the time it is registered.
Join(p) ==
  /\ p \notin sessions
  /\ present
  /\ sessions' = sessions \cup {p}
  /\ \/ sessions = {} /\ owners' = {p}
     \/ owners' = owners
  /\ UNCHANGED <<present, broken>>

Leave(p) ==
  /\ p \in sessions
  /\ sessions' = sessions \ {p}
  /\ owners' = owners \ {p}
  /\ UNCHANGED <<present, broken>>

Create ==
  /\ ~present
  /\ present' = TRUE
  /\ UNCHANGED <<sessions, owners, broken>>

Remove ==
  /\ sessions = {}
  /\ present' = FALSE
  /\ UNCHANGED <<sessions, owners, broken>>

\* The root is removed under a session; from here on anything may be seen.
Break == broken' = TRUE

Next ==
  \/ \E p \in Launch : Join(p) \/ Leave(p)
  \/ Create
  \/ Remove
  \/ Break

Spec == Init /\ [][Next]_vars

=============================================================================
