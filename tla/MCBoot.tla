------------------------------- MODULE MCBoot -------------------------------
(* Finite instances of Entrypoint, StatusWatch and ExitReport. *)
EXTENDS ExitReport

\* What a runner prints and what reads it does not depend on these three; both ways to
\* get credentials are followed.
FollowedModes == {m \in Mode : ~m.dind /\ m.logs /\ m.detached}
=============================================================================
