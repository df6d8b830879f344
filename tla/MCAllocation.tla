---------------------------- MODULE MCAllocation ----------------------------
(***************************************************************************)
(* Finite instances of Allocation.  OneName: all generations compete for   *)
(* one instance name.  Peers: each generation has an instance name of its  *)
(* own.  TwoControllers: two controllers on the host use the same name,    *)
(* each with its own DinD mode.                                            *)
(***************************************************************************)
EXTENDS Allocation, TLC

CONSTANTS g1, g2, p1, p2, x1, x2, c1, c2

AllToX1 == [g \in Gen |-> x1]
AllToC1 == [g \in Gen |-> c1]
ProcsToC1 == [p \in Proc |-> c1]

PeerNames == [g \in Gen |-> IF g = g1 THEN x1 ELSE x2]

TwoControllers == [g \in Gen |-> IF g = g1 THEN c1 ELSE c2]
ProcPerController == [p \in Proc |-> IF p = p1 THEN c1 ELSE c2]

NoDind == [c \in Controller |-> "none"]
DindOfEach == [c \in Controller |-> IF c = c1 THEN "privileged-sidecar" ELSE "sysbox-runc"]

OneNameSymmetry == Permutations(Gen) \cup Permutations(Proc)
ProcSymmetry == Permutations(Proc)
=============================================================================
