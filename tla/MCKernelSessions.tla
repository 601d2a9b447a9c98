-------------------------- MODULE MCKernelSessions -------------------------
(* Model values for model checking KernelSessions.                          *)
EXTENDS KernelSessions

CONSTANTS f1, k1, k2

OneFile == {f1}
OneName == {k1}
TwoNames == {k1, k2}
OneEnv == {k2}
NoNames == {}

CreateOnly == {"create"}
=============================================================================
