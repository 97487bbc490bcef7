----------------------------- MODULE MCSessions -----------------------------
(* Instances of AuthSessions small enough for TLC. *)
EXTENDS AuthSessions, TLC

CONSTANTS h1, h2

AuthSymmetry == Permutations(Handlers)
=============================================================================
