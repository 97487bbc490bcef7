------------------------------ MODULE CloneOnce ------------------------------
(***************************************************************************)
(* What cloning a published template promises, without leases, workers or  *)
(* database transactions: an accepted request yields at most one project,  *)
(* the project is made only while the request is still open, and a request *)
(* is reported done only once its project exists.                          *)
(***************************************************************************)
EXTENDS Naturals

CONSTANT Keys   \* idempotency keys of one workspace

VARIABLES phase,   \* phase[k]: what a reader of the job is told
          made     \* made[k]: projects created on behalf of k

onceVars == <<phase, made>>

Phases == {"absent", "open", "done", "failed"}

OnceInit == /\ phase = [k \in Keys |-> "absent"]
            /\ made = [k \in Keys |-> 0]

Accept(k) == /\ phase[k] = "absent"
             /\ phase' = [phase EXCEPT ![k] = "open"]
             /\ UNCHANGED made

\* The only step that creates a project: once, and never for a closed request.
Materialise(k) == /\ phase[k] = "open"
                  /\ made[k] = 0
                  /\ made' = [made EXCEPT ![k] = 1]
                  /\ UNCHANGED phase

Complete(k) == /\ phase[k] = "open"
               /\ made[k] = 1
               /\ phase' = [phase EXCEPT ![k] = "done"]
               /\ UNCHANGED made

\* From "done" too: the synchronous handler reports FAILED when the
\* acknowledgement of its completing update is lost.
Fail(k) == /\ phase[k] \in {"open", "done"}
           /\ phase' = [phase EXCEPT ![k] = "failed"]
           /\ UNCHANGED made

Reopen(k) == /\ phase[k] = "failed"
             /\ phase' = [phase EXCEPT ![k] = "open"]
             /\ UNCHANGED made

OnceNext == \E k \in Keys : \/ Accept(k)
                            \/ Materialise(k)
                            \/ Complete(k)
                            \/ Fail(k)
                            \/ Reopen(k)

OnceSpec == OnceInit /\ [][OnceNext]_onceVars
=============================================================================
