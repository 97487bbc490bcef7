---------------------------- MODULE MCCloneJobs ----------------------------
(* Instances of CloneJobs small enough for TLC. *)
EXTENDS CloneJobs, TLC

CONSTANTS w1, w2, r1, r2, k1, k2, few, many, empty

BodyTasks == [b \in Bodies |->
    IF b = many THEN "many" ELSE IF b = few THEN "few" ELSE "none"]

\* Two requests race for one key with a small and a large template.
RaceKeyOf == [r \in Requests |-> k1]
RaceBodyOf == [r \in Requests |-> IF r = r1 THEN few ELSE many]

\* A client repeats its request.
RepeatBodyOf == [r \in Requests |-> few]

\* Two jobs one poll may claim together, one of them of a template without tasks.
BatchKeyOf == [r \in Requests |-> IF r = r1 THEN k1 ELSE k2]
BatchBodyOf == [r \in Requests |-> IF r = r1 THEN many ELSE empty]
=============================================================================
