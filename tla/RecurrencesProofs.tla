-------------------------- MODULE RecurrencesProofs --------------------------
(***************************************************************************)
(* Proofs about Recurrences for any number of workers, recurrences and     *)
(* instants, any schedules, and any bound on edits, retries and faults.    *)
(***************************************************************************)
EXTENDS Recurrences, TLAPS, WellFoundedInduction

-----------------------------------------------------------------------------
(* computeNextRunAt *)

LEMMA SlotFacts == /\ \A s \in Slots : s \in Nat /\ s # Null /\ s \in 0..MaxSlot
                   /\ Null \notin Slots
                   /\ MaxSlot \in Nat
  BY RecurrenceAssumption DEF Slots, Null

\* A non-empty set of naturals has a least element.
LEMMA LeastExists ==
  ASSUME NEW S \in SUBSET Nat, S # {}
  PROVE  \E x \in S : \A y \in S : x <= y
  <1> DEFINE R == {ss \in Nat \X Nat : ss[1] < ss[2]}
  <1>1. IsWellFoundedOn(R, Nat)
    BY NatLessThanWellFounded DEF OpToRel
  <1>2. PICK x \in S : \A y \in S : ~ (<<y, x>> \in R)
    BY <1>1, WFMin
  <1>3. ASSUME NEW y \in S PROVE x <= y
    <2>1. <<y, x>> \in Nat \X Nat
      OBVIOUS
    <2>2. ~ (y < x)
      BY <1>2, <2>1
    <2> QED
      BY <2>2
  <1> QED
    BY <1>3

\* The result is the first instant of the schedule after the given one, or
\* null if there is none.
LEMMA NextRunAtFirst ==
  ASSUME NEW sched \in SUBSET Slots, NEW after \in Nat
  PROVE  LET n == NextRunAt(sched, after)
         IN  /\ n \in Slots \cup {Null}
             /\ n # Null => n \in sched /\ n > after
             /\ \A s \in sched : s > after => n # Null /\ n <= s
  <1> DEFINE later == {s \in sched : s > after}
             n == NextRunAt(sched, after)
  <1>1. later \subseteq Slots /\ later \subseteq Nat
    BY SlotFacts
  <1>2. CASE later = {}
    <2>1. n = Null
      BY <1>2 DEF NextRunAt
    <2> QED
      BY <1>2, <2>1
  <1>3. CASE later # {}
    <2>1. \E s \in later : \A t \in later : s <= t
      BY <1>1, <1>3, LeastExists
    <2>2. n = CHOOSE s \in later : \A t \in later : s <= t
      BY <1>3 DEF NextRunAt
    <2>3. n \in later /\ \A t \in later : n <= t
      BY <2>1, <2>2
    <2> QED
      BY <2>3, <1>1, SlotFacts
  <1> QED
    BY <1>2, <1>3

-----------------------------------------------------------------------------
(* Type correctness.  Not inductive alone: that a worker writes runs and     *)
(* occurrences that exist rests on where it stands.                         *)

\* Between the due check and the end of generateDueOccurrences.
Holding == {"enqueue", "overlap", "create", "link", "skip", "skipNext", "skipRun",
            "fail", "failRun"}
Reserved == Holding \cup {"reserve"}
\* In executeRun, after generateDueOccurrences.
Settling == {"succeeded", "failed", "markDead", "markFailed"}

RowOK == row \in [Recs -> RowType]
CellsOK == /\ occ \in [Recs -> [Slots -> OccStatuses]]
           /\ made \in [Recs -> [Slots -> Nat]]
           /\ open \in [Recs -> [Slots -> BOOLEAN]]
RunOK == run \in [Recs -> [Slots -> RunType]]
ProcOK == /\ proc \in [Workers -> Place]
          /\ \A w \in Workers :
                /\ proc[w].pc \in Reserved => Slot(w) \in Slots
                /\ proc[w].pc \in Settling => proc[w].via \in Slots
QueueOK == /\ todo \in [Workers -> SUBSET Recs]
           /\ claimed \in [Workers -> SUBSET (Recs \X Slots)]
           /\ asked \in [Recs -> [Slots -> AskType]]
CountOK == /\ now \in 0..MaxSlot
           /\ edits \in Nat
           /\ retries \in Nat
           /\ faults \in Nat

TypeInv == RowOK /\ CellsOK /\ RunOK /\ ProcOK /\ QueueOK /\ CountOK

LEMMA TypeInvIsTypeOK == TypeInv => TypeOK
  BY DEF TypeInv, TypeOK, RowOK, CellsOK, RunOK, ProcOK, QueueOK, CountOK

LEMMA NullTypes ==
  /\ NoRow \in RowType
  /\ NoRun \in RunType
  /\ Nowhere \in Place /\ Nowhere.pc = "idle"
  <1>1. NoRow \in RowType
    BY SlotFacts, RecurrenceAssumption DEF NoRow, RowType, Policies, Null
  <1>2. (CHOOSE c \in Recs : TRUE) \in Recs
    BY RecurrenceAssumption
  <1>3. Nowhere \in Place /\ Nowhere.pc = "idle"
    BY <1>1, <1>2, SlotFacts, RecurrenceAssumption DEF Nowhere, Place, PCs, Null
  <1> QED
    BY <1>1, <1>3 DEF NoRun, RunType, RunStatuses

LEMMA PlaceFacts ==
  ASSUME TypeInv, NEW w \in Workers
  PROVE  /\ proc[w] \in Place
         /\ Rec(w) \in Recs
         /\ proc[w].snap \in RowType
         /\ proc[w].snap.sched \subseteq Slots
         /\ proc[w].pc \in Reserved => Slot(w) \in Slots
         /\ proc[w].pc \in Settling => proc[w].via \in Slots
  BY DEF TypeInv, ProcOK, Place, Rec, RowType

LEMMA GotoOK ==
  ASSUME TypeInv, NEW w \in Workers, NEW pc \in PCs, Goto(w, pc),
         pc \in Reserved => proc[w].pc \in Reserved,
         pc \in Settling => proc[w].pc \in Settling
  PROVE  ProcOK'
  BY DEF TypeInv, ProcOK, Goto, Place, Slot

LEMMA StayOK ==
  ASSUME TypeInv, NEW w \in Workers, proc[w].pc \in Reserved,
         NEW pc, pc \in Holding, Goto(w, pc)
  PROVE  ProcOK'
  <1>1. pc \in PCs /\ pc \notin Settling
    BY DEF PCs, Holding, Settling
  <1> QED
    BY <1>1, GotoOK

LEMMA LeavesOK ==
  ASSUME TypeInv, NEW w \in Workers, NEW pc \in {"succeeded", "failed"}, Leaves(w, pc)
  PROVE  ProcOK'
  <1>1. proc' \in [Workers -> Place]
    BY NullTypes DEF TypeInv, ProcOK, Leaves, Place, PCs
  <1>2. /\ proc'[w].pc \notin Reserved
        /\ proc'[w].pc \in Settling => proc'[w].via \in Slots
        /\ \A v \in Workers : v # w => proc'[v] = proc[v]
    BY DEF TypeInv, ProcOK, Leaves, Place, Reserved, Holding, Settling
  <1> QED
    BY <1>1, <1>2 DEF TypeInv, ProcOK, Slot

LEMMA MovedOK ==
  ASSUME TypeInv, NEW w \in Workers, NEW p \in Place,
         p.pc \notin Reserved, p.pc \notin Settling,
         proc' = [proc EXCEPT ![w] = p]
  PROVE  ProcOK'
  BY DEF TypeInv, ProcOK, Slot

LEMMA RunDoneOK ==
  ASSUME TypeInv, NEW w \in Workers, RunDone(w)
  PROVE  ProcOK'
  <1>1. /\ [Nowhere EXCEPT !.pc = "runs"] \in Place
        /\ [Nowhere EXCEPT !.pc = "runs"].pc = "runs"
    BY NullTypes DEF Place, PCs
  <1>2. CASE claimed[w] = {}
    BY <1>2, NullTypes, MovedOK DEF RunDone, Reserved, Holding, Settling
  <1>3. CASE claimed[w] # {}
    BY <1>1, <1>3, MovedOK DEF RunDone, Reserved, Holding, Settling
  <1> QED
    BY <1>2, <1>3

LEMMA SetRunOK ==
  ASSUME TypeInv, NEW c \in Recs, NEW s \in Slots, NEW r \in RunType, SetRun(c, s, r)
  PROVE  RunOK'
  BY DEF TypeInv, RunOK, SetRun

LEMMA RunFacts ==
  ASSUME TypeInv, NEW c \in Recs, NEW s \in Slots
  PROVE  run[c][s] \in RunType
  BY DEF TypeInv, RunOK

LEMMA CountedRun ==
  ASSUME NEW r \in RunType
  PROVE  /\ [r EXCEPT !.status = "RUNNING", !.attempts = @ + 1] \in RunType
         /\ [r EXCEPT !.status = "SUCCEEDED", !.attempts = @ + 1] \in RunType
  <1>1. /\ r.attempts \in Nat
        /\ r.attempts + 1 \in Nat
    BY DEF RunType
  <1>2. ASSUME NEW n \in Nat
        PROVE  /\ [r EXCEPT !.status = "RUNNING", !.attempts = n] \in RunType
               /\ [r EXCEPT !.status = "SUCCEEDED", !.attempts = n] \in RunType
    BY DEF RunType, RunStatuses
  <1> QED
    BY <1>1, <1>2

LEMMA SetOccOK ==
  ASSUME TypeInv, NEW c \in Recs, NEW s \in Slots, NEW st \in OccStatuses, SetOcc(c, s, st),
         UNCHANGED <<made, open>>
  PROVE  CellsOK'
  BY DEF TypeInv, CellsOK, SetOcc

LEMMA SetNextOK ==
  ASSUME TypeInv, NEW c \in Recs, NEW s \in Slots \cup {Null}, SetNext(c, s)
  PROVE  RowOK'
  BY DEF TypeInv, RowOK, SetNext, RowType

LEMMA FaultOK ==
  ASSUME TypeInv, Fault \/ UNCHANGED faults, UNCHANGED <<now, edits, retries>>
  PROVE  CountOK'
  BY DEF TypeInv, CountOK, Fault

LEMMA FollowingOK ==
  ASSUME TypeInv, NEW w \in Workers, proc[w].pc \in Reserved
  PROVE  Following(w) \in Slots \cup {Null}
  BY PlaceFacts, SlotFacts, NextRunAtFirst DEF Following
-----------------------------------------------------------------------------
(* One step of each kind keeps the types. *)

LEMMA InitType == Init => TypeInv
  <1> SUFFICES ASSUME Init PROVE TypeInv
    OBVIOUS
  <1>1. RowOK
    BY NullTypes DEF Init, RowOK
  <1>2. CellsOK
    BY DEF Init, CellsOK, OccStatuses
  <1>3. RunOK
    BY NullTypes DEF Init, RunOK
  <1>4. ProcOK
    BY NullTypes DEF Init, ProcOK, Reserved, Holding, Settling
  <1>5. QueueOK /\ CountOK
    BY RecurrenceAssumption DEF Init, QueueOK, CountOK, AskType
  <1> QED
    BY <1>1, <1>2, <1>3, <1>4, <1>5 DEF TypeInv

LEMMA PollType ==
  ASSUME TypeInv, NEW w \in Workers,
         Poll(w) \/ StartRecurrence(w) \/ ClaimRuns(w) \/ StartRun(w)
  PROVE  TypeInv'
  <1>1. CASE Poll(w)
    <2>1. ProcOK'
      <3> DEFINE p == [proc[w] EXCEPT !.pc = "recurrences", !.now = now]
      <3>1. p \in Place /\ p.pc = "recurrences" /\ proc' = [proc EXCEPT ![w] = p]
        BY <1>1, PlaceFacts DEF Poll, Place, PCs, TypeInv, ProcOK, CountOK
      <3> QED
        BY <3>1, MovedOK DEF Reserved, Holding, Settling
    <2>2. QueueOK'
      BY <1>1 DEF Poll, TypeInv, QueueOK
    <2> QED
      BY <1>1, <2>1, <2>2 DEF Poll, TypeInv, RowOK, CellsOK, RunOK, CountOK
  <1>2. CASE StartRecurrence(w)
    <2>1. PICK c \in todo[w] :
            /\ todo' = [todo EXCEPT ![w] = @ \ {c}]
            /\ proc' = [proc EXCEPT ![w].pc = "read", ![w].rec = c, ![w].via = Null]
      BY <1>2 DEF StartRecurrence
    <2>2. ProcOK'
      <3> DEFINE p == [proc[w] EXCEPT !.pc = "read", !.rec = c, !.via = Null]
      <3>1. p \in Place /\ p.pc = "read" /\ proc' = [proc EXCEPT ![w] = p]
        BY <2>1, PlaceFacts DEF Place, PCs, TypeInv, ProcOK, QueueOK
      <3> QED
        BY <3>1, MovedOK DEF Reserved, Holding, Settling
    <2>3. QueueOK'
      BY <1>2, <2>1 DEF StartRecurrence, TypeInv, QueueOK
    <2> QED
      BY <1>2, <2>2, <2>3 DEF StartRecurrence, TypeInv, RowOK, CellsOK, RunOK, CountOK
  <1>3. CASE ClaimRuns(w)
    <2> DEFINE due == {q \in Recs \X Slots : Claimable(run[q[1]][q[2]])}
    <2>1. ProcOK'
      <3> DEFINE p == IF due = {} THEN Nowhere ELSE [Nowhere EXCEPT !.pc = "runs"]
      <3>1. p \in Place /\ p.pc \in {"idle", "runs"}
        BY NullTypes DEF Place, PCs
      <3>2. proc' = [proc EXCEPT ![w] = p]
        BY <1>3 DEF ClaimRuns
      <3> QED
        BY <3>1, <3>2, MovedOK DEF Reserved, Holding, Settling
    <2>2. QueueOK'
      BY <1>3 DEF ClaimRuns, TypeInv, QueueOK
    <2>3. RunOK'
      <3>1. ASSUME NEW c \in Recs, NEW s \in Slots
            PROVE  [run[c][s] EXCEPT !.status = "RUNNING", !.attempts = @ + 1] \in RunType
        <4>1. run[c][s] \in RunType
          BY RunFacts
        <4> QED
          BY <4>1, CountedRun
      <3> DEFINE r(c, s) == IF <<c, s>> \in due
                            THEN [run[c][s] EXCEPT !.status = "RUNNING", !.attempts = @ + 1]
                            ELSE run[c][s]
      <3>2. \A c \in Recs, s \in Slots : r(c, s) \in RunType
        BY <3>1, RunFacts
      <3>3. run' = [c \in Recs |-> [s \in Slots |-> r(c, s)]]
        BY <1>3 DEF ClaimRuns
      <3> HIDE DEF r
      <3> QED
        BY <3>2, <3>3 DEF RunOK
    <2> QED
      BY <1>3, <2>1, <2>2, <2>3 DEF ClaimRuns, TypeInv, RowOK, CellsOK, CountOK
  <1>4. CASE StartRun(w)
    <2>1. PICK q \in claimed[w] :
            /\ claimed' = [claimed EXCEPT ![w] = @ \ {q}]
            /\ proc' = [proc EXCEPT ![w].pc = "read", ![w].rec = q[1], ![w].via = q[2],
                                     ![w].now = now]
      BY <1>4 DEF StartRun
    <2>2. ProcOK'
      <3> DEFINE p == [proc[w] EXCEPT !.pc = "read", !.rec = q[1], !.via = q[2], !.now = now]
      <3>0. q[1] \in Recs /\ q[2] \in Slots
        BY <2>1 DEF TypeInv, QueueOK
      <3>1. p \in Place /\ p.pc = "read" /\ proc' = [proc EXCEPT ![w] = p]
        BY <2>1, <3>0, PlaceFacts DEF Place, PCs, TypeInv, ProcOK, CountOK
      <3> QED
        BY <3>1, MovedOK DEF Reserved, Holding, Settling
    <2>3. QueueOK'
      BY <1>4, <2>1 DEF StartRun, TypeInv, QueueOK
    <2> QED
      BY <1>4, <2>2, <2>3 DEF StartRun, TypeInv, RowOK, CellsOK, RunOK, CountOK
  <1> QED
    BY <1>1, <1>2, <1>3, <1>4

LEMMA SettleType ==
  ASSUME TypeInv, NEW w \in Workers, Succeed(w) \/ Fail(w) \/ MarkFailed(w)
  PROVE  TypeInv'
  <1>1. proc[w].pc \in Settling /\ proc[w].via \in Slots /\ Rec(w) \in Recs
    BY PlaceFacts DEF Succeed, Fail, MarkFailed, At, Settling
  <1> DEFINE r == run[Rec(w)][proc[w].via]
  <1>2. r \in RunType
    BY <1>1, RunFacts
  <1>3. CASE Succeed(w)
    <2>1. RunOK'
      <3>1. [r EXCEPT !.status = "SUCCEEDED", !.retryAt = "null"] \in RunType
        BY <1>2 DEF RunType, RunStatuses
      <3> QED
        BY <1>1, <1>3, <3>1, SetRunOK DEF Succeed, TypeInv, RunOK
    <2>2. ProcOK'
      <3>1. CASE RunDone(w)
        BY <3>1, RunDoneOK
      <3>2. CASE Goto(w, "failed")
        BY <1>1, <3>2, GotoOK DEF PCs, Reserved, Holding, Settling
      <3> QED
        BY <1>3, <3>1, <3>2 DEF Succeed
    <2>3. CountOK'
      BY <1>3, FaultOK DEF Succeed
    <2> QED
      BY <1>3, <2>1, <2>2, <2>3 DEF Succeed, TypeInv, RowOK, CellsOK, QueueOK
  <1>4. CASE Fail(w)
    <2>1. PICK pc \in {"markDead", "markFailed"} : Goto(w, pc)
      BY <1>4 DEF Fail
    <2>2. ProcOK'
      BY <1>1, <2>1, GotoOK DEF PCs, Reserved, Holding, Settling
    <2> QED
      BY <1>4, <2>2 DEF Fail, TypeInv, RowOK, CellsOK, RunOK, QueueOK, CountOK
  <1>5. CASE MarkFailed(w)
    <2>1. RunOK'
      <3>1. /\ [r EXCEPT !.status = "DEAD", !.retryAt = "null"] \in RunType
            /\ [r EXCEPT !.status = "FAILED", !.retryAt = "later"] \in RunType
        BY <1>2 DEF RunType, RunStatuses
      <3> QED
        BY <1>1, <1>5, <3>1, SetRunOK DEF MarkFailed
    <2>2. ProcOK'
      BY <1>5, RunDoneOK DEF MarkFailed
    <2> QED
      BY <1>5, <2>1, <2>2 DEF MarkFailed, TypeInv, RowOK, CellsOK, QueueOK, CountOK
  <1> QED
    BY <1>3, <1>4, <1>5

LEMMA BackOK ==
  ASSUME TypeInv, NEW w \in Workers, Returns(w) \/ Raises(w)
  PROVE  ProcOK'
  BY LeavesOK DEF Returns, Raises

LEMMA ReserveType ==
  ASSUME TypeInv, NEW w \in Workers, Read(w) \/ Reserve(w) \/ Enqueue(w) \/ Overlap(w)
  PROVE  TypeInv'
  <1>1. CASE Read(w)
    <2>1. ProcOK'
      <3>1. CASE Due(row[Rec(w)], proc[w].now)
        <4> DEFINE p == [proc[w] EXCEPT !.pc = "reserve", !.snap = row[Rec(w)]]
        <4>1. /\ row[Rec(w)] \in RowType
              /\ row[Rec(w)].next \in Slots
          BY <3>1, PlaceFacts DEF Due, TypeInv, RowOK, RowType
        <4>2. /\ p \in Place
              /\ p.pc = "reserve"
              /\ p.snap.next \in Slots
          BY <4>1, PlaceFacts DEF Place, PCs
        <4>3. proc' = [proc EXCEPT ![w] = p]
          BY <1>1, <3>1 DEF Read, TypeInv, ProcOK
        <4> QED
          BY <4>2, <4>3 DEF TypeInv, ProcOK, Slot, Settling
      <3>2. CASE ~Due(row[Rec(w)], proc[w].now)
        BY <1>1, <3>2, BackOK DEF Read
      <3> QED
        BY <3>1, <3>2
    <2> QED
      BY <1>1, <2>1 DEF Read, TypeInv, RowOK, CellsOK, RunOK, QueueOK, CountOK
  <1>2. CASE Reserve(w)
    <2>1. proc[w].pc \in Reserved /\ Rec(w) \in Recs /\ Slot(w) \in Slots
      BY <1>2, PlaceFacts DEF Reserve, At, Reserved
    <2>2. Goto(w, "enqueue") => ProcOK'
      BY <2>1, StayOK DEF Holding
    <2>3. ProcOK'
      BY <1>2, <2>2, BackOK DEF Reserve
    <2>4. CellsOK'
      <3>1. UNCHANGED occ \/ SetOcc(Rec(w), Slot(w), "PENDING")
        BY <1>2 DEF Reserve
      <3> QED
        BY <1>2, <2>1, <3>1, SetOccOK DEF Reserve, OccStatuses, TypeInv, CellsOK
    <2> QED
      BY <1>2, <2>3, <2>4 DEF Reserve, TypeInv, RowOK, RunOK, QueueOK, CountOK
  <1>3. CASE Enqueue(w)
    <2>1. proc[w].pc \in Reserved /\ Rec(w) \in Recs /\ Slot(w) \in Slots
      BY <1>3, PlaceFacts DEF Enqueue, At, Reserved, Holding
    <2>2. PICK pc \in {"overlap", "create"} : Goto(w, pc)
      BY <1>3 DEF Enqueue
    <2>3. ProcOK'
      BY <2>1, <2>2, StayOK DEF Holding
    <2>4. RunOK'
      <3>1. [NoRun EXCEPT !.status = "PENDING"] \in RunType
        BY NullTypes DEF RunType, RunStatuses
      <3> QED
        BY <1>3, <2>1, <3>1, SetRunOK DEF Enqueue, TypeInv, RunOK
    <2> QED
      BY <1>3, <2>3, <2>4 DEF Enqueue, TypeInv, RowOK, CellsOK, QueueOK, CountOK
  <1>4. CASE Overlap(w)
    <2>1. proc[w].pc \in Reserved
      BY <1>4 DEF Overlap, At, Reserved, Holding
    <2>2. PICK pc \in {"skip", "create"} : Goto(w, pc)
      BY <1>4 DEF Overlap
    <2>3. ProcOK'
      BY <2>1, <2>2, StayOK DEF Holding
    <2> QED
      BY <1>4, <2>3 DEF Overlap, TypeInv, RowOK, CellsOK, RunOK, QueueOK, CountOK
  <1> QED
    BY <1>1, <1>2, <1>3, <1>4

LEMMA SkipType ==
  ASSUME TypeInv, NEW w \in Workers, SkipOccurrence(w) \/ SkipNext(w) \/ SkipRun(w)
  PROVE  TypeInv'
  <1>1. proc[w].pc \in Reserved /\ Rec(w) \in Recs /\ Slot(w) \in Slots
    BY PlaceFacts DEF SkipOccurrence, SkipNext, SkipRun, At, Reserved, Holding
  <1>2. CASE SkipOccurrence(w)
    <2>1. Goto(w, "skipNext") => ProcOK'
      BY <1>1, StayOK DEF Holding
    <2>2. ProcOK'
      BY <1>2, <2>1, BackOK DEF SkipOccurrence
    <2>3. CellsOK'
      <3>1. UNCHANGED occ \/ SetOcc(Rec(w), Slot(w), "SKIPPED")
        BY <1>2 DEF SkipOccurrence
      <3> QED
        BY <1>1, <1>2, <3>1, SetOccOK DEF SkipOccurrence, OccStatuses, TypeInv, CellsOK
    <2> QED
      BY <1>2, <2>2, <2>3 DEF SkipOccurrence, TypeInv, RowOK, RunOK, QueueOK, CountOK
  <1>3. CASE SkipNext(w)
    <2>1. Goto(w, "skipRun") => ProcOK'
      BY <1>1, StayOK DEF Holding
    <2>2. ProcOK'
      BY <1>3, <2>1, BackOK DEF SkipNext
    <2>3. RowOK'
      BY <1>1, <1>3, FollowingOK, SetNextOK DEF SkipNext, TypeInv, RowOK
    <2> QED
      BY <1>3, <2>2, <2>3 DEF SkipNext, TypeInv, CellsOK, RunOK, QueueOK, CountOK
  <1>4. CASE SkipRun(w)
    <2>1. ProcOK'
      BY <1>4, BackOK DEF SkipRun
    <2>2. RunOK'
      <3>1. [run[Rec(w)][Slot(w)] EXCEPT !.status = "SKIPPED"] \in RunType
        BY <1>1, RunFacts DEF RunType, RunStatuses
      <3> QED
        BY <1>1, <1>4, <3>1, SetRunOK DEF SkipRun
    <2>3. CountOK'
      BY <1>4, FaultOK DEF SkipRun
    <2> QED
      BY <1>4, <2>1, <2>2, <2>3 DEF SkipRun, TypeInv, RowOK, CellsOK, QueueOK
  <1> QED
    BY <1>2, <1>3, <1>4

LEMMA CreateTaskType ==
  ASSUME TypeInv, NEW w \in Workers, CreateTask(w)
  PROVE  TypeInv'
  <1>1. proc[w].pc \in Reserved /\ Rec(w) \in Recs /\ Slot(w) \in Slots
    BY PlaceFacts DEF CreateTask, At, Reserved, Holding
  <1>2. PICK pc \in {"link", "fail"} : Goto(w, pc)
    BY DEF CreateTask
  <1>3. ProcOK'
    BY <1>1, <1>2, StayOK DEF Holding
  <1>4. CellsOK'
    <2>1. made[Rec(w)][Slot(w)] + 1 \in Nat
      BY <1>1 DEF TypeInv, CellsOK
    <2>2. CASE /\ made' = [made EXCEPT ![Rec(w)][Slot(w)] = @ + 1]
               /\ open' = [open EXCEPT ![Rec(w)][Slot(w)] = TRUE]
      <3>1. made' \in [Recs -> [Slots -> Nat]]
        BY <1>1, <2>1, <2>2 DEF TypeInv, CellsOK
      <3>2. open' \in [Recs -> [Slots -> BOOLEAN]]
        BY <1>1, <2>2 DEF TypeInv, CellsOK
      <3> QED
        BY <3>1, <3>2 DEF CreateTask, TypeInv, CellsOK
    <2> QED
      BY <2>2 DEF CreateTask, TypeInv, CellsOK
  <1>5. CountOK'
    BY FaultOK DEF CreateTask
  <1> QED
    BY <1>3, <1>4, <1>5 DEF CreateTask, TypeInv, RowOK, RunOK, QueueOK

LEMMA LinkType ==
  ASSUME TypeInv, NEW w \in Workers, Link(w)
  PROVE  TypeInv'
  <1>1. proc[w].pc \in Reserved /\ Rec(w) \in Recs /\ Slot(w) \in Slots
    BY PlaceFacts DEF Link, At, Reserved, Holding
  <1> DEFINE r == [run[Rec(w)][Slot(w)] EXCEPT !.status = "SUCCEEDED", !.attempts = @ + 1]
  <1>2. Goto(w, "fail") => ProcOK'
    BY <1>1, StayOK DEF Holding
  <1>3. ProcOK'
    BY <1>2, BackOK DEF Link
  <1>4. CountOK'
    BY FaultOK DEF Link
  <1>5. CASE /\ SetOcc(Rec(w), Slot(w), "CREATED")
             /\ SetNext(Rec(w), Following(w))
             /\ SetRun(Rec(w), Slot(w), r)
    <2>1. CellsOK'
      BY <1>1, <1>5, SetOccOK DEF Link, OccStatuses
    <2>2. RowOK'
      BY <1>1, <1>5, FollowingOK, SetNextOK
    <2>3. r \in RunType
      BY <1>1, RunFacts, CountedRun
    <2>4. RunOK'
      BY <1>1, <1>5, <2>3, SetRunOK
    <2> QED
      BY <1>3, <1>4, <2>1, <2>2, <2>4 DEF Link, TypeInv, QueueOK
  <1>6. CASE UNCHANGED <<row, occ, run>>
    BY <1>3, <1>4, <1>6 DEF Link, TypeInv, RowOK, CellsOK, RunOK, QueueOK
  <1> QED
    BY <1>5, <1>6 DEF Link

LEMMA CatchType ==
  ASSUME TypeInv, NEW w \in Workers,
         FailOccurrence(w) \/ FailRun(w) \/ StatementFails(w) \/ Crash(w)
  PROVE  TypeInv'
  <1>1. CASE FailOccurrence(w)
    <2>1. proc[w].pc \in Reserved /\ Rec(w) \in Recs /\ Slot(w) \in Slots
      BY <1>1, PlaceFacts DEF FailOccurrence, At, Reserved, Holding
    <2>2. Goto(w, "failRun") => ProcOK'
      BY <2>1, StayOK DEF Holding
    <2>3. ProcOK'
      BY <1>1, <2>2, BackOK DEF FailOccurrence
    <2>4. CellsOK'
      <3>1. UNCHANGED occ \/ SetOcc(Rec(w), Slot(w), "FAILED")
        BY <1>1 DEF FailOccurrence
      <3> QED
        BY <1>1, <2>1, <3>1, SetOccOK DEF FailOccurrence, OccStatuses, TypeInv, CellsOK
    <2> QED
      BY <1>1, <2>3, <2>4 DEF FailOccurrence, TypeInv, RowOK, RunOK, QueueOK, CountOK
  <1>2. CASE FailRun(w)
    <2>1. Rec(w) \in Recs /\ Slot(w) \in Slots
      BY <1>2, PlaceFacts DEF FailRun, At, Reserved, Holding
    <2>2. [run[Rec(w)][Slot(w)] EXCEPT !.status = "FAILED"] \in RunType
      BY <2>1, RunFacts DEF RunType, RunStatuses
    <2>3. RunOK'
      BY <1>2, <2>1, <2>2, SetRunOK DEF FailRun
    <2>4. ProcOK'
      BY <1>2, BackOK DEF FailRun
    <2> QED
      BY <1>2, <2>3, <2>4 DEF FailRun, TypeInv, RowOK, CellsOK, QueueOK, CountOK
  <1>3. CASE StatementFails(w)
    BY <1>3, BackOK, FaultOK DEF StatementFails, TypeInv, RowOK, CellsOK, RunOK, QueueOK
  <1>4. CASE Crash(w)
    <2>1. ProcOK'
      BY <1>4, NullTypes, MovedOK DEF Crash, Reserved, Holding, Settling
    <2>2. QueueOK'
      BY <1>4 DEF Crash, TypeInv, QueueOK
    <2> QED
      BY <1>4, <2>1, <2>2, FaultOK DEF Crash, TypeInv, RowOK, CellsOK, RunOK
  <1> QED
    BY <1>1, <1>2, <1>3, <1>4

LEMMA UserType ==
  ASSUME TypeInv, NEW c \in Recs, UserStep(c)
  PROVE  TypeInv'
  <1>0. /\ now \in Nat
        /\ now \in 0..MaxSlot
        /\ row[c] \in RowType
    BY SlotFacts DEF TypeInv, CountOK, RowOK
  <1>1. \A sched \in Schedules : sched \in SUBSET Slots
    BY RecurrenceAssumption
  <1>2. \A sched \in SUBSET Slots : NextRunAt(sched, now) \in Slots \cup {Null}
    BY <1>0, NextRunAtFirst
  <1>f. /\ UNCHANGED <<proc, run, todo, claimed, asked, now, retries, faults>>
        /\ edits' \in {edits, edits + 1}
    BY DEF UserStep, Create, Upsert, Pause, Resume, Remove, Edit
  <1>3. ProcOK' /\ RunOK' /\ QueueOK'
    BY <1>f DEF TypeInv, ProcOK, RunOK, QueueOK, Slot
  <1>4. CountOK'
    BY <1>f DEF TypeInv, CountOK
  <1>5. CASE Create(c)
    <2>1. PICK sched \in Schedules, pol \in Policies :
            row' = [row EXCEPT ![c] = [state |-> "present", active |-> TRUE, sched |-> sched,
                                       policy |-> pol, next |-> NextRunAt(sched, now),
                                       createdAt |-> now]]
      BY <1>5 DEF Create
    <2>2. [state |-> "present", active |-> TRUE, sched |-> sched, policy |-> pol,
           next |-> NextRunAt(sched, now), createdAt |-> now] \in RowType
      BY <1>0, <1>1, <1>2 DEF RowType
    <2>3. RowOK'
      BY <2>1, <2>2 DEF TypeInv, RowOK
    <2> QED
      BY <1>3, <1>4, <1>5, <2>3 DEF Create, TypeInv, CellsOK
  <1>6. CASE Upsert(c) \/ Pause(c) \/ Resume(c)
    <2>1. CellsOK'
      BY <1>6 DEF Upsert, Pause, Resume, Edit, TypeInv, CellsOK
    <2>2. PICK r \in RowType : row' = [row EXCEPT ![c] = r]
      <3>1. CASE Upsert(c)
        <4>1. PICK sched \in Schedules, pol \in Policies :
                row' = [row EXCEPT ![c].active = TRUE, ![c].sched = sched, ![c].policy = pol,
                                   ![c].next = NextRunAt(sched, now)]
          BY <3>1 DEF Upsert
        <4> DEFINE r == [row[c] EXCEPT !.active = TRUE, !.sched = sched, !.policy = pol,
                                       !.next = NextRunAt(sched, now)]
        <4>2. r \in RowType
          BY <1>0, <1>1, <1>2 DEF RowType
        <4>3. row' = [row EXCEPT ![c] = r]
          BY <4>1 DEF TypeInv, RowOK
        <4> QED
          BY <4>2, <4>3
      <3>2. CASE Pause(c)
        <4> DEFINE r == [row[c] EXCEPT !.active = FALSE, !.next = Null]
        <4>1. r \in RowType
          BY <1>0 DEF RowType
        <4>2. row' = [row EXCEPT ![c] = r]
          BY <3>2 DEF Pause, TypeInv, RowOK
        <4> QED
          BY <4>1, <4>2
      <3>3. CASE Resume(c)
        <4> DEFINE r == [row[c] EXCEPT !.active = TRUE, !.next = NextRunAt(row[c].sched, now)]
        <4>1. r \in RowType
          BY <1>0, <1>2 DEF RowType
        <4>2. row' = [row EXCEPT ![c] = r]
          BY <3>3 DEF Resume, TypeInv, RowOK
        <4> QED
          BY <4>1, <4>2
      <3> QED
        BY <1>6, <3>1, <3>2, <3>3
    <2>3. RowOK'
      BY <2>2 DEF TypeInv, RowOK
    <2> QED
      BY <1>3, <1>4, <2>1, <2>3 DEF TypeInv
  <1>7. CASE Remove(c)
    <2>1. [NoRow EXCEPT !.state = "gone"] \in RowType
      BY NullTypes DEF RowType
    <2>2. RowOK'
      BY <1>7, <2>1 DEF Remove, TypeInv, RowOK
    <2>3. CellsOK'
      BY <1>7 DEF Remove, Edit, TypeInv, CellsOK, OccStatuses
    <2> QED
      BY <1>3, <1>4, <2>2, <2>3 DEF TypeInv
  <1> QED
    BY <1>5, <1>6, <1>7 DEF UserStep

LEMMA RunStepType ==
  ASSUME TypeInv, NEW c \in Recs, NEW s \in Slots, RunStep(c, s)
  PROVE  TypeInv'
  <1>1. ProcOK' /\ RowOK'
    BY DEF RunStep, RetryAsk, RetryApply, BackoffEnds, CloseTask, ReopenTask, TypeInv,
           ProcOK, RowOK, Slot
  <1>2. CellsOK'
    <2>1. /\ UNCHANGED <<occ, made>>
          /\ UNCHANGED open \/ \E b \in BOOLEAN : open' = [open EXCEPT ![c][s] = b]
      BY DEF RunStep, RetryAsk, RetryApply, BackoffEnds, CloseTask, ReopenTask
    <2>2. ASSUME NEW b \in BOOLEAN, open' = [open EXCEPT ![c][s] = b]
          PROVE  open' \in [Recs -> [Slots -> BOOLEAN]]
      BY <2>2 DEF TypeInv, CellsOK
    <2> QED
      BY <2>1, <2>2 DEF TypeInv, CellsOK
  <1>f. /\ UNCHANGED <<now, todo, claimed, faults>>
        /\ edits' \in {edits, edits + 1}
        /\ retries' \in {retries, retries + 1}
        /\ \/ UNCHANGED asked
           \/ \E a \in AskType : asked' = [asked EXCEPT ![c][s] = a]
    BY DEF AskType, RunStep, RetryAsk, RetryApply, BackoffEnds, CloseTask, ReopenTask
  <1>3. CountOK' /\ QueueOK'
    BY <1>f DEF TypeInv, CountOK, QueueOK
  <1>4. RunOK'
    <2>1. /\ [status |-> "PENDING", attempts |-> 0, retryAt |-> "due"] \in RunType
          /\ [run[c][s] EXCEPT !.retryAt = "due"] \in RunType
      BY RunFacts DEF RunType, RunStatuses
    <2>2. CASE RetryApply(c, s) \/ BackoffEnds(c, s)
      BY <2>1, <2>2, SetRunOK DEF RetryApply, BackoffEnds
    <2> QED
      BY <2>2 DEF RunStep, RetryAsk, CloseTask, ReopenTask, TypeInv, RunOK
  <1> QED
    BY <1>1, <1>2, <1>3, <1>4 DEF TypeInv

LEMMA TickType ==
  ASSUME TypeInv, Tick
  PROVE  TypeInv'
  BY SlotFacts DEF Tick, TypeInv, RowOK, CellsOK, RunOK, ProcOK, QueueOK, CountOK, Slot

LEMMA StutterType ==
  ASSUME TypeInv, UNCHANGED vars
  PROVE  TypeInv'
  BY DEF vars, TypeInv, RowOK, CellsOK, RunOK, ProcOK, QueueOK, CountOK, Slot

LEMMA NextType ==
  ASSUME TypeInv, [Next]_vars
  PROVE  TypeInv'
  <1>1. ASSUME NEW w \in Workers, WorkerStep(w) \/ StatementFails(w) \/ Crash(w)
        PROVE  TypeInv'
    BY <1>1, PollType, SettleType, ReserveType, SkipType, CreateTaskType, LinkType, CatchType
       DEF WorkerStep, Generate
  <1> QED
    BY <1>1, UserType, RunStepType, TickType, StutterType DEF Next

\* Every reachable state is well typed: whatever is claimed, retried, removed or
\* interrupted, a worker only writes instants and rows that exist.
THEOREM TypeCorrect == Spec => []TypeOK
  <1>1. Init => TypeInv
    BY InitType
  <1>2. TypeInv /\ [Next]_vars => TypeInv'
    BY NextType
  <1>3. TypeInv => TypeOK
    BY TypeInvIsTypeOK
  <1> QED
    BY <1>1, <1>2, <1>3, PTL DEF Spec

(***************************************************************************)
(* The safety invariants of Recurrences: one task per occurrence, whatever *)
(* fails; and, as long as nobody edits the recurrence, no instant lost and *)
(* no overlap under SKIP_IF_OPEN.                                          *)
(***************************************************************************)

-----------------------------------------------------------------------------
(* The inductive invariant.  The worker that reserved an occurrence is the  *)
(* only one that writes it or creates its task; it stays so until it leaves *)
(* generateDueOccurrences, because the row of an occurrence only goes with  *)
(* its recurrence, which never comes back.                                  *)

\* The task of the reserved occurrence is still to be created.
Unmade == {"enqueue", "overlap", "create", "skip", "skipNext", "skipRun"}
Unskipped == {"enqueue", "overlap", "create", "link", "skip", "fail"}
\* The pointer still names the reserved instant.
Ahead == {"enqueue", "overlap", "create", "link", "skip", "skipNext"}

\* What the worker that reserved an occurrence knows of it.
Holds(v) ==
    /\ proc[v].pc \in Holding => row[Rec(v)].state = "gone" \/ Exists(Rec(v), Slot(v))
    /\ proc[v].pc \in Unmade => made[Rec(v)][Slot(v)] = 0
    /\ proc[v].pc \in Unskipped => occ[Rec(v)][Slot(v)] # "SKIPPED"
    /\ proc[v].pc = "link" => made[Rec(v)][Slot(v)] = 1

\* What an occurrence says of its task.
Cell(c, s) ==
    /\ made[c][s] <= 1
    /\ occ[c][s] = "SKIPPED" => made[c][s] = 0
    /\ occ[c][s] = "CREATED" => made[c][s] = 1
    /\ row[c].state # "present" => occ[c][s] = "NONE"
    /\ row[c].state # "gone" /\ made[c][s] > 0 => Exists(c, s)

Alone(v, w) ==
    v # w /\ proc[v].pc \in Holding /\ proc[w].pc \in Holding
        => ~(Rec(v) = Rec(w) /\ Slot(v) = Slot(w))

HoldInv == /\ \A v \in Workers : Holds(v)
           /\ \A c \in Recs, s \in Slots : Cell(c, s)
           /\ \A v, w \in Workers : Alone(v, w)

\* The pointer of a recurrence nobody edited.
Handled(c, s) == made[c][s] = 1 \/ occ[c][s] = "SKIPPED"
Pointer(c) ==
    /\ row[c].state # "gone"
    /\ row[c].state = "absent" => row[c].sched = {} /\ row[c].next = Null
    /\ row[c].next # Null => row[c].next \in row[c].sched /\ row[c].next > row[c].createdAt
    /\ \A s \in row[c].sched :
         s > row[c].createdAt /\ (row[c].next = Null \/ s < row[c].next) => Handled(c, s)

Counted(c, s) == occ[c][s] = "CREATED" /\ open[c][s]
Exclusive(c) ==
    row[c].policy = "SKIP_IF_OPEN" => \A s, t \in Slots : Counted(c, s) /\ Counted(c, t) => s = t

\* A worker's snapshot is behind the pointer or level with it; the one that
\* holds the pointer's occurrence alone will move it.
Behind(v) ==
    /\ proc[v].pc \in Reserved =>
         /\ row[Rec(v)].state = "present"
         /\ proc[v].snap.sched = row[Rec(v)].sched
         /\ proc[v].snap.policy = row[Rec(v)].policy
         /\ Slot(v) \in row[Rec(v)].sched
         /\ Slot(v) > row[Rec(v)].createdAt
         /\ row[Rec(v)].next = Null \/ Slot(v) <= row[Rec(v)].next
    /\ proc[v].pc \in Ahead => row[Rec(v)].next = Slot(v)
    /\ proc[v].pc = "skipNext" => occ[Rec(v)][Slot(v)] = "SKIPPED"
    /\ proc[v].pc \in {"create", "link"} /\ row[Rec(v)].policy = "SKIP_IF_OPEN"
         => \A t \in Slots : ~Counted(Rec(v), t)

InStep == /\ \A c \in Recs : Pointer(c) /\ Exclusive(c)
          /\ \A v \in Workers : Behind(v)
PointerInv == edits = 0 => InStep

-----------------------------------------------------------------------------
(* How the steps move. *)

OthersStay(w) == \A v \in Workers : v # w => proc'[v] = proc[v]

\* w leaves generateDueOccurrences, or goes on with nothing new to write.
Calm(w) ==
    \/ proc'[w].pc \notin Holding
    \/ /\ proc[w].pc \in Holding
       /\ proc'[w].rec = proc[w].rec /\ proc'[w].snap = proc[w].snap
       /\ proc'[w].pc \in Unmade => proc[w].pc \in Unmade
       /\ proc'[w].pc \in Unskipped => proc[w].pc \in Unskipped
       /\ proc'[w].pc # "link"

\* No recurrence goes, and none that went comes back.
RowsCalm == \A c \in Recs :
    \/ row'[c].state = row[c].state
    \/ row[c].state = "absent" /\ row'[c].state = "present"

LEMMA GotoFrame ==
  ASSUME TypeInv, NEW w \in Workers, NEW pc, Goto(w, pc)
  PROVE  /\ OthersStay(w)
         /\ proc'[w].pc = pc /\ proc'[w].rec = proc[w].rec /\ proc'[w].snap = proc[w].snap
  BY DEF TypeInv, ProcOK, Goto, OthersStay, Place

LEMMA BackFrame ==
  ASSUME TypeInv, NEW w \in Workers, Returns(w) \/ Raises(w)
  PROVE  OthersStay(w) /\ proc'[w].pc \notin Reserved
  BY DEF TypeInv, ProcOK, Returns, Raises, Leaves, OthersStay, Place, Reserved, Holding

LEMMA RunDoneFrame ==
  ASSUME TypeInv, NEW w \in Workers, RunDone(w)
  PROVE  OthersStay(w) /\ proc'[w].pc \notin Reserved
  <1>1. \E p \in Place : p.pc \in {"idle", "runs"} /\ proc' = [proc EXCEPT ![w] = p]
    <2>1. /\ [Nowhere EXCEPT !.pc = "runs"] \in Place
          /\ [Nowhere EXCEPT !.pc = "runs"].pc = "runs"
      BY NullTypes DEF Place, PCs
    <2> QED
      BY <2>1, NullTypes DEF RunDone
  <1> QED
    BY <1>1 DEF TypeInv, ProcOK, OthersStay, Reserved, Holding

LEMMA SetNextFrame ==
  ASSUME TypeInv, NEW c \in Recs, NEW n, SetNext(c, n)
  PROVE  /\ RowsCalm
         /\ \A d \in Recs : d # c => row'[d] = row[d]
         /\ row'[c].next = n
         /\ row'[c].state = row[c].state /\ row'[c].sched = row[c].sched
         /\ row'[c].policy = row[c].policy /\ row'[c].createdAt = row[c].createdAt
  <1>1. row[c] \in RowType
    BY DEF TypeInv, RowOK
  <1>2. row' = [row EXCEPT ![c] = [row[c] EXCEPT !.next = n]]
    BY DEF SetNext, TypeInv, RowOK
  <1>3. row'[c] = [row[c] EXCEPT !.next = n]
    BY <1>2 DEF TypeInv, RowOK
  <1>4. \A d \in Recs : d # c => row'[d] = row[d]
    BY <1>2 DEF TypeInv, RowOK
  <1>5. row'[c].state = row[c].state
    BY <1>1, <1>3 DEF RowType
  <1> QED
    BY <1>1, <1>3, <1>4, <1>5 DEF RowType, RowsCalm

LEMMA SetOccFrame ==
  ASSUME TypeInv, NEW c \in Recs, NEW s \in Slots, NEW st, SetOcc(c, s, st)
  PROVE  /\ occ'[c][s] = st
         /\ \A d \in Recs, t \in Slots : ~(d = c /\ t = s) => occ'[d][t] = occ[d][t]
  BY DEF TypeInv, CellsOK, SetOcc

\* Steps of a worker that leave occurrences and tasks alone.
Quiet(w) == \/ Poll(w) \/ StartRecurrence(w) \/ ClaimRuns(w) \/ StartRun(w)
            \/ Succeed(w) \/ Fail(w) \/ MarkFailed(w)
            \/ Read(w) \/ Enqueue(w) \/ Overlap(w) \/ SkipNext(w) \/ SkipRun(w) \/ FailRun(w)
            \/ StatementFails(w) \/ Crash(w)

LEMMA QuietFrame ==
  ASSUME TypeInv, NEW w \in Workers, Quiet(w)
  PROVE  UNCHANGED <<occ, made>> /\ RowsCalm /\ OthersStay(w) /\ Calm(w)
  <1>1. UNCHANGED <<occ, made>>
    BY DEF Quiet, Poll, StartRecurrence, ClaimRuns, StartRun, Succeed, Fail, MarkFailed,
           Read, Enqueue, Overlap, SkipNext, SkipRun, FailRun, StatementFails, Crash
  <1>2. RowsCalm
    <2>1. UNCHANGED row => RowsCalm
      BY DEF RowsCalm
    <2>2. CASE SkipNext(w)
      <3>1. SetNext(Rec(w), Following(w)) \/ UNCHANGED row
        BY <2>2 DEF SkipNext
      <3>2. SetNext(Rec(w), Following(w)) => RowsCalm
        BY PlaceFacts, SetNextFrame
      <3> QED
        BY <2>1, <3>1, <3>2
    <2> QED
      BY <2>1, <2>2 DEF Quiet, Poll, StartRecurrence, ClaimRuns, StartRun, Succeed, Fail,
           MarkFailed, Read, Enqueue, Overlap, SkipRun, FailRun, StatementFails, Crash
  <1>3. Returns(w) \/ Raises(w) \/ RunDone(w) => OthersStay(w) /\ Calm(w)
    BY BackFrame, RunDoneFrame DEF Calm, Reserved
  <1> HIDE DEF Calm
  <1>a. OthersStay(w) /\ Calm(w)
    <2>1. CASE Poll(w) \/ StartRecurrence(w) \/ ClaimRuns(w) \/ StartRun(w) \/ Crash(w)
      <3>1. CASE Crash(w)
        BY <3>1, NullTypes DEF Crash, TypeInv, ProcOK, OthersStay, Calm, Holding
      <3>2. CASE Poll(w)
        BY <3>2 DEF Poll, TypeInv, ProcOK, Place, OthersStay, Calm, Holding
      <3>3. CASE StartRecurrence(w)
        BY <3>3 DEF StartRecurrence, TypeInv, ProcOK, Place, OthersStay, Calm, Holding
      <3>4. CASE StartRun(w)
        BY <3>4 DEF StartRun, TypeInv, ProcOK, Place, OthersStay, Calm, Holding
      <3>5. CASE ClaimRuns(w)
        <4>1. [Nowhere EXCEPT !.pc = "runs"].pc = "runs"
          BY NullTypes DEF Place
        <4>2. PICK p \in {Nowhere, [Nowhere EXCEPT !.pc = "runs"]} :
                proc' = [proc EXCEPT ![w] = p]
          BY <3>5 DEF ClaimRuns
        <4>3. p.pc \notin Holding
          BY <4>1, <4>2, NullTypes DEF Holding
        <4> QED
          BY <4>2, <4>3 DEF TypeInv, ProcOK, OthersStay, Calm
      <3> QED
        BY <2>1, <3>1, <3>2, <3>3, <3>4, <3>5
    <2>2. CASE Succeed(w) \/ Fail(w) \/ MarkFailed(w)
      <3>1. ASSUME NEW pc \in {"failed", "markDead", "markFailed"}, Goto(w, pc)
            PROVE  OthersStay(w) /\ Calm(w)
        BY <3>1, GotoFrame DEF Calm, Holding
      <3> QED
        BY <1>3, <2>2, <3>1 DEF Succeed, Fail, MarkFailed
    <2>3. CASE Read(w)
      <3>1. CASE Due(row[Rec(w)], proc[w].now)
        BY <2>3, <3>1 DEF Read, TypeInv, ProcOK, Place, OthersStay, Calm, Holding
      <3> QED
        BY <1>3, <2>3, <3>1 DEF Read
    <2>4. CASE Enqueue(w) \/ Overlap(w) \/ SkipNext(w)
      <3>1. ASSUME Goto(w, "overlap") \/ Goto(w, "create"), proc[w].pc = "enqueue"
            PROVE  OthersStay(w) /\ Calm(w)
        BY <3>1, GotoFrame DEF Calm, Holding, Unmade, Unskipped
      <3>2. ASSUME Goto(w, "skip") \/ Goto(w, "create"), proc[w].pc = "overlap"
            PROVE  OthersStay(w) /\ Calm(w)
        BY <3>2, GotoFrame DEF Calm, Holding, Unmade, Unskipped
      <3>3. ASSUME Goto(w, "skipRun"), proc[w].pc = "skipNext"
            PROVE  OthersStay(w) /\ Calm(w)
        BY <3>3, GotoFrame DEF Calm, Holding, Unmade, Unskipped
      <3> QED
        BY <1>3, <2>4, <3>1, <3>2, <3>3 DEF Enqueue, Overlap, SkipNext, At
    <2>5. CASE SkipRun(w) \/ FailRun(w) \/ StatementFails(w)
      BY <1>3, <2>5 DEF SkipRun, FailRun, StatementFails
    <2> QED
      BY <2>1, <2>2, <2>3, <2>4, <2>5 DEF Quiet
  <1> QED
    BY <1>1, <1>2, <1>a

-----------------------------------------------------------------------------
(* HoldInv is inductive. *)

LEMMA HoldInit == Init => HoldInv
  <1> SUFFICES ASSUME Init PROVE HoldInv
    OBVIOUS
  <1>1. \A v \in Workers : proc[v].pc = "idle"
    BY NullTypes DEF Init
  <1> QED
    BY <1>1 DEF Init, HoldInv, Holds, Cell, Alone, Holding, Unmade, Unskipped

LEMMA CalmHold ==
  ASSUME TypeInv, HoldInv, NEW w \in Workers,
         UNCHANGED <<occ, made>>, RowsCalm, OthersStay(w), Calm(w)
  PROVE  HoldInv'
  <1>1. \A c \in Recs, s \in Slots : Cell(c, s)'
    BY DEF HoldInv, Cell, RowsCalm, Exists
  <1>2. \A v \in Workers : Rec(v) \in Recs /\ (proc[v].pc \in Reserved => Slot(v) \in Slots)
    BY PlaceFacts
  <1>3. ASSUME NEW v \in Workers PROVE Holds(v)'
    <2>1. CASE v # w
      BY <1>2, <2>1 DEF OthersStay, HoldInv, Holds, RowsCalm, Rec, Slot, Exists
    <2>2. CASE v = w /\ proc'[w].pc \notin Holding
      BY <2>2 DEF Holds, Holding, Unmade, Unskipped
    <2>3. CASE v = w /\ proc'[w].pc \in Holding
      BY <1>2, <2>3 DEF Calm, HoldInv, Holds, RowsCalm, Rec, Slot, Exists
    <2> QED
      BY <2>1, <2>2, <2>3
  <1>4. \A v \in Workers : proc'[v].pc \in Holding =>
           proc[v].pc \in Holding /\ Rec(v)' = Rec(v) /\ Slot(v)' = Slot(v)
    BY DEF OthersStay, Calm, Rec, Slot
  <1>5. \A v, u \in Workers : Alone(v, u)'
    BY <1>4 DEF HoldInv, Alone
  <1> QED
    BY <1>1, <1>3, <1>5 DEF HoldInv

\* A step of w that writes only the occurrence it alone holds.
LEMMA CellHold ==
  ASSUME TypeInv, HoldInv, NEW w \in Workers, proc[w].pc \in Reserved,
         NEW c \in Recs, NEW s \in Slots, c = Rec(w), s = Slot(w),
         RowsCalm, OthersStay(w), Holds(w)', Cell(c, s)',
         \A d \in Recs, t \in Slots : ~(d = c /\ t = s) =>
            occ'[d][t] = occ[d][t] /\ made'[d][t] = made[d][t],
         \A v \in Workers : v # w /\ proc[v].pc \in Holding =>
            ~(Rec(v) = c /\ Slot(v) = s),
         \/ proc'[w].pc \notin Holding
         \/ proc'[w].rec = proc[w].rec /\ proc'[w].snap = proc[w].snap
  PROVE  HoldInv'
  <1>1. \A v \in Workers : Rec(v) \in Recs /\ (proc[v].pc \in Reserved => Slot(v) \in Slots)
    BY PlaceFacts
  <1>2. ASSUME NEW d \in Recs, NEW t \in Slots PROVE Cell(d, t)'
    <2>1. CASE d = c /\ t = s
      BY <2>1
    <2>2. CASE ~(d = c /\ t = s)
      BY <2>2 DEF HoldInv, Cell, RowsCalm, Exists
    <2> QED
      BY <2>1, <2>2
  <1>3. ASSUME NEW v \in Workers PROVE Holds(v)'
    <2>1. CASE v # w /\ proc[v].pc \in Holding
      <3>1. /\ Rec(v)' = Rec(v) /\ Slot(v)' = Slot(v) /\ proc'[v].pc = proc[v].pc
            /\ occ'[Rec(v)][Slot(v)] = occ[Rec(v)][Slot(v)]
            /\ made'[Rec(v)][Slot(v)] = made[Rec(v)][Slot(v)]
        BY <1>1, <2>1 DEF OthersStay, Rec, Slot, Reserved
      <3> QED
        BY <1>1, <2>1, <3>1 DEF HoldInv, Holds, RowsCalm, Exists
    <2>2. CASE v # w /\ proc[v].pc \notin Holding
      BY <2>2 DEF OthersStay, Holds, Holding, Unmade, Unskipped
    <2> QED
      BY <2>1, <2>2
  <1>4. ASSUME NEW v \in Workers, NEW u \in Workers PROVE Alone(v, u)'
    <2>1. \A x \in Workers : x # w => Rec(x)' = Rec(x) /\ Slot(x)' = Slot(x)
                                     /\ proc'[x].pc = proc[x].pc
      BY DEF OthersStay, Rec, Slot
    <2>2. proc'[w].pc \in Holding => Rec(w)' = Rec(w) /\ Slot(w)' = Slot(w)
      BY DEF Rec, Slot
    <2>3. CASE v # w /\ u # w
      BY <2>1, <2>3 DEF HoldInv, Alone
    <2>4. CASE v = w \/ u = w
      BY <2>1, <2>2, <2>4 DEF Alone
    <2> QED
      BY <2>3, <2>4
  <1> QED
    BY <1>2, <1>3, <1>4 DEF HoldInv

\* What a holder knows.
LEMMA HolderFacts ==
  ASSUME TypeInv, HoldInv, NEW w \in Workers, proc[w].pc \in Holding
  PROVE  /\ Rec(w) \in Recs /\ Slot(w) \in Slots
         /\ Holds(w) /\ Cell(Rec(w), Slot(w))
         /\ \A v \in Workers : v # w /\ proc[v].pc \in Holding =>
              ~(Rec(v) = Rec(w) /\ Slot(v) = Slot(w))
  <1>1. Rec(w) \in Recs /\ Slot(w) \in Slots
    BY PlaceFacts DEF Reserved
  <1> QED
    BY <1>1 DEF HoldInv, Alone

LEMMA ReserveHold ==
  ASSUME TypeInv, HoldInv, NEW w \in Workers, Reserve(w)
  PROVE  HoldInv'
  <1>0. proc[w].pc = "reserve" /\ Rec(w) \in Recs /\ Slot(w) \in Slots
    BY PlaceFacts DEF Reserve, At, Reserved
  <1>1. UNCHANGED <<row, made>> /\ RowsCalm
    BY DEF Reserve, RowsCalm
  <1>2. CASE UNCHANGED occ /\ (Returns(w) \/ Raises(w))
    BY <1>1, <1>2, BackFrame, CalmHold DEF Calm, Reserved
  <1>3. CASE /\ ~Exists(Rec(w), Slot(w)) /\ row[Rec(w)].state = "present"
             /\ SetOcc(Rec(w), Slot(w), "PENDING") /\ Goto(w, "enqueue")
    <2>1. /\ OthersStay(w) /\ proc'[w].pc = "enqueue"
          /\ proc'[w].rec = proc[w].rec /\ proc'[w].snap = proc[w].snap
      BY <1>3, GotoFrame
    <2>2. /\ occ'[Rec(w)][Slot(w)] = "PENDING"
          /\ \A d \in Recs, t \in Slots : ~(d = Rec(w) /\ t = Slot(w)) => occ'[d][t] = occ[d][t]
      BY <1>0, <1>3, SetOccFrame
    <2>3. made[Rec(w)][Slot(w)] = 0
      <3>1. ~(made[Rec(w)][Slot(w)] > 0)
        BY <1>0, <1>3 DEF HoldInv, Cell
      <3> QED
        BY <1>0, <3>1 DEF TypeInv, CellsOK
    <2>4. Rec(w)' = Rec(w) /\ Slot(w)' = Slot(w)
      BY <2>1 DEF Rec, Slot
    <2>5. Holds(w)'
      BY <1>1, <2>1, <2>2, <2>3, <2>4 DEF Holds, Exists
    <2>6. ASSUME NEW c \in Recs, NEW s \in Slots, c = Rec(w), s = Slot(w) PROVE Cell(c, s)'
      BY <2>6, <1>1, <1>3, <2>2, <2>3, <2>4 DEF Cell, Exists
    <2>7. \A v \in Workers : v # w /\ proc[v].pc \in Holding =>
             ~(Rec(v) = Rec(w) /\ Slot(v) = Slot(w))
      BY <1>3 DEF HoldInv, Holds
    <2> QED
      BY <1>0, <1>1, <2>1, <2>2, <2>4, <2>5, <2>6, <2>7, CellHold DEF Reserved
  <1> QED
    BY <1>2, <1>3 DEF Reserve

LEMMA WriteHold ==
  ASSUME TypeInv, HoldInv, NEW w \in Workers, SkipOccurrence(w) \/ FailOccurrence(w)
  PROVE  HoldInv'
  <1>0. proc[w].pc \in Holding /\ proc[w].pc \in {"skip", "fail"}
    BY DEF SkipOccurrence, FailOccurrence, At, Holding
  <1>1. UNCHANGED <<row, made>> /\ RowsCalm
    BY DEF SkipOccurrence, FailOccurrence, RowsCalm
  <1>2. CASE UNCHANGED occ /\ Raises(w)
    BY <1>1, <1>2, BackFrame, CalmHold DEF Calm, Reserved
  <1>3. CASE \E st \in {"SKIPPED", "FAILED"}, pc \in {"skipNext", "failRun"} :
               /\ Exists(Rec(w), Slot(w)) /\ SetOcc(Rec(w), Slot(w), st) /\ Goto(w, pc)
               /\ st = "SKIPPED" => proc[w].pc = "skip"
               /\ pc = "skipNext" => proc[w].pc = "skip"
    <2>1. PICK st \in {"SKIPPED", "FAILED"}, pc \in {"skipNext", "failRun"} :
               /\ Exists(Rec(w), Slot(w)) /\ SetOcc(Rec(w), Slot(w), st) /\ Goto(w, pc)
               /\ st = "SKIPPED" => proc[w].pc = "skip"
               /\ pc = "skipNext" => proc[w].pc = "skip"
      BY <1>3
    <2> DEFINE c == Rec(w)
               s == Slot(w)
    <2>2. /\ c \in Recs /\ s \in Slots
          /\ Holds(w) /\ Cell(c, s)
          /\ \A v \in Workers : v # w /\ proc[v].pc \in Holding => ~(Rec(v) = c /\ Slot(v) = s)
      BY <1>0, HolderFacts
    <2>3. /\ OthersStay(w) /\ proc'[w].pc = pc
          /\ proc'[w].rec = proc[w].rec /\ proc'[w].snap = proc[w].snap
      BY <2>1, GotoFrame
    <2>4. /\ occ'[c][s] = st
          /\ \A d \in Recs, t \in Slots : ~(d = c /\ t = s) => occ'[d][t] = occ[d][t]
      BY <2>1, <2>2, SetOccFrame
    <2>5. Rec(w)' = Rec(w) /\ Slot(w)' = Slot(w)
      BY <2>3 DEF Rec, Slot
    <2>6. Holds(w)'
      BY <1>1, <2>1, <2>2, <2>3, <2>4, <2>5 DEF Holds, Exists, Unmade, Unskipped
    <2>7. row[c].state = "present" \/ row[c].state = "gone" \/ row[c].state = "absent"
      BY <2>2 DEF TypeInv, RowOK, RowType
    <2>8. ASSUME NEW d \in Recs, NEW t \in Slots, d = c, t = s PROVE Cell(d, t)'
      BY <1>1, <2>1, <2>2, <2>4, <2>7, <2>8 DEF Cell, Holds, Exists, Unmade
    <2> QED
      BY <1>0, <1>1, <2>2, <2>3, <2>4, <2>6, <2>8, CellHold DEF Reserved
  <1> QED
    BY <1>2, <1>3 DEF SkipOccurrence, FailOccurrence, At

LEMMA CreateHold ==
  ASSUME TypeInv, HoldInv, NEW w \in Workers, CreateTask(w)
  PROVE  HoldInv'
  <1>0. proc[w].pc = "create" /\ proc[w].pc \in Holding
    BY DEF CreateTask, At, Holding
  <1>1. UNCHANGED <<row, occ>> /\ RowsCalm
    BY DEF CreateTask, RowsCalm
  <1>2. CASE UNCHANGED made /\ Goto(w, "fail")
    BY <1>0, <1>1, <1>2, GotoFrame, CalmHold DEF Calm, Unmade, Unskipped
  <1>3. CASE /\ made' = [made EXCEPT ![Rec(w)][Slot(w)] = @ + 1]
             /\ Goto(w, "link") \/ Goto(w, "fail")
    <2> DEFINE c == Rec(w)
               s == Slot(w)
    <2>1. /\ c \in Recs /\ s \in Slots
          /\ Holds(w) /\ Cell(c, s)
          /\ \A v \in Workers : v # w /\ proc[v].pc \in Holding => ~(Rec(v) = c /\ Slot(v) = s)
      BY <1>0, HolderFacts
    <2>2. /\ OthersStay(w) /\ proc'[w].pc \in {"link", "fail"}
          /\ proc'[w].rec = proc[w].rec /\ proc'[w].snap = proc[w].snap
      BY <1>3, GotoFrame
    <2>3. made[c][s] = 0
      BY <1>0, <2>1 DEF Holds, Unmade
    <2>4. /\ made'[c][s] = 1
          /\ \A d \in Recs, t \in Slots : ~(d = c /\ t = s) => made'[d][t] = made[d][t]
      BY <1>3, <2>1, <2>3 DEF TypeInv, CellsOK
    <2>5. Rec(w)' = Rec(w) /\ Slot(w)' = Slot(w)
      BY <2>2 DEF Rec, Slot
    <2>6. Holds(w)'
      BY <1>0, <1>1, <2>1, <2>2, <2>4, <2>5 DEF Holds, Exists, Unmade, Unskipped
    <2>7. ASSUME NEW d \in Recs, NEW t \in Slots, d = c, t = s PROVE Cell(d, t)'
      BY <1>0, <1>1, <2>1, <2>4, <2>7 DEF Cell, Holds, Exists, Unskipped
    <2> QED
      BY <1>0, <1>1, <2>1, <2>2, <2>4, <2>6, <2>7, CellHold DEF Reserved
  <1> QED
    BY <1>2, <1>3 DEF CreateTask

LEMMA LinkHold ==
  ASSUME TypeInv, HoldInv, NEW w \in Workers, Link(w)
  PROVE  HoldInv'
  <1>0. proc[w].pc = "link" /\ proc[w].pc \in Holding
    BY DEF Link, At, Holding
  <1>1. UNCHANGED made
    BY DEF Link
  <1>2. CASE UNCHANGED <<row, occ>> /\ Goto(w, "fail")
    <2>1. RowsCalm
      BY <1>2 DEF RowsCalm
    <2> QED
      BY <1>0, <1>1, <1>2, <2>1, GotoFrame, CalmHold DEF Calm, Unmade, Unskipped
  <1>3. CASE /\ Exists(Rec(w), Slot(w))
             /\ SetOcc(Rec(w), Slot(w), "CREATED") /\ SetNext(Rec(w), Following(w))
             /\ Returns(w) \/ Goto(w, "fail")
    <2> DEFINE c == Rec(w)
               s == Slot(w)
    <2>1. /\ c \in Recs /\ s \in Slots
          /\ Holds(w) /\ Cell(c, s)
          /\ \A v \in Workers : v # w /\ proc[v].pc \in Holding => ~(Rec(v) = c /\ Slot(v) = s)
      BY <1>0, HolderFacts
    <2>2. /\ OthersStay(w)
          /\ \/ proc'[w].pc \notin Holding
             \/ /\ proc'[w].pc = "fail"
                /\ proc'[w].rec = proc[w].rec /\ proc'[w].snap = proc[w].snap
      BY <1>3, GotoFrame, BackFrame DEF Reserved
    <2>3. /\ occ'[c][s] = "CREATED"
          /\ \A d \in Recs, t \in Slots : ~(d = c /\ t = s) => occ'[d][t] = occ[d][t]
      BY <1>3, <2>1, SetOccFrame
    <2>4. RowsCalm /\ row'[c].state = row[c].state
      BY <1>3, <2>1, SetNextFrame
    <2>5. made[c][s] = 1
      BY <1>0, <2>1 DEF Holds
    <2>6. Holds(w)'
      <3>1. CASE proc'[w].pc \notin Holding
        BY <3>1 DEF Holds, Holding, Unmade, Unskipped
      <3>2. CASE proc'[w].pc = "fail" /\ Rec(w)' = Rec(w) /\ Slot(w)' = Slot(w)
        BY <2>3, <3>2 DEF Holds, Exists, Unmade
      <3> QED
        BY <2>2, <3>1, <3>2 DEF Rec, Slot
    <2>7. ASSUME NEW d \in Recs, NEW t \in Slots, d = c, t = s PROVE Cell(d, t)'
      BY <1>1, <1>3, <2>1, <2>3, <2>4, <2>5, <2>7 DEF Cell, Exists
    <2> QED
      BY <1>0, <1>1, <2>1, <2>2, <2>3, <2>4, <2>6, <2>7, CellHold DEF Reserved
  <1> QED
    BY <1>2, <1>3 DEF Link

\* Steps that move no worker.
LEMMA StillHold ==
  ASSUME TypeInv, HoldInv, UNCHANGED <<occ, made, proc>>, RowsCalm
  PROVE  HoldInv'
  <1>1. \A v \in Workers : Rec(v) \in Recs /\ (proc[v].pc \in Reserved => Slot(v) \in Slots)
    BY PlaceFacts
  <1>2. \A c \in Recs, s \in Slots : Cell(c, s)'
    BY DEF HoldInv, Cell, RowsCalm, Exists
  <1>3. \A v \in Workers : Holds(v)'
    BY <1>1 DEF HoldInv, Holds, RowsCalm, Rec, Slot, Exists
  <1>4. \A v, u \in Workers : Alone(v, u)'
    BY DEF HoldInv, Alone, Rec, Slot
  <1> QED
    BY <1>2, <1>3, <1>4 DEF HoldInv

LEMMA UserHold ==
  ASSUME TypeInv, HoldInv, NEW c \in Recs, UserStep(c)
  PROVE  HoldInv'
  <1>1. UNCHANGED <<made, proc>>
    BY DEF UserStep, Create, Upsert, Pause, Resume, Remove, Edit
  <1>2. CASE Create(c) \/ Upsert(c) \/ Pause(c) \/ Resume(c)
    <2>1. UNCHANGED occ
      BY <1>2 DEF Create, Upsert, Pause, Resume
    <2>2. RowsCalm
      <3>1. row[c] \in RowType
        BY DEF TypeInv, RowOK
      <3>2. CASE Create(c)
        BY <3>2 DEF Create, TypeInv, RowOK, RowsCalm
      <3>3. CASE Upsert(c)
        BY <3>1, <3>3 DEF Upsert, TypeInv, RowOK, RowType, RowsCalm
      <3>4. CASE Pause(c) \/ Resume(c)
        BY <3>1, <3>4 DEF Pause, Resume, TypeInv, RowOK, RowType, RowsCalm
      <3> QED
        BY <1>2, <3>2, <3>3, <3>4
    <2> QED
      BY <1>1, <2>1, <2>2, StillHold
  <1>3. CASE Remove(c)
    <2>1. /\ row'[c].state = "gone"
          /\ \A d \in Recs : d # c => row'[d] = row[d]
          /\ \A s \in Slots : occ'[c][s] = "NONE"
          /\ \A d \in Recs : d # c => occ'[d] = occ[d]
      BY <1>3, NullTypes DEF Remove, TypeInv, RowOK, CellsOK, RowType
    <2>2. row[c].state = "present"
      BY <1>3 DEF Remove, Edit
    <2>3. \A v \in Workers : Rec(v) \in Recs /\ (proc[v].pc \in Reserved => Slot(v) \in Slots)
      BY PlaceFacts
    <2>4. \A d \in Recs, s \in Slots : Cell(d, s)'
      BY <1>1, <2>1 DEF HoldInv, Cell, Exists
    <2>5. ASSUME NEW v \in Workers PROVE Holds(v)'
      <3>1. CASE Rec(v) = c
        BY <1>1, <2>1, <2>3, <3>1 DEF HoldInv, Holds, Exists, Rec, Slot, Unskipped, Reserved, Holding
      <3>2. CASE Rec(v) # c
        BY <1>1, <2>1, <2>3, <3>2 DEF HoldInv, Holds, Exists, Rec, Slot
      <3> QED
        BY <3>1, <3>2
    <2>6. \A v, u \in Workers : Alone(v, u)'
      BY <1>1 DEF HoldInv, Alone, Rec, Slot
    <2> QED
      BY <2>4, <2>5, <2>6 DEF HoldInv
  <1> QED
    BY <1>2, <1>3 DEF UserStep

LEMMA NextHold ==
  ASSUME TypeInv, HoldInv, [Next]_vars
  PROVE  HoldInv'
  <1>1. ASSUME NEW w \in Workers, WorkerStep(w) \/ StatementFails(w) \/ Crash(w)
        PROVE  HoldInv'
    <2>1. CASE Quiet(w)
      BY <2>1, QuietFrame, CalmHold
    <2> QED
      BY <1>1, <2>1, ReserveHold, WriteHold, CreateHold, LinkHold DEF WorkerStep, Generate, Quiet
  <1>2. ASSUME NEW c \in Recs, NEW s \in Slots, RunStep(c, s)
        PROVE  HoldInv'
    <2>1. UNCHANGED <<row, occ, made, proc>>
      BY <1>2 DEF RunStep, RetryAsk, RetryApply, BackoffEnds, CloseTask, ReopenTask
    <2> QED
      BY <2>1, StillHold DEF RowsCalm
  <1>3. CASE Tick \/ UNCHANGED vars
    BY <1>3, StillHold DEF Tick, vars, RowsCalm
  <1> QED
    BY <1>1, <1>2, <1>3, UserHold DEF Next

\* However many workers generate, crash and retry, an occurrence gets one task
\* at most, and none if it was skipped.
THEOREM OneTask == Spec => []OneTaskPerOccurrence
  <1>1. Init => TypeInv /\ HoldInv
    BY InitType, HoldInit
  <1>2. TypeInv /\ HoldInv /\ [Next]_vars => (TypeInv /\ HoldInv)'
    BY NextType, NextHold
  <1>3. HoldInv => OneTaskPerOccurrence
    BY DEF HoldInv, Cell, OneTaskPerOccurrence
  <1> QED
    BY <1>1, <1>2, <1>3, PTL DEF Spec

-----------------------------------------------------------------------------
(* PointerInv is inductive. *)

LEMMA PointerInit == Init => PointerInv
  <1> SUFFICES ASSUME Init PROVE InStep
    BY DEF PointerInv
  <1>1. \A v \in Workers : proc[v].pc = "idle"
    BY NullTypes DEF Init
  <1>2. \A c \in Recs : row[c] = NoRow
    BY DEF Init
  <1>3. \A c \in Recs : Pointer(c)
    BY <1>2 DEF Pointer, NoRow
  <1>4. \A c \in Recs : Exclusive(c)
    BY DEF Init, Exclusive, Counted
  <1>5. \A v \in Workers : Behind(v)
    BY <1>1 DEF Behind, Reserved, Holding, Ahead
  <1> QED
    BY <1>3, <1>4, <1>5 DEF InStep

LEMMA WorkerFacts ==
  ASSUME TypeInv
  PROVE  \A v \in Workers : Rec(v) \in Recs /\ (proc[v].pc \in Reserved => Slot(v) \in Slots)
  BY PlaceFacts

\* Outside generateDueOccurrences there is nothing to be behind with.
LEMMA OutsideBehind ==
  ASSUME NEW w \in Workers, proc'[w].pc \notin Reserved
  PROVE  Behind(w)'
  BY DEF Behind, Reserved, Holding, Ahead

\* A step of w that writes no occurrence and no recurrence.
LEMMA CalmInStep ==
  ASSUME TypeInv, InStep, NEW w \in Workers,
         UNCHANGED <<row, occ, made, open>>, OthersStay(w), Behind(w)'
  PROVE  InStep'
  <1>1. \A c \in Recs : Pointer(c)' /\ Exclusive(c)'
    BY DEF InStep, Pointer, Exclusive, Handled, Counted
  <1>2. ASSUME NEW v \in Workers PROVE Behind(v)'
    BY DEF InStep, OthersStay, Behind, Rec, Slot, Counted
  <1> QED
    BY <1>1, <1>2 DEF InStep

\* A step of w that writes only its own occurrence or the task of it.
LEMMA CellInStep ==
  ASSUME TypeInv, InStep, NEW w \in Workers, NEW c \in Recs, NEW s \in Slots,
         c = Rec(w), s = Slot(w), UNCHANGED row, OthersStay(w), Behind(w)',
         \A d \in Recs, t \in Slots : ~(d = c /\ t = s) =>
            occ'[d][t] = occ[d][t] /\ made'[d][t] = made[d][t] /\ open'[d][t] = open[d][t],
         Handled(c, s) => Handled(c, s)', Counted(c, s)' => Counted(c, s),
         \A v \in Workers : v # w /\ proc[v].pc \in Holding => ~(Rec(v) = c /\ Slot(v) = s)
  PROVE  InStep'
  <1>1. \A d \in Recs, t \in Slots : /\ Handled(d, t) => Handled(d, t)'
                                     /\ Counted(d, t)' => Counted(d, t)
    BY DEF Handled, Counted
  <1>2. \A d \in Recs : row[d].sched \subseteq Slots
    BY DEF TypeInv, RowOK, RowType
  <1>3. \A d \in Recs : Pointer(d)' /\ Exclusive(d)'
    <2> TAKE d \in Recs
    <2>1. Pointer(d)'
      BY <1>1, <1>2 DEF InStep, Pointer
    <2>2. Exclusive(d)'
      BY <1>1 DEF InStep, Exclusive
    <2> QED
      BY <2>1, <2>2
  <1>4. ASSUME NEW v \in Workers PROVE Behind(v)'
    <2>1. CASE v # w
      <3>1. /\ proc'[v] = proc[v] /\ Rec(v)' = Rec(v) /\ Slot(v)' = Slot(v) /\ Rec(v) \in Recs
            /\ Behind(v)
        BY <2>1, WorkerFacts DEF OthersStay, Rec, Slot, InStep
      <3>2. proc[v].pc = "skipNext" => occ'[Rec(v)][Slot(v)] = occ[Rec(v)][Slot(v)]
        BY <2>1, WorkerFacts DEF Reserved, Holding
      <3>3. \A t \in Slots : Counted(Rec(v), t)' => Counted(Rec(v), t)
        BY <1>1, <3>1
      <3> QED
        BY <3>1, <3>2, <3>3 DEF Behind
    <2> QED
      BY <2>1
  <1> QED
    BY <1>3, <1>4 DEF InStep

LEMMA GotoBehind ==
  ASSUME TypeInv, InStep, NEW w \in Workers, NEW pc, Goto(w, pc),
         UNCHANGED <<row, occ, open>>,
         proc[w].pc \in Reserved,
         pc \in Ahead => proc[w].pc \in Ahead,
         pc # "skipNext",
         pc \in {"create", "link"} /\ row[Rec(w)].policy = "SKIP_IF_OPEN"
            => \A t \in Slots : ~Counted(Rec(w), t)
  PROVE  Behind(w)'
  <1>1. /\ proc'[w].pc = pc /\ Rec(w)' = Rec(w) /\ Slot(w)' = Slot(w)
        /\ proc'[w].snap = proc[w].snap
    BY GotoFrame DEF Rec, Slot
  <1>2. \A t \in Slots : Counted(Rec(w), t)' = Counted(Rec(w), t)
    BY <1>1 DEF Counted
  <1> QED
    BY <1>1, <1>2 DEF InStep, Behind

LEMMA QuietInStep ==
  ASSUME TypeInv, InStep, NEW w \in Workers, Quiet(w), ~SkipNext(w)
  PROVE  InStep'
  <1>1. UNCHANGED <<row, occ, made, open>>
    BY DEF Quiet, Poll, StartRecurrence, ClaimRuns, StartRun, Succeed, Fail, MarkFailed,
           Read, Enqueue, Overlap, SkipRun, FailRun, StatementFails, Crash
  <1>2. OthersStay(w) /\ Calm(w)
    BY QuietFrame
  <1>3. (proc'[w].pc \notin Reserved) => InStep'
    BY <1>1, <1>2, OutsideBehind, CalmInStep
  <1>4. CASE Read(w)
    <2>1. CASE Due(row[Rec(w)], proc[w].now)
      <3> DEFINE r == row[Rec(w)]
      <3>1. proc'[w] = [proc[w] EXCEPT !.pc = "reserve", !.snap = r]
        BY <1>4, <2>1 DEF Read, TypeInv, ProcOK
      <3>2. proc'[w].pc = "reserve" /\ proc'[w].rec = proc[w].rec /\ proc'[w].snap = r
        BY <3>1, PlaceFacts DEF Place
      <3>3. Rec(w)' = Rec(w) /\ Slot(w)' = r.next /\ proc'[w].snap = r
        BY <3>2 DEF Rec, Slot
      <3>4. r.state = "present" /\ r.next # Null /\ r.next \in Slots
        BY <2>1, PlaceFacts DEF Due, TypeInv, RowOK, RowType
      <3>5. r.next \in r.sched /\ r.next > r.createdAt
        BY <3>4, PlaceFacts DEF InStep, Pointer
      <3>6. Behind(w)'
        BY <1>1, <3>2, <3>3, <3>4, <3>5, SlotFacts DEF Behind, Ahead
      <3> QED
        BY <1>1, <1>2, <3>6, CalmInStep
    <2>2. CASE ~Due(row[Rec(w)], proc[w].now)
      BY <1>3, <1>4, <2>2, BackFrame DEF Read
    <2> QED
      BY <2>1, <2>2
  <1>5. CASE Enqueue(w)
    <2>1. proc[w].pc = "enqueue"
      BY <1>5 DEF Enqueue, At
    <2>2. proc[w].snap.policy = row[Rec(w)].policy
      BY <2>1 DEF InStep, Behind, Reserved, Holding
    <2>3. PICK pc \in {"overlap", "create"} :
            Goto(w, pc) /\ (pc = "create" => row[Rec(w)].policy # "SKIP_IF_OPEN")
      BY <1>5, <2>2 DEF Enqueue
    <2>4. Behind(w)'
      BY <1>1, <2>1, <2>3, GotoBehind DEF Ahead, Reserved, Holding
    <2> QED
      BY <1>1, <1>2, <2>4, CalmInStep
  <1>6. CASE Overlap(w)
    <2>1. proc[w].pc = "overlap"
      BY <1>6 DEF Overlap, At
    <2>2. PICK pc \in {"skip", "create"} :
            Goto(w, pc) /\ (pc = "create" => \A t \in Slots : ~Counted(Rec(w), t))
      BY <1>6 DEF Overlap, Counted
    <2>3. Behind(w)'
      BY <1>1, <2>1, <2>2, GotoBehind DEF Ahead, Reserved, Holding
    <2> QED
      BY <1>1, <1>2, <2>3, CalmInStep
  <1>7. CASE SkipRun(w) \/ FailRun(w) \/ StatementFails(w)
    <2>1. Returns(w) \/ Raises(w)
      BY <1>7 DEF SkipRun, FailRun, StatementFails
    <2> QED
      BY <1>3, <2>1, BackFrame
  <1>8. CASE Poll(w) \/ StartRecurrence(w) \/ ClaimRuns(w) \/ StartRun(w)
             \/ Succeed(w) \/ Fail(w) \/ MarkFailed(w) \/ Crash(w)
    <2>1. proc'[w].pc \notin Reserved
      <3>1. CASE Crash(w)
        BY <3>1, NullTypes DEF Crash, TypeInv, ProcOK, Reserved, Holding
      <3>2. CASE Poll(w)
        BY <3>2 DEF Poll, TypeInv, ProcOK, Place, Reserved, Holding
      <3>5. CASE StartRecurrence(w)
        BY <3>5 DEF StartRecurrence, TypeInv, ProcOK, Place, Reserved, Holding
      <3>6. CASE StartRun(w)
        BY <3>6 DEF StartRun, TypeInv, ProcOK, Place, Reserved, Holding
      <3>3. CASE ClaimRuns(w)
        <4>1. [Nowhere EXCEPT !.pc = "runs"].pc = "runs"
          BY NullTypes DEF Place
        <4> QED
          BY <3>3, <4>1, NullTypes DEF ClaimRuns, TypeInv, ProcOK, Reserved, Holding
      <3>4. ASSUME NEW pc \in {"failed", "markDead", "markFailed"}, Goto(w, pc)
            PROVE  proc'[w].pc \notin Reserved
        BY <3>4, GotoFrame DEF Reserved, Holding
      <3> QED
        BY <1>8, <3>1, <3>2, <3>3, <3>4, <3>5, <3>6, RunDoneFrame DEF Succeed, Fail, MarkFailed
    <2> QED
      BY <1>3, <2>1
  <1> QED
    BY <1>4, <1>5, <1>6, <1>7, <1>8 DEF Quiet

LEMMA ReserveInStep ==
  ASSUME TypeInv, HoldInv, InStep, NEW w \in Workers, Reserve(w)
  PROVE  InStep'
  <1>0. proc[w].pc = "reserve" /\ Rec(w) \in Recs /\ Slot(w) \in Slots
    BY PlaceFacts DEF Reserve, At, Reserved
  <1>1. UNCHANGED <<row, made, open>>
    BY DEF Reserve
  <1>2. CASE UNCHANGED occ /\ (Returns(w) \/ Raises(w))
    BY <1>1, <1>2, BackFrame, OutsideBehind, CalmInStep
  <1>3. CASE /\ ~Exists(Rec(w), Slot(w)) /\ row[Rec(w)].state = "present"
             /\ SetOcc(Rec(w), Slot(w), "PENDING") /\ Goto(w, "enqueue")
    <2> DEFINE c == Rec(w)
               s == Slot(w)
    <2>1. /\ OthersStay(w) /\ proc'[w].pc = "enqueue"
          /\ Rec(w)' = c /\ Slot(w)' = s /\ proc'[w].snap = proc[w].snap
      BY <1>3, GotoFrame DEF Rec, Slot
    <2>2. /\ occ'[c][s] = "PENDING"
          /\ \A d \in Recs, t \in Slots : ~(d = c /\ t = s) => occ'[d][t] = occ[d][t]
      BY <1>0, <1>3, SetOccFrame
    <2>3. ~Handled(c, s)
      <3>1. ~(made[c][s] > 0)
        BY <1>0, <1>3 DEF HoldInv, Cell
      <3> QED
        BY <1>0, <1>3, <3>1 DEF Handled, Exists
    <2>4. Behind(w) /\ Pointer(c)
      BY <1>0 DEF InStep
    <2>5. row[c].next = s
      <3>1. /\ s \in row[c].sched /\ s > row[c].createdAt
            /\ row[c].next = Null \/ s <= row[c].next
        BY <1>0, <2>4 DEF Behind, Reserved
      <3>2. ~(row[c].next = Null \/ s < row[c].next)
        BY <2>3, <2>4, <3>1 DEF Pointer
      <3>3. row[c].next \in Slots
        BY <1>0, <3>2 DEF TypeInv, RowOK, RowType
      <3> QED
        BY <1>0, <3>1, <3>2, <3>3, SlotFacts
    <2>6. Behind(w)'
      BY <1>0, <1>1, <2>1, <2>4, <2>5 DEF Behind, Reserved
    <2>7. \A v \in Workers : v # w /\ proc[v].pc \in Holding => ~(Rec(v) = c /\ Slot(v) = s)
      BY <1>3 DEF HoldInv, Holds
    <2>8. (Handled(c, s) => FALSE) /\ occ'[c][s] # "CREATED"
      BY <2>2, <2>3
    <2> QED
      <3>1. PICK d \in Recs, t \in Slots : d = c /\ t = s
        BY <1>0
      <3>2. (Handled(d, t) => Handled(d, t)') /\ (Counted(d, t)' => Counted(d, t))
        <4>1. ~Handled(d, t)
          BY <2>8, <3>1
        <4>2. occ'[d][t] # "CREATED"
          BY <2>8, <3>1
        <4> QED
          BY <4>1, <4>2 DEF Counted
      <3> QED
        BY <1>1, <2>1, <2>2, <2>6, <2>7, <3>1, <3>2, CellInStep
  <1> QED
    BY <1>2, <1>3 DEF Reserve

LEMMA WriteInStep ==
  ASSUME TypeInv, HoldInv, InStep, NEW w \in Workers, SkipOccurrence(w) \/ FailOccurrence(w)
  PROVE  InStep'
  <1>0. proc[w].pc \in Holding /\ proc[w].pc \in {"skip", "fail"}
    BY DEF SkipOccurrence, FailOccurrence, At, Holding
  <1>1. UNCHANGED <<row, made, open>>
    BY DEF SkipOccurrence, FailOccurrence
  <1>2. CASE UNCHANGED occ /\ Raises(w)
    BY <1>1, <1>2, BackFrame, OutsideBehind, CalmInStep
  <1>3. CASE \/ /\ SetOcc(Rec(w), Slot(w), "SKIPPED") /\ Goto(w, "skipNext")
                /\ proc[w].pc = "skip"
             \/ SetOcc(Rec(w), Slot(w), "FAILED") /\ Goto(w, "failRun")
    <2> DEFINE c == Rec(w)
               s == Slot(w)
    <2>1. /\ c \in Recs /\ s \in Slots
          /\ Holds(w) /\ Behind(w)
          /\ \A v \in Workers : v # w /\ proc[v].pc \in Holding => ~(Rec(v) = c /\ Slot(v) = s)
      BY <1>0, HolderFacts DEF InStep
    <2>2. PICK st \in {"SKIPPED", "FAILED"}, pc \in {"skipNext", "failRun"} :
            /\ SetOcc(c, s, st) /\ Goto(w, pc)
            /\ pc = "skipNext" => st = "SKIPPED" /\ proc[w].pc = "skip"
      BY <1>3
    <2>3. /\ OthersStay(w) /\ proc'[w].pc = pc
          /\ Rec(w)' = c /\ Slot(w)' = s /\ proc'[w].snap = proc[w].snap
      BY <2>2, GotoFrame DEF Rec, Slot
    <2>4. /\ occ'[c][s] = st
          /\ \A d \in Recs, t \in Slots : ~(d = c /\ t = s) => occ'[d][t] = occ[d][t]
      BY <2>1, <2>2, SetOccFrame
    <2>5. Behind(w)'
      BY <1>0, <1>1, <2>1, <2>2, <2>3, <2>4 DEF Behind, Reserved, Ahead
    <2>6. occ[c][s] # "SKIPPED"
      BY <1>0, <2>1 DEF Holds, Unskipped
    <2> QED
      <3>1. PICK d \in Recs, t \in Slots : d = c /\ t = s
        BY <2>1
      <3>2. Handled(d, t) => Handled(d, t)'
        BY <1>1, <2>6, <3>1 DEF Handled
      <3>3. Counted(d, t)' => Counted(d, t)
        BY <2>4, <3>1 DEF Counted
      <3> QED
        BY <1>1, <2>1, <2>3, <2>4, <2>5, <3>1, <3>2, <3>3, CellInStep
  <1> QED
    BY <1>2, <1>3 DEF SkipOccurrence, FailOccurrence, At

LEMMA CreateInStep ==
  ASSUME TypeInv, HoldInv, InStep, NEW w \in Workers, CreateTask(w)
  PROVE  InStep'
  <1>0. proc[w].pc = "create" /\ proc[w].pc \in Holding
    BY DEF CreateTask, At, Holding
  <1>1. UNCHANGED <<row, occ>>
    BY DEF CreateTask
  <1> DEFINE c == Rec(w)
             s == Slot(w)
  <1>2. /\ c \in Recs /\ s \in Slots
        /\ Holds(w) /\ Behind(w) /\ Cell(c, s)
        /\ \A v \in Workers : v # w /\ proc[v].pc \in Holding => ~(Rec(v) = c /\ Slot(v) = s)
    BY <1>0, HolderFacts DEF InStep
  <1>3. PICK pc \in {"link", "fail"} : Goto(w, pc)
    BY DEF CreateTask
  <1>4. /\ OthersStay(w) /\ proc'[w].pc = pc
        /\ Rec(w)' = c /\ Slot(w)' = s /\ proc'[w].snap = proc[w].snap
    BY <1>3, GotoFrame DEF Rec, Slot
  <1>5. made[c][s] = 0 /\ occ[c][s] # "CREATED" /\ occ'[c][s] # "CREATED"
    BY <1>0, <1>1, <1>2 DEF Holds, Unmade, Cell
  <1>6. \/ UNCHANGED <<made, open>>
        \/ /\ made'[c][s] = 1
           /\ \A d \in Recs, t \in Slots : ~(d = c /\ t = s) =>
                made'[d][t] = made[d][t] /\ open'[d][t] = open[d][t]
    BY <1>2, <1>5 DEF CreateTask, TypeInv, CellsOK
  <1>7. \A t \in Slots : Counted(c, t)' => Counted(c, t)
    <2> TAKE t \in Slots
    <2>1. CASE t = s
      BY <1>5, <1>4, <2>1 DEF Counted
    <2>2. CASE t # s
      BY <1>1, <1>2, <1>4, <1>6, <2>2 DEF Counted
    <2> QED
      BY <2>1, <2>2
  <1>8. Behind(w)'
    BY <1>0, <1>1, <1>2, <1>4, <1>7 DEF Behind, Reserved, Holding, Ahead
  <1>9. PICK d \in Recs, t \in Slots : d = c /\ t = s
    BY <1>2
  <1>10. Handled(d, t) => Handled(d, t)'
    BY <1>1, <1>5, <1>6, <1>9 DEF Handled
  <1>11. Counted(d, t)' => Counted(d, t)
    BY <1>5, <1>9 DEF Counted
  <1> QED
    BY <1>1, <1>2, <1>4, <1>6, <1>8, <1>9, <1>10, <1>11, CellInStep

\* w moves the pointer past the instant it has handled.
LEMMA AdvanceInStep ==
  ASSUME TypeInv, HoldInv, InStep, NEW w \in Workers, NEW c \in Recs, NEW s \in Slots,
         c = Rec(w), s = Slot(w), proc[w].pc \in Holding, proc[w].pc \in Ahead,
         SetNext(c, Following(w)), UNCHANGED made, OthersStay(w),
         \/ proc'[w].pc \notin Reserved
         \/ /\ proc'[w].pc \in {"skipRun", "fail"}
            /\ Rec(w)' = c /\ Slot(w)' = s /\ proc'[w].snap = proc[w].snap,
         Handled(c, s), \A d \in Recs, t \in Slots : Handled(d, t) => Handled(d, t)',
         \A v \in Workers : v # w /\ proc[v].pc \in Holding =>
            occ'[Rec(v)][Slot(v)] = occ[Rec(v)][Slot(v)],
         \A d \in Recs, t \in Slots : Counted(d, t)' => Counted(d, t) \/ (d = c /\ t = s),
         Exclusive(c)'
  PROVE  InStep'
  <1> DEFINE n == Following(w)
  <1>1. /\ \A d \in Recs : d # c => row'[d] = row[d]
        /\ row'[c].next = n /\ row'[c].state = row[c].state /\ row'[c].sched = row[c].sched
        /\ row'[c].policy = row[c].policy /\ row'[c].createdAt = row[c].createdAt
    BY SetNextFrame
  <1>2. Behind(w) /\ Pointer(c)
    BY DEF InStep
  <1>3. /\ row[c].next = s /\ s \in row[c].sched /\ s > row[c].createdAt
        /\ row[c].state = "present"
        /\ proc[w].snap.sched = row[c].sched /\ proc[w].snap.policy = row[c].policy
    BY <1>2 DEF Behind, Reserved
  <1>4. /\ row[c].sched \in SUBSET Slots /\ s \in Nat /\ row[c].createdAt \in Nat
        /\ \A t \in row[c].sched : t \in Slots /\ t \in Nat /\ t # Null
        /\ \A t \in Slots : t \in Nat /\ t # Null
    BY SlotFacts DEF TypeInv, RowOK, RowType
  <1>5. /\ n \in Slots \cup {Null}
        /\ n # Null => n \in row[c].sched /\ n > s
        /\ \A t \in row[c].sched : t > s => n # Null /\ n <= t
    <2>1. n = NextRunAt(row[c].sched, s)
      BY <1>3 DEF Following
    <2> QED
      BY <1>4, <2>1, NextRunAtFirst
  <1> HIDE DEF n
  <1>6. Pointer(c)'
    <2>1. n # Null => n \in row[c].sched /\ n > row[c].createdAt
      <3>1. n # Null => n \in Nat
        BY <1>4, <1>5
      <3> QED
        BY <1>3, <1>4, <1>5, <3>1
    <2>2. ASSUME NEW t \in row[c].sched, t > row[c].createdAt, n = Null \/ t < n
          PROVE  Handled(c, t)
      <3>1. ~(t > s)
        BY <1>4, <1>5, <2>2
      <3>2. t = s \/ t < s
        BY <1>4, <3>1
      <3> QED
        BY <1>2, <1>3, <1>4, <2>2, <3>2 DEF Pointer
    <2>3. \A t \in row[c].sched : t > row[c].createdAt /\ (n = Null \/ t < n) => Handled(c, t)'
      BY <1>4, <2>2
    <2> QED
      BY <1>1, <1>3, <2>1, <2>3 DEF Pointer
  <1>7. ASSUME NEW d \in Recs, d # c PROVE Pointer(d)' /\ Exclusive(d)'
    <2>1. row[d].sched \subseteq Slots /\ Pointer(d) /\ Exclusive(d) /\ row'[d] = row[d]
      BY <1>1, <1>7 DEF TypeInv, RowOK, RowType, InStep
    <2>2. Pointer(d)'
      BY <2>1 DEF Pointer
    <2>3. \A t \in Slots : Counted(d, t)' => Counted(d, t)
      BY <1>7
    <2>4. Exclusive(d)'
      BY <2>1, <2>3 DEF Exclusive
    <2> QED
      BY <2>2, <2>4
  <1>8. ASSUME NEW v \in Workers, v # w PROVE Behind(v)'
    <2>1. /\ proc'[v] = proc[v] /\ Rec(v)' = Rec(v) /\ Slot(v)' = Slot(v) /\ Rec(v) \in Recs
          /\ Behind(v)
      BY <1>8, WorkerFacts DEF OthersStay, Rec, Slot, InStep
    <2>2. CASE Rec(v) # c
      <3>1. \A t \in Slots : Counted(Rec(v), t)' => Counted(Rec(v), t)
        BY <2>1, <2>2
      <3>2. row'[Rec(v)] = row[Rec(v)]
        BY <1>1, <2>1, <2>2
      <3>3. proc[v].pc = "skipNext" => occ'[Rec(v)][Slot(v)] = occ[Rec(v)][Slot(v)]
        BY <1>8 DEF Holding
      <3> QED
        BY <2>1, <3>1, <3>2, <3>3 DEF Behind
    <2>3. CASE Rec(v) = c
      <3>1. proc[v].pc \notin Ahead
        <4>1. proc[v].pc \in Ahead => proc[v].pc \in Holding /\ Slot(v) = s
          BY <1>3, <2>1, <2>3 DEF Behind, Ahead, Holding
        <4> QED
          BY <1>8, <2>3, <4>1 DEF HoldInv, Alone
      <3>2. proc[v].pc \in Reserved =>
               /\ Slot(v) \in Slots /\ Slot(v) <= s
        BY <1>3, <1>4, <2>1, <2>3, WorkerFacts DEF Behind
      <3>3. proc[v].pc \in Reserved => n = Null \/ Slot(v) <= n
        <4>1. \A x \in Slots : x <= s => n = Null \/ x <= n
          BY <1>4, <1>5
        <4> QED
          BY <3>2, <4>1
      <3> QED
        BY <1>1, <2>1, <2>3, <3>1, <3>3 DEF Behind, Ahead
    <2> QED
      BY <2>2, <2>3
  <1>9. Behind(w)'
    <2>1. CASE proc'[w].pc \notin Reserved
      BY <2>1, OutsideBehind
    <2>2. CASE /\ proc'[w].pc \in {"skipRun", "fail"}
               /\ Rec(w)' = c /\ Slot(w)' = s /\ proc'[w].snap = proc[w].snap
      <3>1. n = Null \/ s <= n
        BY <1>4, <1>5
      <3> QED
        BY <1>1, <1>3, <2>2, <3>1 DEF Behind, Ahead
    <2> QED
      BY <2>1, <2>2
  <1> QED
    BY <1>6, <1>7, <1>8, <1>9 DEF InStep

LEMMA SkipNextInStep ==
  ASSUME TypeInv, HoldInv, InStep, NEW w \in Workers, SkipNext(w)
  PROVE  InStep'
  <1>0. proc[w].pc = "skipNext" /\ proc[w].pc \in Holding
    BY DEF SkipNext, At, Holding
  <1>1. UNCHANGED <<occ, made, open>>
    BY DEF SkipNext
  <1>2. PICK c \in Recs, s \in Slots : c = Rec(w) /\ s = Slot(w)
    BY <1>0, HolderFacts
  <1>3. Behind(w) /\ Exclusive(c)
    BY DEF InStep
  <1>4. CASE SetNext(c, Following(w)) /\ Goto(w, "skipRun")
    <2>1. /\ OthersStay(w) /\ proc'[w].pc = "skipRun"
          /\ Rec(w)' = c /\ Slot(w)' = s /\ proc'[w].snap = proc[w].snap
      BY <1>2, <1>4, GotoFrame DEF Rec, Slot
    <2>2. Handled(c, s)
      BY <1>0, <1>2, <1>3 DEF Behind, Handled
    <2>3. row'[c].policy = row[c].policy
      BY <1>4, SetNextFrame
    <2>4. \A d \in Recs, t \in Slots : /\ Handled(d, t)' = Handled(d, t)
                                      /\ Counted(d, t)' = Counted(d, t)
      BY <1>1 DEF Handled, Counted
    <2>5. Exclusive(c)'
      BY <1>3, <2>3, <2>4 DEF Exclusive
    <2> QED
      BY <1>0, <1>1, <1>2, <1>4, <2>1, <2>2, <2>4, <2>5, AdvanceInStep DEF Ahead
  <1>5. CASE Raises(w) /\ UNCHANGED row
    BY <1>1, <1>5, BackFrame, OutsideBehind, CalmInStep
  <1> QED
    BY <1>2, <1>4, <1>5 DEF SkipNext

LEMMA LinkInStep ==
  ASSUME TypeInv, HoldInv, InStep, NEW w \in Workers, Link(w)
  PROVE  InStep'
  <1>0. proc[w].pc = "link" /\ proc[w].pc \in Holding
    BY DEF Link, At, Holding
  <1>1. UNCHANGED <<made, open>>
    BY DEF Link
  <1>2. PICK c \in Recs, s \in Slots : c = Rec(w) /\ s = Slot(w)
    BY <1>0, HolderFacts
  <1>3. Behind(w) /\ Holds(w) /\ Exclusive(c)
    BY <1>0, HolderFacts DEF InStep
  <1>4. CASE UNCHANGED <<row, occ>> /\ Goto(w, "fail")
    <2>1. OthersStay(w)
      BY <1>4, GotoFrame
    <2>2. Behind(w)'
      BY <1>0, <1>1, <1>4, GotoBehind DEF Ahead, Reserved
    <2> QED
      BY <1>1, <1>4, <2>1, <2>2, CalmInStep
  <1>5. CASE /\ SetOcc(c, s, "CREATED") /\ SetNext(c, Following(w))
             /\ Returns(w) \/ Goto(w, "fail")
    <2>1. /\ OthersStay(w)
          /\ \/ proc'[w].pc \notin Reserved
             \/ /\ proc'[w].pc \in {"skipRun", "fail"}
                /\ Rec(w)' = c /\ Slot(w)' = s /\ proc'[w].snap = proc[w].snap
      BY <1>2, <1>5, GotoFrame, BackFrame DEF Rec, Slot
    <2>2. /\ occ'[c][s] = "CREATED"
          /\ \A d \in Recs, t \in Slots : ~(d = c /\ t = s) => occ'[d][t] = occ[d][t]
      BY <1>5, SetOccFrame
    <2>3. made[c][s] = 1
      BY <1>0, <1>2, <1>3 DEF Holds
    <2>4. ASSUME NEW d \in Recs, NEW t \in Slots
          PROVE  /\ Handled(d, t) => Handled(d, t)'
                 /\ Counted(d, t)' => Counted(d, t) \/ (d = c /\ t = s)
      BY <1>1, <2>2, <2>3 DEF Handled, Counted
    <2>5. Handled(c, s)
      BY <2>3 DEF Handled
    <2>6. Exclusive(c)'
      <3>1. row'[c].policy = row[c].policy
        BY <1>5, SetNextFrame
      <3>2. row[c].policy = "SKIP_IF_OPEN" => \A t \in Slots : ~Counted(c, t)
        BY <1>0, <1>2, <1>3 DEF Behind
      <3>3. row[c].policy = "SKIP_IF_OPEN" => \A t \in Slots : Counted(c, t)' => t = s
        BY <2>4, <3>2
      <3> QED
        BY <3>1, <3>3 DEF Exclusive
    <2>7. \A v \in Workers : v # w /\ proc[v].pc \in Holding =>
             occ'[Rec(v)][Slot(v)] = occ[Rec(v)][Slot(v)]
      BY <1>0, <1>2, <2>2, HolderFacts
    <2> QED
      BY <1>0, <1>1, <1>2, <1>5, <2>1, <2>4, <2>5, <2>6, <2>7, AdvanceInStep DEF Ahead
  <1> QED
    BY <1>2, <1>4, <1>5 DEF Link

\* A user creates the recurrence: no worker can know it, and nothing has been
\* counted for it yet.
LEMMA CreateRowInStep ==
  ASSUME TypeInv, HoldInv, InStep, NEW c \in Recs, Create(c)
  PROVE  InStep'
  <1>0. UNCHANGED <<occ, made, open, proc>> /\ row[c].state = "absent"
    BY DEF Create
  <1>1. PICK sched \in Schedules, pol \in Policies :
          row' = [row EXCEPT ![c] = [state |-> "present", active |-> TRUE, sched |-> sched,
                                     policy |-> pol, next |-> NextRunAt(sched, now),
                                     createdAt |-> now]]
    BY DEF Create
  <1>2. /\ row'[c].state = "present" /\ row'[c].sched = sched
        /\ row'[c].next = NextRunAt(sched, now) /\ row'[c].createdAt = now
        /\ \A d \in Recs : d # c => row'[d] = row[d]
    BY <1>1 DEF TypeInv, RowOK
  <1>3. /\ sched \in SUBSET Slots /\ now \in Nat
        /\ \A t \in sched : t \in Nat /\ t # Null
    BY SlotFacts, RecurrenceAssumption DEF TypeInv, CountOK
  <1> DEFINE n == NextRunAt(sched, now)
  <1>4. /\ n \in Slots \cup {Null}
        /\ n # Null => n \in sched /\ n > now
        /\ \A t \in sched : t > now => n # Null /\ n <= t
    BY <1>3, NextRunAtFirst
  <1> HIDE DEF n
  <1>5. Pointer(c)'
    <2>1. ASSUME NEW t \in sched, t > now, n = Null \/ t < n PROVE FALSE
      BY <1>3, <1>4, <2>1
    <2> QED
      BY <1>2, <1>4, <2>1 DEF Pointer, n
  <1>6. \A s \in Slots : occ[c][s] = "NONE"
    BY <1>0 DEF HoldInv, Cell
  <1>7. Exclusive(c)'
    BY <1>0, <1>6 DEF Exclusive, Counted
  <1>8. ASSUME NEW d \in Recs, d # c PROVE Pointer(d)' /\ Exclusive(d)'
    BY <1>0, <1>2, <1>8 DEF InStep, Pointer, Exclusive, Handled, Counted
  <1>9. ASSUME NEW v \in Workers PROVE Behind(v)'
    <2>1. Behind(v) /\ Rec(v)' = Rec(v) /\ Slot(v)' = Slot(v) /\ Rec(v) \in Recs
      BY <1>0, WorkerFacts DEF InStep, Rec, Slot
    <2>2. CASE Rec(v) = c
      <3>1. proc'[v].pc \notin Reserved
        BY <1>0, <2>1, <2>2 DEF Behind
      <3> QED
        BY <3>1, OutsideBehind
    <2>3. CASE Rec(v) # c
      BY <1>0, <1>2, <2>1, <2>3 DEF Behind, Counted
    <2> QED
      BY <2>2, <2>3
  <1> QED
    BY <1>5, <1>7, <1>8, <1>9 DEF InStep

\* Steps that write no occurrence and no recurrence, and open no task.
LEMMA StillInStep ==
  ASSUME TypeInv, InStep, UNCHANGED <<row, occ, made, proc>>,
         \A c \in Recs, s \in Slots : open'[c][s] => open[c][s]
  PROVE  InStep'
  <1>1. \A c \in Recs, s \in Slots : Counted(c, s)' => Counted(c, s)
    BY DEF Counted
  <1>2. \A c \in Recs : Pointer(c)' /\ Exclusive(c)'
    BY <1>1 DEF InStep, Pointer, Exclusive, Handled
  <1>3. ASSUME NEW v \in Workers PROVE Behind(v)'
    <2>1. Behind(v) /\ Rec(v)' = Rec(v) /\ Slot(v)' = Slot(v) /\ Rec(v) \in Recs
      BY WorkerFacts DEF InStep, Rec, Slot
    <2>2. \A t \in Slots : Counted(Rec(v), t)' => Counted(Rec(v), t)
      BY <1>1, <2>1
    <2> QED
      BY <2>1, <2>2 DEF Behind
  <1> QED
    BY <1>2, <1>3 DEF InStep

LEMMA WorkerPointer ==
  ASSUME TypeInv, HoldInv, PointerInv, NEW w \in Workers,
         WorkerStep(w) \/ StatementFails(w) \/ Crash(w)
  PROVE  PointerInv'
  <1>1. UNCHANGED edits
    BY DEF WorkerStep, Generate, Poll, StartRecurrence, ClaimRuns, StartRun, Succeed, Fail,
           MarkFailed, Read, Reserve, Enqueue, Overlap, SkipOccurrence, SkipNext, SkipRun,
           CreateTask, Link, FailOccurrence, FailRun, StatementFails, Crash
  <1>2. CASE edits = 0
    <2>1. InStep
      BY <1>2 DEF PointerInv
    <2>2. (Quiet(w) /\ ~SkipNext(w)) => InStep'
      BY <2>1, QuietInStep
    <2>3. SkipNext(w) \/ Reserve(w) \/ SkipOccurrence(w) \/ FailOccurrence(w)
             \/ CreateTask(w) \/ Link(w) => InStep'
      BY <2>1, SkipNextInStep, ReserveInStep, WriteInStep, CreateInStep, LinkInStep
    <2>4. InStep'
      BY <2>2, <2>3 DEF WorkerStep, Generate, Quiet
    <2> QED
      BY <2>4 DEF PointerInv
  <1>3. CASE edits # 0
    BY <1>1, <1>3 DEF PointerInv
  <1> QED
    BY <1>2, <1>3

LEMMA NextPointer ==
  ASSUME TypeInv, HoldInv, PointerInv, [Next]_vars
  PROVE  PointerInv'
  <1>1. ASSUME edits' = edits + 1 PROVE PointerInv'
    BY <1>1 DEF TypeInv, CountOK, PointerInv
  <1>2. ASSUME UNCHANGED <<row, occ, made, proc, edits>>,
               \A c \in Recs, s \in Slots : open'[c][s] => open[c][s]
        PROVE  PointerInv'
    BY <1>2, StillInStep DEF PointerInv
  <1>3. ASSUME NEW c \in Recs, UserStep(c) PROVE PointerInv'
    <2>1. CASE Create(c)
      BY <2>1, CreateRowInStep DEF Create, PointerInv
    <2>2. CASE Upsert(c) \/ Pause(c) \/ Resume(c) \/ Remove(c)
      BY <1>1, <2>2 DEF Upsert, Pause, Resume, Remove, Edit
    <2> QED
      BY <1>3, <2>1, <2>2 DEF UserStep
  <1>4. ASSUME NEW c \in Recs, NEW s \in Slots, RunStep(c, s) PROVE PointerInv'
    <2>1. CASE ReopenTask(c, s)
      BY <1>1, <2>1 DEF ReopenTask
    <2>2. CASE CloseTask(c, s)
      <3>1. \A d \in Recs, t \in Slots : open'[d][t] => open[d][t]
        BY <2>2 DEF CloseTask, TypeInv, CellsOK
      <3> QED
        BY <1>2, <2>2, <3>1 DEF CloseTask
    <2>3. CASE RetryAsk(c, s) \/ RetryApply(c, s) \/ BackoffEnds(c, s)
      BY <1>2, <2>3 DEF RetryAsk, RetryApply, BackoffEnds
    <2> QED
      BY <1>4, <2>1, <2>2, <2>3 DEF RunStep
  <1>5. CASE Tick \/ UNCHANGED vars
    BY <1>2, <1>5 DEF Tick, vars
  <1> QED
    BY <1>3, <1>4, <1>5, WorkerPointer DEF Next

-----------------------------------------------------------------------------
(* Theorems *)

LEMMA SafetyInvariant == Spec => [](TypeInv /\ HoldInv /\ PointerInv)
  <1>1. Init => TypeInv /\ HoldInv /\ PointerInv
    BY InitType, HoldInit, PointerInit
  <1>2. TypeInv /\ HoldInv /\ PointerInv /\ [Next]_vars => (TypeInv /\ HoldInv /\ PointerInv)'
    BY NextType, NextHold, NextPointer
  <1> QED
    BY <1>1, <1>2, PTL DEF Spec

\* As long as nobody edits a recurrence, its pointer never passes an instant
\* that got neither a task nor a recorded skip.
THEOREM NothingLost == Spec => []NoInstantLost
  <1>1. TypeInv /\ PointerInv => NoInstantLost
    BY DEF PointerInv, InStep, Pointer, Handled, NoInstantLost
  <1> QED
    BY <1>1, SafetyInvariant, PTL

\* As long as nobody edits it, a recurrence with SKIP_IF_OPEN has at most one
\* open task among the occurrences it counts as created.
THEOREM SkipsOverlap == Spec => []NoOverlap
  <1>1. TypeInv /\ PointerInv => NoOverlap
    BY DEF PointerInv, InStep, Exclusive, Counted, NoOverlap
  <1> QED
    BY <1>1, SafetyInvariant, PTL
=============================================================================
