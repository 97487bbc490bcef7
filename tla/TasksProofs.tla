------------------------------ MODULE TasksProofs ------------------------------
(***************************************************************************)
(* Proofs about tasks and their dependencies for any tasks, requests,        *)
(* policies and dependencies to begin with: a versioned update decides on    *)
(* the row it overwrites, what it writes agrees with the history, and the    *)
(* dependencies stay acyclic unless two insertions raced.  And about the       *)
(* comments of a task: a panel at rest shows what the rows hold.              *)
(***************************************************************************)
EXTENDS TaskDependencies, TaskComments, TLAPS

-----------------------------------------------------------------------------
(* The invariant.  A row never changes without its version, so a request whose *)
(* version still fits has read the row as it is; from its write to its commit   *)
(* it holds the row, alone.                                                     *)

Updating == {"check", "write", "commit"}
RowOf(p) == task[req[p].t]

Read(p) == req[p].pc \in Updating =>
    /\ req[p].seen.version <= RowOf(p).version
    /\ req[p].seen.version = RowOf(p).version => req[p].seen = RowOf(p)
Reads == \A p \in Requests : Read(p)
HoldsAlone == \A p, q \in Requests : At(p, "commit") /\ At(q, "commit") /\ req[p].t = req[q].t => p = q

\* A dependency to be added is between two tasks.
Apart == \A p \in Requests : At(p, "linkCheck") \/ At(p, "link") => req[p].t # req[p].u

\* A request that has its stamp, and whose version still fits, was stamped after
\* every entry its task has.
Stamped(p) == req[p].pc \in {"write", "commit"} =>
    /\ req[p].at <= clock
    /\ req[p].seen.version = RowOf(p).version => last[req[p].t].at <= req[p].at
HistoryInv == /\ \A t \in Tasks : last[t].at <= clock
              /\ \A p \in Requests : Stamped(p)
              /\ HistoryTellsStatus

RowsInv == Reads /\ HoldsAlone /\ DecidesOnWhatItOverwrites /\ StatusIsRecorded /\ Apart

\* As long as no two insertions have raced, the one that has passed its check is
\* alone, and its edge still closes no cycle.
DagInv == raced \/ /\ Acyclic(edges)
                   /\ \A p \in Requests : At(p, "link") => ~WouldCreateCycle(edges, req[p].t, req[p].u)
                   /\ \A p, q \in Requests : At(p, "link") /\ At(q, "link") => p = q

TasksInv == TypeOK /\ RowsInv /\ HistoryInv /\ DagInv

-----------------------------------------------------------------------------
(* Types *)

LEMMA NewRowTyped == ASSUME NEW t \in Tasks PROVE NewRow(t) \in RowType
  <1> DEFINE waiting == \E e \in InitEdges : e[2] = t
  <1>1. (IF waiting THEN "BLOCKED" ELSE "TODO") \in Statuses \cup {"TODO", "BLOCKED"} /\ waiting \in BOOLEAN
    OBVIOUS
  <1>2. NewRow(t) = [status |-> IF waiting THEN "BLOCKED" ELSE "TODO", depBlocked |-> waiting,
                     completed |-> FALSE, deleted |-> FALSE, version |-> 1]
    BY DEF NewRow
  <1> HIDE DEF waiting
  <1> QED
    BY <1>1, <1>2 DEF RowType

LEMMA IdleTyped == Idle \in ReqType /\ Idle.pc = "idle"
  <1> DEFINE any == CHOOSE t \in Tasks : TRUE
  <1>1. any \in Tasks
    BY TasksAssumption
  <1>2. NewRow(any) \in RowType
    BY <1>1, NewRowTyped
  <1>3. Idle = [pc |-> "idle", kind |-> "none", t |-> any, u |-> any, to |-> "TODO",
                seen |-> NewRow(any), other |-> NewRow(any), at |-> 0, hand |-> {}]
    BY DEF Idle
  <1> DEFINE row == NewRow(any)
  <1>4. row \in RowType /\ Idle = [pc |-> "idle", kind |-> "none", t |-> any, u |-> any, to |-> "TODO",
                                   seen |-> row, other |-> row, at |-> 0, hand |-> {}]
    BY <1>2, <1>3
  <1> HIDE DEF any, row
  <1> QED
    BY <1>1, <1>4 DEF ReqType

LEMMA InitTyped == Init => TypeOK
  <1> SUFFICES ASSUME Init PROVE TypeOK
    OBVIOUS
  <1>1. \A t \in Tasks : NewRow(t) \in RowType
    BY NewRowTyped
  <1>2. task \in [Tasks -> RowType] /\ last \in [Tasks -> EntryType]
    BY <1>1 DEF Init, RowType, EntryType
  <1>3. req \in [Requests -> ReqType]
    BY IdleTyped DEF Init
  <1>4. edges \subseteq {e \in Tasks \X Tasks : e[1] # e[2]}
    BY EdgesAssumption DEF Init
  <1>5. served \in 0..MaxRequests
    BY MaxRequestsAssumption DEF Init
  <1> QED
    BY <1>2, <1>3, <1>4, <1>5 DEF Init, TypeOK

\* A request moves; what it has read and found stays well formed.
LEMMA Moves ==
  ASSUME TypeOK, NEW p \in Requests, NEW r \in ReqType, req' = [req EXCEPT ![p] = r]
  PROVE  /\ req' \in [Requests -> ReqType] /\ req'[p] = r
         /\ \A q \in Requests : q # p => req'[q] = req[q]
  BY DEF TypeOK

LEMMA DoneMoves ==
  ASSUME TypeOK, NEW p \in Requests, Done(p)
  PROVE  /\ req' \in [Requests -> ReqType] /\ req'[p].pc = "idle"
         /\ \A q \in Requests : q # p => req'[q] = req[q]
  BY Moves, IdleTyped DEF Done

LEMMA StepMoves ==
  ASSUME TypeOK, NEW p \in Requests, NEW pc \in {"link"}, Step(p, pc)
  PROVE  /\ req' \in [Requests -> ReqType] /\ req'[p] = [req[p] EXCEPT !.pc = pc]
         /\ req'[p].pc = pc /\ req'[p].t = req[p].t /\ req'[p].u = req[p].u /\ req'[p].seen = req[p].seen
         /\ \A q \in Requests : q # p => req'[q] = req[q]
  <1> DEFINE r == [req[p] EXCEPT !.pc = pc]
  <1>1. req[p] \in ReqType
    BY DEF TypeOK
  <1>2. r \in ReqType /\ r.pc = pc /\ r.t = req[p].t /\ r.u = req[p].u /\ r.seen = req[p].seen
    BY <1>1 DEF ReqType
  <1>3. req' = [req EXCEPT ![p] = r]
    BY DEF Step, TypeOK
  <1> HIDE DEF r
  <1> QED
    BY <1>2, <1>3, Moves DEF r

\* A request that may complete its task takes its stamp.
LEMMA StampMoves ==
  ASSUME TypeOK, NEW p \in Requests, req' = [req EXCEPT ![p].pc = "write", ![p].at = clock + 1]
  PROVE  /\ req' \in [Requests -> ReqType]
         /\ req'[p].pc = "write" /\ req'[p].t = req[p].t /\ req'[p].seen = req[p].seen
         /\ req'[p].at = clock + 1
         /\ \A q \in Requests : q # p => req'[q] = req[q]
  <1> DEFINE n == clock + 1
             r == [req[p] EXCEPT !.pc = "write", !.at = n]
  <1>1. req[p] \in ReqType /\ n \in Nat
    BY DEF TypeOK
  <1>2. req' = [req EXCEPT ![p] = r]
    BY DEF TypeOK
  <1> HIDE DEF n
  <1>3. r \in ReqType /\ r.pc = "write" /\ r.t = req[p].t /\ r.seen = req[p].seen /\ r.at = n
    BY <1>1 DEF ReqType
  <1> HIDE DEF r
  <1> QED
    BY <1>2, <1>3, Moves DEF n

\* A request that has found the successors H ready moves on to hold its row.
LEMMA HoldMoves ==
  ASSUME TypeOK, NEW p \in Requests, NEW pc \in {"commit", "unlinkCommit"}, NEW H \in SUBSET Tasks,
         req' = [req EXCEPT ![p].pc = pc, ![p].hand = H]
  PROVE  /\ req' \in [Requests -> ReqType]
         /\ req'[p].pc = pc /\ req'[p].t = req[p].t /\ req'[p].seen = req[p].seen /\ req'[p].at = req[p].at
         /\ \A q \in Requests : q # p => req'[q] = req[q]
  <1> DEFINE r == [req[p] EXCEPT !.pc = pc, !.hand = H]
  <1>1. req[p] \in ReqType
    BY DEF TypeOK
  <1>2. r \in ReqType /\ r.pc = pc /\ r.t = req[p].t /\ r.seen = req[p].seen /\ r.at = req[p].at
    BY <1>1 DEF ReqType
  <1>3. req' = [req EXCEPT ![p] = r]
    BY DEF TypeOK
  <1> HIDE DEF r
  <1> QED
    BY <1>2, <1>3, Moves

LEMMA BeginTyped ==
  ASSUME TypeOK, NEW p \in Requests, NEW kind \in {"update", "touch", "delete", "restore", "link", "unlink"},
         Begin(p, kind)
  PROVE  /\ served' \in 0..MaxRequests /\ kind \in Kinds
         /\ UNCHANGED <<task, edges, last, policy, raced, outdated>>
  BY MaxRequestsAssumption DEF Begin, TypeOK

\* A request reads a row, or two, and begins.
ReadingStep(p) == ReadForUpdate(p) \/ ReadForLifecycle(p) \/ ReadForLink(p) \/ ReadForUnlink(p)

LEMMA ReadingMoves ==
  ASSUME TypeOK, NEW p \in Requests, ReadingStep(p)
  PROVE  /\ TypeOK' /\ UNCHANGED <<task, edges, last, policy, raced, outdated>>
         /\ req'[p].pc \notin {"commit", "link"}
         /\ req'[p].pc \in Updating => req'[p].seen = task[req'[p].t]
         /\ req'[p].pc = "write" => req'[p].at = clock'
         /\ clock' \in Nat /\ clock' >= clock
         /\ req'[p].pc = "linkCheck" => req'[p].t # req'[p].u
         /\ \A q \in Requests : q # p => req'[q] = req[q]
  <1>1. ASSUME NEW kind \in {"update", "touch", "delete", "restore", "link", "unlink"}, Begin(p, kind),
               NEW r \in ReqType, req' = [req EXCEPT ![p] = r], r.pc \notin {"commit", "link"},
               r.pc \in Updating => r.seen = task[r.t], r.pc = "write" => r.at = clock',
               NEW b, Ticks(b), r.pc = "linkCheck" => r.t # r.u
        PROVE  /\ TypeOK' /\ UNCHANGED <<task, edges, last, policy, raced, outdated>>
               /\ req'[p].pc \notin {"commit", "link"}
               /\ req'[p].pc \in Updating => req'[p].seen = task[req'[p].t]
               /\ req'[p].pc = "write" => req'[p].at = clock'
               /\ clock' \in Nat /\ clock' >= clock
               /\ req'[p].pc = "linkCheck" => req'[p].t # req'[p].u
               /\ \A q \in Requests : q # p => req'[q] = req[q]
    <2>1. /\ req' \in [Requests -> ReqType] /\ req'[p] = r
          /\ \A q \in Requests : q # p => req'[q] = req[q]
      BY <1>1, Moves
    <2>2. served' \in 0..MaxRequests /\ UNCHANGED <<task, edges, last, policy, raced, outdated>>
      BY <1>1, BeginTyped
    <2>3. clock' \in Nat /\ clock' >= clock
      BY <1>1 DEF TypeOK, Ticks
    <2>4. TypeOK'
      BY <2>1, <2>2, <2>3 DEF TypeOK
    <2> QED
      BY <1>1, <2>1, <2>2, <2>3, <2>4
  <1>2. CASE ReadForUpdate(p)
    <2>1. PICK t \in Tasks, to \in Statuses :
            /\ Begin(p, "update")
            /\ Ticks(~Finishes(t, to))
            /\ req' = [req EXCEPT ![p] = [Idle EXCEPT !.kind = "update", !.t = t, !.to = to, !.seen = task[t],
                         !.at = clock', !.pc = IF Finishes(t, to) THEN "check" ELSE "write"]]
      BY <1>2 DEF ReadForUpdate
    <2> DEFINE n == clock'
               pc == IF Finishes(t, to) THEN "check" ELSE "write"
               r == [Idle EXCEPT !.kind = "update", !.t = t, !.to = to, !.seen = task[t], !.at = n, !.pc = pc]
    <2>2. "update" \in Kinds /\ task[t] \in RowType /\ n \in Nat /\ n = clock' /\ pc \in {"check", "write"}
      BY <2>1, BeginTyped DEF TypeOK, Ticks
    <2>3. req' = [req EXCEPT ![p] = r]
      BY <2>1
    <2> HIDE DEF n, pc
    <2>4. r \in ReqType /\ r.pc = pc /\ r.t = t /\ r.seen = task[t] /\ r.at = n
      BY <2>2, IdleTyped DEF ReqType
    <2> HIDE DEF r
    <2> QED
      BY <1>1, <2>1, <2>2, <2>3, <2>4
  <1>3. CASE ReadForLifecycle(p)
    <2>1. PICK t \in Tasks, kind \in {"touch", "delete", "restore"} :
            /\ Begin(p, kind)
            /\ Ticks(FALSE)
            /\ req' = [req EXCEPT ![p] = [Idle EXCEPT !.kind = kind, !.t = t, !.seen = task[t], !.pc = "life"]]
      BY <1>3 DEF ReadForLifecycle
    <2> DEFINE r == [Idle EXCEPT !.kind = kind, !.t = t, !.seen = task[t], !.pc = "life"]
    <2>2. kind \in Kinds /\ task[t] \in RowType
      BY <2>1, BeginTyped DEF TypeOK
    <2>3. r \in ReqType /\ r.pc = "life"
      BY <2>2, IdleTyped DEF ReqType
    <2> HIDE DEF r
    <2> QED
      BY <1>1, <2>1, <2>3 DEF Updating, r
  <1>4. CASE ReadForLink(p)
    <2>1. PICK t \in Tasks, u \in Tasks :
            /\ Begin(p, "link") /\ t # u
            /\ Ticks(FALSE)
            /\ req' = [req EXCEPT ![p] = [Idle EXCEPT !.kind = "link", !.t = t, !.u = u, !.seen = task[t],
                                                      !.other = task[u], !.pc = "linkCheck"]]
      BY <1>4 DEF ReadForLink
    <2> DEFINE r == [Idle EXCEPT !.kind = "link", !.t = t, !.u = u, !.seen = task[t],
                                 !.other = task[u], !.pc = "linkCheck"]
    <2>2. "link" \in Kinds /\ task[t] \in RowType /\ task[u] \in RowType
      BY <2>1, BeginTyped DEF TypeOK
    <2>3. r \in ReqType /\ r.pc = "linkCheck" /\ r.t # r.u
      BY <2>1, <2>2, IdleTyped DEF ReqType
    <2> HIDE DEF r
    <2> QED
      BY <1>1, <2>1, <2>3 DEF Updating, r
  <1>5. CASE ReadForUnlink(p)
    <2>1. PICK e \in edges :
            /\ Begin(p, "unlink")
            /\ Ticks(FALSE)
            /\ req' = [req EXCEPT ![p] = [Idle EXCEPT !.kind = "unlink", !.t = e[1], !.u = e[2],
                                            !.other = task[e[2]], !.pc = "unlinkWrite"]]
      BY <1>5 DEF ReadForUnlink
    <2> DEFINE r == [Idle EXCEPT !.kind = "unlink", !.t = e[1], !.u = e[2],
                                 !.other = task[e[2]], !.pc = "unlinkWrite"]
    <2>2. "unlink" \in Kinds /\ e[1] \in Tasks /\ e[2] \in Tasks /\ task[e[2]] \in RowType
      BY <2>1, BeginTyped DEF TypeOK
    <2>3. r \in ReqType /\ r.pc = "unlinkWrite"
      BY <2>2, IdleTyped DEF ReqType
    <2> HIDE DEF r
    <2> QED
      BY <1>1, <2>1, <2>3 DEF Updating, r
  <1> QED
    BY <1>2, <1>3, <1>4, <1>5 DEF ReadingStep

LEMMA RowChanges ==
  ASSUME NEW row \in RowType
  PROVE  /\ HandedOver(row) \in RowType /\ Blocked(row) \in RowType
         /\ HandedOver(row).version = row.version + 1 /\ Blocked(row).version = row.version + 1
         /\ HandedOver(row).status = "TODO" /\ ~HandedOver(row).depBlocked
         /\ Blocked(row).status = "BLOCKED"
  <1>1. row.version + 1 \in Nat
    BY DEF RowType
  <1> DEFINE v == row.version + 1
  <1>2. HandedOver(row) = [row EXCEPT !.status = "TODO", !.depBlocked = FALSE, !.version = v]
    BY DEF HandedOver
  <1>3. Blocked(row) = [row EXCEPT !.status = "BLOCKED", !.depBlocked = TRUE, !.version = v]
    BY DEF Blocked
  <1>4. v \in Nat /\ v = row.version + 1
    BY <1>1
  <1> HIDE DEF v
  <1>5. /\ HandedOver(row) \in RowType /\ HandedOver(row).version = v
        /\ HandedOver(row).status = "TODO" /\ ~HandedOver(row).depBlocked
    BY <1>2, <1>4 DEF RowType
  <1>6. Blocked(row) \in RowType /\ Blocked(row).version = v /\ Blocked(row).status = "BLOCKED"
    BY <1>3, <1>4 DEF RowType
  <1> QED
    BY <1>4, <1>5, <1>6

LEMMA UpdatedTyped ==
  ASSUME TypeOK, NEW p \in Requests
  PROVE  /\ UpdatedRow(p) \in RowType /\ UpdatedRow(p).version = RowOf(p).version + 1
         /\ UpdatedRow(p).status = req[p].to
         /\ UpdatedRow(p).depBlocked => req[p].to = "BLOCKED"
         /\ EnteringDone(p) => UpdatedRow(p).completed
         /\ ~EnteringDone(p) /\ ~Reopening(p) => UpdatedRow(p).completed = RowOf(p).completed
  <1> DEFINE row == RowOf(p)
             to == req[p].to
             v == row.version + 1
             mark == IF to # "BLOCKED" THEN FALSE ELSE req[p].seen.depBlocked
             ended == IF EnteringDone(p) THEN TRUE ELSE IF Reopening(p) THEN FALSE ELSE row.completed
  <1>1. /\ req[p] \in ReqType /\ req[p].t \in Tasks /\ to \in Statuses \cup {"TODO", "BLOCKED"}
        /\ row \in RowType
    BY DEF TypeOK, ReqType, RowOf
  <1>2. row.version \in Nat /\ row.completed \in BOOLEAN /\ req[p].seen.depBlocked \in BOOLEAN
    BY <1>1 DEF ReqType, RowType
  <1>3. mark \in BOOLEAN /\ (mark => to = "BLOCKED")
    BY <1>2
  <1>4. /\ ended \in BOOLEAN /\ (EnteringDone(p) => ended)
        /\ (~EnteringDone(p) /\ ~Reopening(p) => ended = row.completed)
    BY <1>2
  <1>5. v \in Nat /\ v = RowOf(p).version + 1
    BY <1>2
  <1>6. UpdatedRow(p) = [row EXCEPT !.status = to, !.depBlocked = mark, !.completed = ended, !.version = v]
    BY DEF UpdatedRow, RowOf
  <1>7. row = RowOf(p) /\ to = req[p].to
    OBVIOUS
  <1> HIDE DEF mark, ended, v, row, to
  <1>8. /\ UpdatedRow(p) \in RowType /\ UpdatedRow(p).version = v /\ UpdatedRow(p).status = to
        /\ UpdatedRow(p).depBlocked = mark /\ UpdatedRow(p).completed = ended
    BY <1>1, <1>3, <1>4, <1>5, <1>6 DEF RowType
  <1> QED
    BY <1>3, <1>4, <1>5, <1>7, <1>8

\* What every writing step does to the rows: it leaves a row alone, or counts.
Rises == \A t \in Tasks : task'[t] = task[t] \/ task'[t].version = task[t].version + 1
\* It touches no row that another request holds.
Respects(p) == \A q \in Requests : q # p /\ At(q, "commit") => task'[req[q].t] = task[req[q].t]

WritingStep(p) == CheckCompletion(p) \/ Write(p) \/ Commit(p) \/ Rollback(p) \/ Lifecycle(p)
                  \/ CheckLink(p) \/ Link(p) \/ UnlinkWrite(p) \/ UnlinkCommit(p)

\* The facts of one writing step, as far as the rows are concerned.
Written(p) ==
    /\ task' \in [Tasks -> RowType]
    /\ edges' \subseteq {e \in Tasks \X Tasks : e[1] # e[2]}
    /\ req' \in [Requests -> ReqType] /\ \A q \in Requests : q # p => req'[q] = req[q]
    /\ raced' \in BOOLEAN
    /\ UNCHANGED <<policy, served>>
    /\ Rises /\ Respects(p)
    /\ req'[p].pc \in Updating => /\ At(p, "check") \/ At(p, "write")
                                  /\ req'[p].t = req[p].t /\ req'[p].seen = req[p].seen
                                  /\ UNCHANGED task
    /\ req'[p].pc = "commit" =>
          /\ RowOf(p).version = req[p].seen.version
          /\ \A q \in Requests : q # p /\ At(q, "commit") => req[q].t # req[p].t
    /\ req'[p].pc # "linkCheck"
    /\ req'[p].pc = "link" => At(p, "linkCheck") /\ req'[p].t = req[p].t /\ req'[p].u = req[p].u
    /\ StatusIsRecorded'

LEMMA Unwritten ==
  ASSUME TypeOK, StatusIsRecorded, NEW p \in Requests, UNCHANGED task
  PROVE  /\ task' \in [Tasks -> RowType]
         /\ Rises /\ Respects(p) /\ StatusIsRecorded'
  BY DEF TypeOK, Rises, Respects, StatusIsRecorded

LEMMA Checks ==
  ASSUME TypeOK, RowsInv, NEW p \in Requests, CheckCompletion(p) \/ Write(p) \/ Rollback(p) PROVE Written(p)
  <1>1. UNCHANGED <<task, edges, raced, policy, served>>
    BY DEF CheckCompletion, Write, Rollback
  <1>2. /\ task' \in [Tasks -> RowType]
        /\ Rises /\ Respects(p) /\ StatusIsRecorded'
        /\ edges' \subseteq {e \in Tasks \X Tasks : e[1] # e[2]} /\ raced' \in BOOLEAN
    BY <1>1, Unwritten DEF RowsInv, TypeOK
  <1>3. CASE Done(p)
    BY <1>1, <1>2, <1>3, DoneMoves DEF Written, Updating
  <1>4. CASE CheckCompletion(p) /\ ~Done(p)
    <2>1. req' = [req EXCEPT ![p].pc = "write", ![p].at = clock + 1] /\ At(p, "check")
      BY <1>4 DEF CheckCompletion
    <2> QED
      BY <1>1, <1>2, <2>1, StampMoves DEF Written, Updating
  <1>5. CASE Write(p) /\ ~Done(p)
    <2> DEFINE H == IF EnteringDone(p) THEN Ready(p) ELSE {}
    <2>1. /\ At(p, "write") /\ Free(p, {req[p].t}) /\ RowOf(p).version = req[p].seen.version
          /\ req' = [req EXCEPT ![p].pc = "commit", ![p].hand = H]
      BY <1>5 DEF Write, RowOf
    <2>2. H \in SUBSET Tasks
      BY DEF Ready
    <2> HIDE DEF H
    <2>3. \A q \in Requests : q # p /\ At(q, "commit") => req[q].t # req[p].t
      BY <2>1 DEF Free, Locks
    <2> QED
      BY <1>1, <1>2, <2>1, <2>2, <2>3, HoldMoves DEF Written, Updating
  <1> QED
    BY <1>3, <1>4, <1>5 DEF Rollback

LEMMA Commits ==
  ASSUME TypeOK, RowsInv, NEW p \in Requests, Commit(p) PROVE Written(p)
  <1> DEFINE r == req[p]
  <1>1. /\ At(p, "commit") /\ Free(p, r.hand) /\ Done(p) /\ UNCHANGED <<edges, policy, served, raced>>
        /\ task' = [t \in Tasks |-> IF t = r.t THEN UpdatedRow(p)
                                    ELSE IF t \in r.hand THEN HandedOver(task[t]) ELSE task[t]]
    BY DEF Commit
  <1>2. /\ r \in ReqType /\ r.t \in Tasks /\ r.to \in Statuses \cup {"TODO", "BLOCKED"} /\ r.seen = task[r.t]
        /\ \A t \in Tasks : task[t] \in RowType
    BY <1>1 DEF TypeOK, ReqType, RowsInv, DecidesOnWhatItOverwrites
  <1>3. ASSUME NEW t \in Tasks
        PROVE  /\ task'[t] \in RowType
               /\ task'[t] = task[t] \/ task'[t].version = task[t].version + 1
               /\ task'[t].status = "DONE" => task'[t].completed
               /\ task'[t].depBlocked => task'[t].status = "BLOCKED"
    <2>0. /\ task[t].status = "DONE" => task[t].completed
          /\ task[t].depBlocked => task[t].status = "BLOCKED"
      BY DEF RowsInv, StatusIsRecorded
    <2>1. CASE t = r.t
      <3>1. task'[t] = UpdatedRow(p)
        BY <1>1, <2>1
      <3>2. req[p].seen = task[t] /\ RowOf(p) = task[t]
        BY <1>2, <2>1 DEF RowOf
      <3>4. ASSUME ~EnteringDone(p), req[p].to = "DONE" PROVE UpdatedRow(p).completed
        <4>1. task[t].status = "DONE" /\ ~Reopening(p)
          BY <3>2, <3>4 DEF EnteringDone, Reopening
        <4>2. task[t].completed
          BY <2>0, <4>1
        <4>3. UpdatedRow(p).completed = task[t].completed
          BY <3>2, <3>4, <4>1, UpdatedTyped
        <4> QED
          BY <4>2, <4>3
      <3>5. EnteringDone(p) => UpdatedRow(p).completed
        BY UpdatedTyped
      <3>6. req[p].to = "DONE" => UpdatedRow(p).completed
        BY <3>4, <3>5
      <3>7. req[p].to \in Statuses \cup {"TODO", "BLOCKED"}
        BY <1>2
      <3> HIDE DEF r
      <3> QED
        BY <3>1, <3>2, <3>6, <3>7, UpdatedTyped
    <2>2. CASE t # r.t /\ t \in r.hand
      <3>1. task'[t] = HandedOver(task[t])
        BY <1>1, <2>2
      <3>2. task[t] \in RowType
        BY <1>2
      <3> QED
        BY <3>1, <3>2, RowChanges
    <2>3. CASE t # r.t /\ t \notin r.hand
      <3>1. task'[t] = task[t]
        BY <1>1, <2>3
      <3> QED
        BY <1>2, <2>0, <3>1 DEF TypeOK
    <2> QED
      BY <2>1, <2>2, <2>3
  <1>4. task' \in [Tasks -> RowType]
    <2>1. task' = [t \in Tasks |-> task'[t]]
      BY <1>1
    <2> QED
      BY <1>3, <2>1
  <1>5. StatusIsRecorded' /\ Rises
    BY <1>3 DEF StatusIsRecorded, Rises
  <1>6. Respects(p)
    <2>1. ASSUME NEW q \in Requests, q # p, At(q, "commit") PROVE task'[req[q].t] = task[req[q].t]
      <3>1. req[q].t # r.t /\ req[q].t \in Tasks
        BY <1>1, <2>1 DEF RowsInv, HoldsAlone, TypeOK, ReqType
      <3>2. req[q].t \notin r.hand
        BY <1>1, <2>1 DEF Free, Locks
      <3> QED
        BY <1>1, <3>1, <3>2
    <2> QED
      BY <2>1 DEF Respects
  <1> QED
    BY <1>1, <1>4, <1>5, <1>6, DoneMoves DEF Written, Updating, TypeOK

\* The rows of H, which nobody holds, are replaced, each counted and recorded.
LEMMA Rewrites ==
  ASSUME TypeOK, StatusIsRecorded, NEW p \in Requests, NEW H \in SUBSET Tasks, Free(p, H),
         NEW rows \in [Tasks -> RowType],
         \A t \in H : /\ rows[t].version = task[t].version + 1
                      /\ rows[t].status = "DONE" => rows[t].completed
                      /\ rows[t].depBlocked => rows[t].status = "BLOCKED",
         task' = [t \in Tasks |-> IF t \in H THEN rows[t] ELSE task[t]]
  PROVE  /\ task' \in [Tasks -> RowType]
         /\ Rises /\ Respects(p) /\ StatusIsRecorded'
  <1>1. ASSUME NEW t \in Tasks
        PROVE  /\ task'[t] \in RowType
               /\ task'[t] = task[t] \/ task'[t].version = task[t].version + 1
               /\ task'[t].status = "DONE" => task'[t].completed
               /\ task'[t].depBlocked => task'[t].status = "BLOCKED"
    <2>1. CASE t \in H
      <3>1. task'[t] = rows[t]
        BY <2>1
      <3>2. rows[t] \in RowType
        OBVIOUS
      <3>3. rows[t].status \in Statuses \cup {"TODO", "BLOCKED"}
        BY <3>2 DEF RowType
      <3> QED
        BY <2>1, <3>1, <3>2, <3>3
    <2>2. CASE t \notin H
      <3>1. task'[t] = task[t]
        BY <2>2
      <3> QED
        BY <3>1 DEF TypeOK, StatusIsRecorded
    <2> QED
      BY <2>1, <2>2
  <1>2. task' \in [Tasks -> RowType]
    <2>1. task' = [t \in Tasks |-> task'[t]]
      OBVIOUS
    <2> QED
      BY <1>1, <2>1
  <1>3. StatusIsRecorded' /\ Rises
    BY <1>1 DEF StatusIsRecorded, Rises
  <1>4. ASSUME NEW q \in Requests, q # p, At(q, "commit") PROVE task'[req[q].t] = task[req[q].t]
    <2>1. req[q].t \in Tasks /\ req[q].t \notin H
      BY <1>4 DEF Free, Locks, TypeOK, ReqType
    <2> QED
      BY <2>1
  <1> QED
    BY <1>2, <1>3, <1>4 DEF Respects

LEMMA Lives ==
  ASSUME TypeOK, RowsInv, NEW p \in Requests, Lifecycle(p) PROVE Written(p)
  <1> DEFINE r == req[p]
             row == task[r.t]
             gone == IF r.kind = "touch" THEN row.deleted ELSE r.kind = "delete"
             v == row.version + 1
             new == [row EXCEPT !.version = v, !.deleted = gone]
  <1>1. /\ Free(p, {r.t}) /\ Done(p) /\ UNCHANGED <<edges, policy, served, raced>>
        /\ IF row.version = r.seen.version
           THEN task' = [task EXCEPT ![r.t].version = @ + 1,
                           ![r.t].deleted = IF r.kind = "touch" THEN @ ELSE r.kind = "delete"]
           ELSE UNCHANGED task
    BY DEF Lifecycle
  <1>2. r.t \in Tasks /\ row \in RowType /\ row.version \in Nat /\ row.deleted \in BOOLEAN
    BY DEF TypeOK, ReqType, RowType
  <1>3. v \in Nat /\ v = row.version + 1 /\ gone \in BOOLEAN
    <2>1. v \in Nat /\ v = row.version + 1
      BY <1>2
    <2>2. CASE r.kind = "touch"
      <3>1. gone = row.deleted
        BY <2>2
      <3> QED
        BY <1>2, <2>1, <3>1
    <2>3. CASE r.kind # "touch"
      <3>1. gone = (r.kind = "delete")
        BY <2>3
      <3> QED
        BY <2>1, <3>1
    <2> QED
      BY <2>2, <2>3
  <1>4. /\ new \in RowType /\ new.version = row.version + 1 /\ new.status = row.status
        /\ new.completed = row.completed /\ new.depBlocked = row.depBlocked
    <2> HIDE DEF v, gone, row
    <2> QED
      BY <1>2, <1>3 DEF RowType
  <1>5. /\ task' \in [Tasks -> RowType]
        /\ Rises /\ Respects(p) /\ StatusIsRecorded'
    <2>1. CASE row.version = r.seen.version
      <3> DEFINE rows == [task EXCEPT ![r.t] = new]
                 H == {r.t}
      <3>1. task' = rows
        BY <1>1, <2>1
      <3>2. /\ row.status = "DONE" => row.completed
            /\ row.depBlocked => row.status = "BLOCKED"
        BY <1>2 DEF RowsInv, StatusIsRecorded
      <3> HIDE DEF new
      <3>3. rows \in [Tasks -> RowType] /\ H \in SUBSET Tasks /\ rows[r.t] = new
        BY <1>2, <1>4 DEF TypeOK
      <3>4. \A t \in Tasks : t # r.t => rows[t] = task[t]
        BY DEF TypeOK
      <3>5. rows = [t \in Tasks |-> IF t \in H THEN rows[t] ELSE task[t]]
        BY <3>3, <3>4
      <3>7. \A t \in H : /\ rows[t].version = task[t].version + 1
                         /\ rows[t].status = "DONE" => rows[t].completed
                         /\ rows[t].depBlocked => rows[t].status = "BLOCKED"
        BY <1>4, <3>2, <3>3
      <3>8. Free(p, H) /\ StatusIsRecorded
        BY <1>1 DEF RowsInv
      <3> HIDE DEF rows, H
      <3> QED
        BY <3>1, <3>3, <3>5, <3>7, <3>8, Rewrites
    <2>2. CASE row.version # r.seen.version
      BY <1>1, <2>2, Unwritten DEF RowsInv
    <2> QED
      BY <2>1, <2>2
  <1> QED
    BY <1>1, <1>5, DoneMoves DEF Written, Updating, TypeOK

LEMMA CheckLinks ==
  ASSUME TypeOK, RowsInv, NEW p \in Requests, CheckLink(p) PROVE Written(p)
  <1>1. UNCHANGED <<task, edges, policy, served>> /\ raced' \in BOOLEAN
    BY DEF CheckLink, TypeOK
  <1>2. /\ task' \in [Tasks -> RowType]
        /\ Rises /\ Respects(p) /\ StatusIsRecorded'
        /\ edges' \subseteq {e \in Tasks \X Tasks : e[1] # e[2]}
    BY <1>1, Unwritten DEF RowsInv, TypeOK
  <1>3. CASE Done(p)
    BY <1>1, <1>2, <1>3, DoneMoves DEF Written, Updating
  <1>4. CASE Step(p, "link")
    <2>1. At(p, "linkCheck")
      BY DEF CheckLink
    <2> QED
      BY <1>1, <1>2, <1>4, <2>1, StepMoves DEF Written, Updating
  <1> QED
    BY <1>3, <1>4 DEF CheckLink

LEMMA LinkWrites ==
  ASSUME TypeOK, RowsInv, NEW p \in Requests, Link(p) PROVE Written(p)
  <1> DEFINE r == req[p]
             H == {r.u}
             rows == [t \in Tasks |-> Blocked(task[t])]
  <1>1. Done(p) /\ UNCHANGED <<policy, served, raced>>
    BY DEF Link
  <1>2. r.t \in Tasks /\ r.u \in Tasks /\ \A t \in Tasks : task[t] \in RowType
    BY DEF TypeOK, ReqType
  <1>3. edges' \subseteq {e \in Tasks \X Tasks : e[1] # e[2]}
    <2>1. At(p, "link") /\ (edges' = edges \/ edges' = edges \cup {<<r.t, r.u>>})
      BY DEF Link
    <2> QED
      BY <1>2, <2>1 DEF TypeOK, RowsInv, Apart
  <1>4. /\ task' \in [Tasks -> RowType]
        /\ Rises /\ Respects(p) /\ StatusIsRecorded'
    <2>1. CASE UNCHANGED task
      BY <2>1, Unwritten DEF RowsInv
    <2>2. CASE ~UNCHANGED task
      <3>1. /\ Free(p, H) /\ task' = [task EXCEPT ![r.u] = Blocked(@)]
        BY <2>2 DEF Link
      <3>2. \A t \in Tasks : /\ Blocked(task[t]) \in RowType
                             /\ Blocked(task[t]).version = task[t].version + 1
                             /\ Blocked(task[t]).status = "BLOCKED"
        BY <1>2, RowChanges
      <3>3. /\ rows \in [Tasks -> RowType]
            /\ \A t \in H : /\ rows[t].version = task[t].version + 1
                            /\ rows[t].status = "DONE" => rows[t].completed
                            /\ rows[t].depBlocked => rows[t].status = "BLOCKED"
        BY <1>2, <3>2
      <3>4. task' = [t \in Tasks |-> IF t \in H THEN rows[t] ELSE task[t]]
        BY <3>1 DEF TypeOK
      <3>6. H \in SUBSET Tasks /\ StatusIsRecorded
        BY <1>2 DEF RowsInv
      <3> HIDE DEF rows, H
      <3> QED
        BY <3>1, <3>3, <3>4, <3>6, Rewrites
    <2> QED
      BY <2>1, <2>2
  <1> QED
    BY <1>1, <1>3, <1>4, DoneMoves DEF Written, Updating, TypeOK

LEMMA Unlinks ==
  ASSUME TypeOK, RowsInv, NEW p \in Requests, UnlinkWrite(p) PROVE Written(p)
  <1> DEFINE r == req[p]
             H == IF /\ Incomplete(r.u, edges \ {Edge(p)}) = {}
                     /\ r.other.depBlocked /\ r.other.status = "BLOCKED"
                  THEN {r.u} ELSE {}
  <1>1. UNCHANGED <<task, edges, raced, policy, served>>
    BY DEF UnlinkWrite
  <1>2. /\ task' \in [Tasks -> RowType]
        /\ Rises /\ Respects(p) /\ StatusIsRecorded'
        /\ edges' \subseteq {e \in Tasks \X Tasks : e[1] # e[2]} /\ raced' \in BOOLEAN
    BY <1>1, Unwritten DEF RowsInv, TypeOK
  <1>3. CASE Done(p)
    BY <1>1, <1>2, <1>3, DoneMoves DEF Written, Updating
  <1>4. CASE ~Done(p)
    <2>1. req' = [req EXCEPT ![p].pc = "unlinkCommit", ![p].hand = H]
      BY <1>4 DEF UnlinkWrite
    <2>2. H \in SUBSET Tasks
      BY DEF TypeOK, ReqType
    <2> HIDE DEF H
    <2> QED
      BY <1>1, <1>2, <2>1, <2>2, HoldMoves DEF Written, Updating
  <1> QED
    BY <1>3, <1>4

LEMMA UnlinkCommits ==
  ASSUME TypeOK, RowsInv, NEW p \in Requests, UnlinkCommit(p) PROVE Written(p)
  <1> DEFINE H == req[p].hand
             rows == [t \in Tasks |-> HandedOver(task[t])]
  <1>1. /\ Free(p, H) /\ Done(p) /\ UNCHANGED <<policy, served, raced>>
        /\ task' = [t \in Tasks |-> IF t \in H THEN HandedOver(task[t]) ELSE task[t]]
        /\ edges' \subseteq edges
    BY DEF UnlinkCommit
  <1>2. H \in SUBSET Tasks /\ StatusIsRecorded /\ \A t \in Tasks : task[t] \in RowType
    BY DEF TypeOK, ReqType, RowsInv
  <1>3. \A t \in Tasks : /\ HandedOver(task[t]) \in RowType
                         /\ HandedOver(task[t]).version = task[t].version + 1
                         /\ HandedOver(task[t]).status = "TODO" /\ ~HandedOver(task[t]).depBlocked
    BY <1>2, RowChanges
  <1>4. /\ rows \in [Tasks -> RowType]
        /\ \A t \in H : /\ rows[t].version = task[t].version + 1
                        /\ rows[t].status = "DONE" => rows[t].completed
                        /\ rows[t].depBlocked => rows[t].status = "BLOCKED"
    BY <1>2, <1>3
  <1>5. /\ task' = [t \in Tasks |-> IF t \in H THEN rows[t] ELSE task[t]]
    BY <1>1, <1>3
  <1> HIDE DEF rows, H
  <1>6. /\ task' \in [Tasks -> RowType]
        /\ Rises /\ Respects(p) /\ StatusIsRecorded'
    BY <1>1, <1>2, <1>4, <1>5, Rewrites
  <1> QED
    BY <1>1, <1>6, DoneMoves DEF Written, Updating, TypeOK

LEMMA Writes ==
  ASSUME TypeOK, RowsInv, NEW p \in Requests, WritingStep(p) PROVE Written(p)
  BY Checks, Commits, Lives, CheckLinks, LinkWrites, Unlinks, UnlinkCommits DEF WritingStep

-----------------------------------------------------------------------------
(* Rows *)

LEMMA RowsKept ==
  ASSUME TypeOK, RowsInv, NEW p \in Requests, Written(p) PROVE RowsInv'
  <1>2. \A q \in Requests : q # p => req'[q] = req[q]
    BY DEF Written
  <1>3. \A q \in Requests : req[q] \in ReqType /\ req[q].t \in Tasks /\ RowOf(q) \in RowType
                           /\ RowOf(q).version \in Nat /\ req[q].seen.version \in Nat
    BY DEF TypeOK, ReqType, RowType, RowOf
  <1>4. Reads'
    <2>1. ASSUME NEW q \in Requests, q # p, req[q].pc \in Updating
          PROVE  /\ req'[q].seen.version <= task'[req'[q].t].version
                 /\ req'[q].seen.version = task'[req'[q].t].version => req'[q].seen = task'[req'[q].t]
      <3>1. /\ req[q].seen.version <= RowOf(q).version
            /\ req[q].seen.version = RowOf(q).version => req[q].seen = RowOf(q)
        BY <2>1 DEF RowsInv, Reads, Read
      <3>2. task'[req[q].t] = RowOf(q) \/ task'[req[q].t].version = RowOf(q).version + 1
        BY <1>3 DEF Written, Rises, RowOf
      <3>3. CASE task'[req[q].t] = RowOf(q)
        BY <1>2, <2>1, <3>1, <3>3
      <3>4. CASE task'[req[q].t].version = RowOf(q).version + 1
        BY <1>2, <1>3, <2>1, <3>1, <3>4
      <3> QED
        BY <3>2, <3>3, <3>4
    <2>2. ASSUME req'[p].pc \in Updating
          PROVE  /\ req'[p].seen.version <= task'[req'[p].t].version
                 /\ req'[p].seen.version = task'[req'[p].t].version => req'[p].seen = task'[req'[p].t]
      <3>1. /\ req[p].pc \in Updating /\ task' = task
            /\ req'[p].t = req[p].t /\ req'[p].seen = req[p].seen
        BY <2>2 DEF Written, Updating, At
      <3> QED
        BY <3>1 DEF RowsInv, Reads, Read, RowOf
    <2>3. ASSUME NEW q \in Requests PROVE Read(q)'
      <3>1. CASE q = p
        BY <2>2, <3>1 DEF Read, RowOf
      <3>2. CASE q # p
        BY <1>2, <2>1, <3>2 DEF Read, RowOf
      <3> QED
        BY <3>1, <3>2
    <2> QED
      BY <2>3 DEF Reads
  <1>5. HoldsAlone'
    <2>1. \A q \in Requests : q # p /\ At(q, "commit") /\ req'[p].pc = "commit" => req[q].t # req'[p].t
      BY DEF Written, Updating
    <2> QED
      BY <1>2, <2>1 DEF RowsInv, HoldsAlone, At
  <1>6. DecidesOnWhatItOverwrites'
    <2>1. ASSUME NEW q \in Requests, At(q, "commit")', q # p PROVE task'[req'[q].t] = req'[q].seen
      <3>1. At(q, "commit") /\ req'[q] = req[q]
        BY <1>2, <2>1 DEF At
      <3>2. task'[req[q].t] = task[req[q].t] /\ task[req[q].t] = req[q].seen
        BY <2>1, <3>1 DEF Written, Respects, RowsInv, DecidesOnWhatItOverwrites
      <3> QED
        BY <3>1, <3>2
    <2>2. ASSUME At(p, "commit")' PROVE task'[req'[p].t] = req'[p].seen
      <3>1. req'[p].pc = "commit" /\ req'[p].pc \in Updating
        BY <2>2 DEF At, Updating
      <3>2. /\ At(p, "check") \/ At(p, "write")
            /\ req'[p].t = req[p].t /\ req'[p].seen = req[p].seen /\ task' = task
            /\ RowOf(p).version = req[p].seen.version
        BY <3>1 DEF Written
      <3>3. req[p].seen = RowOf(p)
        BY <3>2 DEF RowsInv, Reads, Read, At, Updating
      <3> QED
        BY <3>2, <3>3 DEF RowOf
    <2> QED
      BY <2>1, <2>2 DEF DecidesOnWhatItOverwrites
  <1>7. Apart'
    BY <1>2 DEF Written, RowsInv, Apart, At
  <1>8. StatusIsRecorded'
    BY DEF Written
  <1> QED
    BY <1>4, <1>5, <1>6, <1>7, <1>8 DEF RowsInv

-----------------------------------------------------------------------------
(* The history *)

\* What a step does to the history: the rows of the tasks that e has entries for
\* are counted and take the status of their entries, which are stamped by now; one
\* that sorts before another says TODO.
Chronicled(e) ==
    /\ DOMAIN e \subseteq Tasks
    /\ \A t \in DOMAIN e : /\ e[t] \in EntryType /\ e[t].at <= clock'
                           /\ task'[t].version = task[t].version + 1 /\ task'[t].status = e[t].to
                           /\ last[t].at > e[t].at => e[t].to = "TODO"
    /\ \A t \in Tasks : t \notin DOMAIN e => task'[t].status = task[t].status
    /\ last' = Recorded(e)
    /\ \A t \in DOMAIN e : t \in outdated' <=> last[t].at > e[t].at
    /\ \A t : t \notin DOMAIN e => (t \in outdated' <=> t \in outdated)
    /\ clock' \in Nat /\ clock' >= clock

\* The request whose step it is has no stamp after it, or takes one, or keeps the one it has.
Stamps(p) ==
    \/ req'[p].pc \notin {"write", "commit"}
    \/ /\ UNCHANGED <<task, last>> /\ req'[p].at = clock' /\ req'[p].t \in Tasks
    \/ /\ UNCHANGED <<task, last>> /\ At(p, "write")
       /\ req'[p].t = req[p].t /\ req'[p].seen = req[p].seen /\ req'[p].at = req[p].at

HistoryTyped == last \in [Tasks -> EntryType] /\ clock \in Nat /\ outdated \subseteq Tasks

LEMMA HistoryKept ==
  ASSUME TypeOK, Reads, HistoryInv, NEW p \in Requests, NEW e, Chronicled(e), Stamps(p), Rises,
         \A q \in Requests : q # p => req'[q] = req[q]
  PROVE  HistoryTyped' /\ HistoryInv'
  <1>1. \A t \in Tasks : /\ last[t] \in EntryType /\ last[t].at \in Nat /\ last[t].at <= clock
                         /\ task[t].version \in Nat
    BY DEF TypeOK, EntryType, RowType, HistoryInv
  <1>2. \A t \in DOMAIN e : e[t] \in EntryType /\ e[t].at \in Nat /\ e[t].at <= clock' /\ t \in Tasks
    BY DEF Chronicled, EntryType
  <1>3. \A t \in Tasks : t \notin DOMAIN e => last'[t] = last[t]
    BY DEF Chronicled, Recorded
  <1>4. \A t \in Tasks : t \in DOMAIN e => last'[t] = IF last[t].at > e[t].at THEN last[t] ELSE e[t]
    BY DEF Chronicled, Recorded, Newest
  <1>5. clock \in Nat /\ clock' \in Nat /\ clock' >= clock
    BY DEF Chronicled, TypeOK
  <1>6. \A t \in Tasks : last'[t] \in EntryType /\ last'[t].at <= clock'
    <2> TAKE t \in Tasks
    <2>1. CASE t \notin DOMAIN e
      BY <1>1, <1>3, <1>5, <2>1
    <2>2. CASE t \in DOMAIN e /\ last[t].at > e[t].at
      BY <1>1, <1>4, <1>5, <2>2
    <2>3. CASE t \in DOMAIN e /\ ~(last[t].at > e[t].at)
      BY <1>2, <1>4, <2>3
    <2> QED
      BY <2>1, <2>2, <2>3
  <1>7. HistoryTyped'
    <2>1. last' = [t \in Tasks |-> last'[t]]
      BY DEF Chronicled, Recorded
    <2>2. last' \in [Tasks -> EntryType]
      BY <1>6, <2>1
    <2>3. outdated' \subseteq Tasks
      BY <1>2 DEF Chronicled, TypeOK
    <2> QED
      BY <1>5, <2>2, <2>3 DEF HistoryTyped, EntryType
  <1>8. ASSUME NEW q \in Requests PROVE Stamped(q)'
    <2> SUFFICES ASSUME req'[q].pc \in {"write", "commit"}
                 PROVE  /\ req'[q].at <= clock'
                        /\ req'[q].seen.version = task'[req'[q].t].version => last'[req'[q].t].at <= req'[q].at
      BY DEF Stamped, RowOf
    <2>1. CASE q = p /\ UNCHANGED <<task, last>> /\ req'[p].at = clock' /\ req'[p].t \in Tasks
      BY <1>5, <1>6, <2>1
    <2>2. CASE q = p /\ UNCHANGED <<task, last>> /\ At(p, "write")
               /\ req'[p].t = req[p].t /\ req'[p].seen = req[p].seen /\ req'[p].at = req[p].at
      <3>1. Stamped(p)
        BY DEF HistoryInv
      <3>2. /\ req[p].at <= clock /\ req[p].at \in Nat
            /\ req[p].seen.version = task[req[p].t].version => last[req[p].t].at <= req[p].at
        BY <2>2, <3>1 DEF Stamped, RowOf, At, TypeOK, ReqType
      <3> QED
        BY <1>5, <2>2, <3>2
    <2>3. CASE q # p
      <3> DEFINE u == req[q].t
      <3>1. req'[q] = req[q] /\ req[q].pc \in {"write", "commit"} /\ u \in Tasks /\ req[q].at \in Nat
            /\ req[q].seen.version \in Nat
        BY <2>3 DEF TypeOK, ReqType, RowType
      <3>2. /\ req[q].at <= clock
            /\ req[q].seen.version = task[u].version => last[u].at <= req[q].at
        BY <3>1 DEF HistoryInv, Stamped, RowOf
      <3>3. req[q].seen.version <= task[u].version
        BY <3>1 DEF Reads, Read, Updating, RowOf
      <3> HIDE DEF u
      <3>4. CASE task'[u].version = task[u].version + 1
        BY <1>1, <1>5, <3>1, <3>2, <3>3, <3>4 DEF u
      <3>5. CASE task'[u] = task[u]
        <4>1. u \notin DOMAIN e
          BY <1>1, <3>1, <3>5 DEF Chronicled
        <4> QED
          BY <1>3, <1>5, <3>1, <3>2, <3>5, <4>1 DEF u
      <3> QED
        BY <3>1, <3>4, <3>5 DEF Rises
    <2> QED
      BY <2>1, <2>2, <2>3 DEF Stamps
  <1>9. HistoryTellsStatus'
    <2>1. ASSUME NEW t \in Tasks
          PROVE  IF t \in outdated' THEN task'[t].status = "TODO" ELSE last'[t].to = task'[t].status
      <3>1. CASE t \notin DOMAIN e
        <4>1. task'[t].status = task[t].status /\ last'[t] = last[t] /\ (t \in outdated' <=> t \in outdated)
          BY <1>3, <3>1 DEF Chronicled
        <4> QED
          BY <4>1 DEF HistoryInv, HistoryTellsStatus
      <3>2. CASE t \in DOMAIN e
        <4>1. task'[t].status = e[t].to /\ (t \in outdated' <=> last[t].at > e[t].at)
              /\ (last[t].at > e[t].at => e[t].to = "TODO")
          BY <3>2 DEF Chronicled
        <4> QED
          BY <1>4, <3>2, <4>1
      <3> QED
        BY <3>1, <3>2
    <2> QED
      BY <2>1 DEF HistoryTellsStatus
  <1> QED
    BY <1>6, <1>7, <1>8, <1>9 DEF HistoryInv

\* Steps that record nothing.
LEMMA NothingRecorded ==
  ASSUME TypeOK, UNCHANGED <<last, outdated>>, clock' \in Nat, clock' >= clock,
         \A t \in Tasks : task'[t].status = task[t].status
  PROVE  Chronicled(<<>>)
  <1>1. DOMAIN <<>> = {}
    OBVIOUS
  <1>2. last = [t \in Tasks |-> last[t]]
    BY DEF TypeOK
  <1>3. Recorded(<<>>) = [t \in Tasks |-> last[t]]
    BY <1>1 DEF Recorded
  <1> QED
    BY <1>1, <1>2, <1>3 DEF Chronicled

\* Every writing step records what it does to the status of the rows.
LEMMA CheckRecords ==
  ASSUME TypeOK, RowsInv, HistoryInv, NEW p \in Requests, CheckCompletion(p) \/ Write(p) \/ Rollback(p)
  PROVE  Chronicled(<<>>) /\ Stamps(p)
  <1>1. UNCHANGED <<task, last, outdated>> /\ req[p].t \in Tasks /\ clock \in Nat
    BY DEF CheckCompletion, Write, Rollback, TypeOK, ReqType
  <1>2. CASE Done(p) /\ (Ticks(FALSE) \/ clock' = clock)
    <2>1. req'[p].pc \notin {"write", "commit"}
      BY <1>2, DoneMoves
    <2>2. clock' \in Nat /\ clock' >= clock
      BY <1>1, <1>2 DEF Ticks
    <2> QED
      BY <1>1, <2>1, <2>2, NothingRecorded DEF Stamps
  <1>3. CASE Ticks(TRUE) /\ req' = [req EXCEPT ![p].pc = "write", ![p].at = clock + 1]
    <2>1. clock' = clock + 1
      BY <1>3 DEF Ticks
    <2>2. req'[p].t = req[p].t /\ req'[p].at = clock'
      BY <1>3, <2>1, StampMoves
    <2>3. clock' \in Nat /\ clock' >= clock
      BY <1>1, <2>1
    <2> QED
      BY <1>1, <2>2, <2>3, NothingRecorded DEF Stamps
  <1>4. CASE Write(p) /\ ~Done(p)
    <2> DEFINE H == IF EnteringDone(p) THEN Ready(p) ELSE {}
    <2>1. At(p, "write") /\ req' = [req EXCEPT ![p].pc = "commit", ![p].hand = H] /\ clock' = clock
      BY <1>4 DEF Write
    <2>2. H \in SUBSET Tasks
      BY DEF Ready
    <2> HIDE DEF H
    <2>3. req'[p].t = req[p].t /\ req'[p].seen = req[p].seen /\ req'[p].at = req[p].at
      BY <2>1, <2>2, HoldMoves
    <2>4. clock' \in Nat /\ clock' >= clock
      BY <1>1, <2>1
    <2> QED
      BY <1>1, <2>1, <2>3, <2>4, NothingRecorded DEF Stamps
  <1>5. CASE CheckCompletion(p)
    BY <1>2, <1>3, <1>5 DEF CheckCompletion
  <1>6. CASE Rollback(p)
    BY <1>2, <1>6 DEF Rollback
  <1>7. CASE Write(p) /\ Done(p)
    BY <1>2, <1>7 DEF Write
  <1> QED
    BY <1>4, <1>5, <1>6, <1>7

\* Of a commit the task's own entry never sorts before another: the task still has the version
\* that was read before the stamp was taken.
LEMMA CommitRecords ==
  ASSUME TypeOK, RowsInv, HistoryInv, NEW p \in Requests, Commit(p)
  PROVE  Chronicled(Entries(p)) /\ Stamps(p)
  <1> DEFINE r == req[p]
             e == Entries(p)
  <1>1. /\ At(p, "commit") /\ Done(p) /\ UNCHANGED clock
        /\ task' = [t \in Tasks |-> IF t = r.t THEN UpdatedRow(p)
                                    ELSE IF t \in r.hand THEN HandedOver(task[t]) ELSE task[t]]
        /\ last' = Recorded(e)
        /\ outdated' = (outdated \ DOMAIN e) \cup {t \in r.hand \ {r.t} : last[t].at > r.at}
    BY DEF Commit
  <1>2. /\ r \in ReqType /\ r.t \in Tasks /\ r.hand \subseteq Tasks /\ r.to \in Statuses \cup {"TODO", "BLOCKED"}
        /\ r.at \in Nat /\ r.seen = task[r.t] /\ \A t \in Tasks : task[t] \in RowType
    BY <1>1 DEF TypeOK, ReqType, RowsInv, DecidesOnWhatItOverwrites
  <1>3. /\ DOMAIN e = r.hand \cup (IF r.to # r.seen.status THEN {r.t} ELSE {})
        /\ \A t \in DOMAIN e : e[t] = [to |-> IF t = r.t THEN r.to ELSE "TODO", at |-> r.at]
    BY DEF Entries
  <1>4. \A t \in DOMAIN e : /\ e[t] \in EntryType /\ e[t].at = r.at
                           /\ e[t].to = IF t = r.t THEN r.to ELSE "TODO"
    <2> TAKE t \in DOMAIN e
    <2>1. CASE t = r.t
      <3>1. e[t] = [to |-> r.to, at |-> r.at]
        BY <1>3, <2>1
      <3> HIDE DEF e, r
      <3> QED
        BY <1>2, <2>1, <3>1 DEF EntryType
    <2>2. CASE t # r.t
      <3>1. e[t] = [to |-> "TODO", at |-> r.at]
        BY <1>3, <2>2
      <3> HIDE DEF e, r
      <3> QED
        BY <1>2, <2>2, <3>1 DEF EntryType
    <2> QED
      BY <2>1, <2>2
  <1>5. DOMAIN e \subseteq Tasks /\ (r.t \in DOMAIN e \/ r.to = r.seen.status)
    BY <1>2, <1>3
  <1>6. r.at <= clock /\ last[r.t].at <= r.at /\ last[r.t].at \in Nat
    <2>1. Stamped(p) /\ r.seen.version = RowOf(p).version
      BY <1>2 DEF HistoryInv, RowOf
    <2>2. last[r.t] \in EntryType
      BY <1>2 DEF TypeOK
    <2> QED
      BY <1>1, <2>1, <2>2 DEF Stamped, At, EntryType
  <1>7. UpdatedRow(p).version = task[r.t].version + 1 /\ UpdatedRow(p).status = r.to
    BY UpdatedTyped DEF RowOf
  <1>8. \A t \in Tasks : t # r.t /\ t \in r.hand =>
          task'[t].version = task[t].version + 1 /\ task'[t].status = "TODO"
    BY <1>1, <1>2, RowChanges
  <1>9. task'[r.t].version = task[r.t].version + 1 /\ task'[r.t].status = r.to
    BY <1>1, <1>2, <1>7
  <1>10. \A t \in Tasks : t # r.t /\ t \notin r.hand => task'[t] = task[t]
    BY <1>1
  <1>11. clock' \in Nat /\ clock' >= clock
    BY <1>1 DEF TypeOK
  <1>12. ASSUME NEW t \in DOMAIN e
         PROVE  /\ e[t] \in EntryType /\ e[t].at <= clock'
                /\ task'[t].version = task[t].version + 1 /\ task'[t].status = e[t].to
                /\ last[t].at > e[t].at => e[t].to = "TODO"
                /\ t \in outdated' <=> last[t].at > e[t].at
    <2>1. CASE t = r.t
      BY <1>1, <1>2, <1>4, <1>6, <1>9, <2>1
    <2>2. CASE t # r.t
      <3>1. t \in r.hand /\ t \in Tasks
        BY <1>2, <1>3, <2>2
      <3> QED
        BY <1>1, <1>4, <1>6, <1>8, <2>2, <3>1
    <2> QED
      BY <2>1, <2>2
  <1>13. \A t \in Tasks : t \notin DOMAIN e => task'[t].status = task[t].status
    BY <1>2, <1>3, <1>9, <1>10
  <1>14. \A t : t \notin DOMAIN e => (t \in outdated' <=> t \in outdated)
    BY <1>1, <1>3
  <1>15. Stamps(p)
    BY <1>1, DoneMoves DEF Stamps
  <1> HIDE DEF e
  <1> QED
    BY <1>1, <1>5, <1>11, <1>12, <1>13, <1>14, <1>15 DEF Chronicled, e

LEMMA LifeRecords ==
  ASSUME TypeOK, NEW p \in Requests, Lifecycle(p) PROVE Chronicled(<<>>) /\ Stamps(p)
  <1>1. /\ Done(p) /\ UNCHANGED <<last, clock, outdated>>
        /\ \/ UNCHANGED task
           \/ task' = [task EXCEPT ![req[p].t].version = @ + 1,
                         ![req[p].t].deleted = IF req[p].kind = "touch" THEN @ ELSE req[p].kind = "delete"]
    BY DEF Lifecycle
  <1>2. \A t \in Tasks : task'[t].status = task[t].status
    BY <1>1 DEF TypeOK, RowType
  <1>3. clock' \in Nat /\ clock' >= clock
    BY <1>1 DEF TypeOK
  <1> QED
    BY <1>1, <1>2, <1>3, DoneMoves, NothingRecorded DEF Stamps

LEMMA CheckLinkRecords ==
  ASSUME TypeOK, NEW p \in Requests, CheckLink(p) \/ UnlinkWrite(p) PROVE Chronicled(<<>>) /\ Stamps(p)
  <1>1. UNCHANGED <<task, last, clock, outdated>>
    BY DEF CheckLink, UnlinkWrite
  <1>2. Chronicled(<<>>)
    BY <1>1, NothingRecorded DEF TypeOK
  <1>3. CASE Done(p)
    BY <1>2, <1>3, DoneMoves DEF Stamps
  <1>4. CASE CheckLink(p) /\ ~Done(p)
    <2>1. Step(p, "link")
      BY <1>4 DEF CheckLink
    <2> QED
      BY <1>2, <2>1, StepMoves DEF Stamps
  <1>5. CASE UnlinkWrite(p) /\ ~Done(p)
    <2> DEFINE H == IF /\ Incomplete(req[p].u, edges \ {Edge(p)}) = {}
                       /\ req[p].other.depBlocked /\ req[p].other.status = "BLOCKED"
                    THEN {req[p].u} ELSE {}
    <2>1. req' = [req EXCEPT ![p].pc = "unlinkCommit", ![p].hand = H]
      BY <1>5 DEF UnlinkWrite
    <2>2. H \in SUBSET Tasks
      BY DEF TypeOK, ReqType
    <2> HIDE DEF H
    <2> QED
      BY <1>2, <2>1, <2>2, HoldMoves DEF Stamps
  <1> QED
    BY <1>3, <1>4, <1>5

\* What is stamped in its transaction sorts after everything the task has.
LEMMA NowRecords ==
  ASSUME TypeOK, HistoryInv, NEW H \in SUBSET Tasks, NEW to \in {"TODO", "BLOCKED"}, clock' = clock + 1,
         last' = Recorded([t \in H |-> [to |-> to, at |-> clock + 1]]), outdated' = outdated \ H,
         \A t \in H : task'[t].version = task[t].version + 1 /\ task'[t].status = to,
         \A t \in Tasks \ H : task'[t] = task[t]
  PROVE  Chronicled([t \in H |-> [to |-> to, at |-> clock + 1]])
  <1> DEFINE n == clock + 1
             e == [t \in H |-> [to |-> to, at |-> n]]
  <1>1. n \in Nat /\ clock' = n /\ n >= clock
    BY DEF TypeOK
  <1>2. DOMAIN e = H /\ \A t \in H : e[t] = [to |-> to, at |-> n]
    OBVIOUS
  <1>3. \A t \in H : e[t] \in EntryType /\ e[t].at = n /\ e[t].to = to
    BY <1>1, <1>2 DEF EntryType
  <1>4. \A t \in H : last[t].at \in Nat /\ ~(last[t].at > n)
    BY <1>1 DEF TypeOK, EntryType, HistoryInv
  <1>5. last' = Recorded(e)
    OBVIOUS
  <1> HIDE DEF e, n
  <1>6. Chronicled(e)
    BY <1>1, <1>2, <1>3, <1>4, <1>5 DEF Chronicled
  <1> QED
    BY <1>6 DEF e, n

LEMMA LinkRecords ==
  ASSUME TypeOK, HistoryInv, NEW p \in Requests, Link(p) PROVE (\E e : Chronicled(e)) /\ Stamps(p)
  <1> DEFINE H == {req[p].u}
  <1>1. Stamps(p)
    BY DoneMoves DEF Link, Stamps
  <1>2. H \in SUBSET Tasks /\ req[p].u \in Tasks /\ \A t \in Tasks : task[t] \in RowType
    BY DEF TypeOK, ReqType
  <1>3. CASE UNCHANGED <<task, last, clock, outdated>>
    <2>1. Chronicled(<<>>)
      BY <1>3, NothingRecorded DEF TypeOK
    <2> QED
      BY <1>1, <2>1
  <1>4. CASE ~UNCHANGED <<task, last, clock, outdated>>
    <2>1. /\ task' = [task EXCEPT ![req[p].u] = Blocked(@)] /\ Ticks(TRUE) /\ outdated' = outdated \ H
          /\ last' = Recorded([t \in H |-> [to |-> "BLOCKED", at |-> clock + 1]])
      BY <1>4 DEF Link
    <2>2. clock' = clock + 1
      BY <2>1 DEF Ticks
    <2>3. \A t \in H : task'[t].version = task[t].version + 1 /\ task'[t].status = "BLOCKED"
      BY <1>2, <2>1, RowChanges DEF TypeOK
    <2>4. \A t \in Tasks \ H : task'[t] = task[t]
      BY <2>1 DEF TypeOK
    <2> HIDE DEF H
    <2>5. Chronicled([t \in H |-> [to |-> "BLOCKED", at |-> clock + 1]])
      BY <1>2, <2>1, <2>2, <2>3, <2>4, NowRecords
    <2> QED
      BY <1>1, <2>5
  <1> QED
    BY <1>3, <1>4

LEMMA UnlinkRecords ==
  ASSUME TypeOK, HistoryInv, NEW p \in Requests, UnlinkCommit(p) PROVE (\E e : Chronicled(e)) /\ Stamps(p)
  <1> DEFINE H == req[p].hand
  <1>1. Stamps(p)
    BY DoneMoves DEF UnlinkCommit, Stamps
  <1>2. H \in SUBSET Tasks /\ \A t \in Tasks : task[t] \in RowType
    BY DEF TypeOK, ReqType
  <1>3. /\ task' = [t \in Tasks |-> IF t \in H THEN HandedOver(task[t]) ELSE task[t]]
        /\ last' = Recorded([t \in H |-> [to |-> "TODO", at |-> clock + 1]])
        /\ Ticks(H # {}) /\ outdated' = outdated \ H
    BY DEF UnlinkCommit
  <1>4. CASE H = {}
    <2>1. last' = last /\ outdated' = outdated /\ clock' = clock
      <3>1. DOMAIN [t \in H |-> [to |-> "TODO", at |-> clock + 1]] = {}
        BY <1>4
      <3>2. last' = [t \in Tasks |-> last[t]]
        BY <1>3, <3>1 DEF Recorded
      <3>3. last' = last
        BY <3>2 DEF TypeOK
      <3> QED
        BY <1>3, <1>4, <3>3 DEF Ticks
    <2>2. \A t \in Tasks : task'[t].status = task[t].status
      BY <1>3, <1>4
    <2>3. Chronicled(<<>>)
      BY <2>1, <2>2, NothingRecorded DEF TypeOK
    <2> QED
      BY <1>1, <2>3
  <1>5. CASE H # {}
    <2>1. clock' = clock + 1
      BY <1>3, <1>5 DEF Ticks
    <2>2. \A t \in H : task'[t].version = task[t].version + 1 /\ task'[t].status = "TODO"
      BY <1>2, <1>3, RowChanges
    <2>3. \A t \in Tasks \ H : task'[t] = task[t]
      BY <1>3
    <2> HIDE DEF H
    <2>4. Chronicled([t \in H |-> [to |-> "TODO", at |-> clock + 1]])
      BY <1>2, <1>3, <2>1, <2>2, <2>3, NowRecords
    <2> QED
      BY <1>1, <2>4
  <1> QED
    BY <1>4, <1>5

LEMMA WritesRecorded ==
  ASSUME TypeOK, RowsInv, HistoryInv, NEW p \in Requests, WritingStep(p)
  PROVE  TypeOK' /\ HistoryInv'
  <1>1. (\E e : Chronicled(e)) /\ Stamps(p)
    <2>1. CASE CheckCompletion(p) \/ Write(p) \/ Rollback(p)
      BY <2>1, CheckRecords
    <2>2. CASE Commit(p)
      BY <2>2, CommitRecords
    <2>3. CASE Lifecycle(p)
      BY <2>3, LifeRecords
    <2>4. CASE CheckLink(p) \/ UnlinkWrite(p)
      BY <2>4, CheckLinkRecords
    <2>5. CASE Link(p)
      BY <2>5, LinkRecords
    <2>6. CASE UnlinkCommit(p)
      BY <2>6, UnlinkRecords
    <2> QED
      BY <2>1, <2>2, <2>3, <2>4, <2>5, <2>6 DEF WritingStep
  <1>2. Written(p)
    BY Writes
  <1>3. PICK e : Chronicled(e)
    BY <1>1
  <1>4. HistoryTyped' /\ HistoryInv'
    BY <1>1, <1>2, <1>3, HistoryKept DEF Written, RowsInv
  <1> QED
    BY <1>2, <1>4 DEF Written, HistoryTyped, TypeOK

LEMMA ReadsRecorded ==
  ASSUME TypeOK, RowsInv, HistoryInv, NEW p \in Requests, ReadingStep(p)
  PROVE  HistoryInv'
  <1>1. /\ UNCHANGED <<task, last, outdated>> /\ req'[p].pc # "commit" /\ clock' \in Nat /\ clock' >= clock
        /\ req'[p].pc = "write" => req'[p].at = clock'
        /\ \A q \in Requests : q # p => req'[q] = req[q]
    BY ReadingMoves
  <1>2. req'[p].t \in Tasks
    BY ReadingMoves DEF TypeOK, ReqType
  <1>3. Stamps(p)
    BY <1>1, <1>2 DEF Stamps
  <1>4. Rises
    BY <1>1 DEF Rises
  <1>5. Chronicled(<<>>)
    BY <1>1, NothingRecorded
  <1> QED
    BY <1>1, <1>3, <1>4, <1>5, HistoryKept DEF RowsInv

LEMMA ReadingKeepsRows ==
  ASSUME TypeOK, RowsInv, NEW p \in Requests, ReadingStep(p) PROVE RowsInv'
  <1>1. /\ UNCHANGED task /\ req'[p].pc \notin {"commit", "link"}
        /\ req'[p].pc \in Updating => req'[p].seen = task[req'[p].t]
        /\ req'[p].pc = "linkCheck" => req'[p].t # req'[p].u
        /\ \A q \in Requests : q # p => req'[q] = req[q]
    BY ReadingMoves
  <1>2. TypeOK'
    BY ReadingMoves
  <1>3. Reads'
    <2>1. ASSUME NEW q \in Requests PROVE Read(q)'
      <3>1. CASE q # p
        BY <1>1, <3>1 DEF RowsInv, Reads, Read, RowOf
      <3>2. ASSUME q = p, req'[p].pc \in Updating
            PROVE  req'[p].seen = task'[req'[p].t] /\ task'[req'[p].t].version \in Nat
        BY <1>1, <1>2, <3>2 DEF TypeOK, ReqType, RowType
      <3>3. CASE q = p
        BY <3>2, <3>3 DEF Read, RowOf
      <3> QED
        BY <3>1, <3>3
    <2> QED
      BY <2>1 DEF Reads
  <1>4. HoldsAlone' /\ DecidesOnWhatItOverwrites'
    BY <1>1 DEF RowsInv, HoldsAlone, DecidesOnWhatItOverwrites, At
  <1>5. StatusIsRecorded'
    BY <1>1 DEF RowsInv, StatusIsRecorded
  <1>6. Apart'
    BY <1>1 DEF RowsInv, Apart, At
  <1> QED
    BY <1>3, <1>4, <1>5, <1>6 DEF RowsInv

-----------------------------------------------------------------------------
(* Dependencies *)

\* With fewer edges less is reached.
LEMMA FewerEdges ==
  ASSUME NEW E, NEW D \in SUBSET E, NEW a, NEW s, ~WouldCreateCycle(E, a, s)
  PROVE  ~WouldCreateCycle(D, a, s)
  BY DEF WouldCreateCycle, Closed

LEMMA FewerAcyclic == ASSUME NEW E, NEW D \in SUBSET E, Acyclic(E) PROVE Acyclic(D)
  BY FewerEdges DEF Acyclic

\* An edge that the check lets pass closes no cycle: from where it leads, its
\* beginning is not reached, and every other edge stays as far from its own.
LEMMA OneMoreEdge ==
  ASSUME NEW E \in SUBSET (Tasks \X Tasks), NEW t \in Tasks, NEW u \in Tasks,
         Acyclic(E), ~WouldCreateCycle(E, t, u)
  PROVE  Acyclic(E \cup {<<t, u>>})
  <1> DEFINE D == E \cup {<<t, u>>}
  <1>1. PICK U \in SUBSET Tasks : u \in U /\ Closed(U, E) /\ t \notin U
    BY DEF WouldCreateCycle
  <1>2. Closed(U, D)
    BY <1>1 DEF Closed
  <1>3. ASSUME NEW a \in Tasks, NEW s \in Tasks, <<a, s>> \in D PROVE ~WouldCreateCycle(D, a, s)
    <2>1. CASE <<a, s>> \in E
      <3>1. PICK S \in SUBSET Tasks : s \in S /\ Closed(S, E) /\ a \notin S
        BY <2>1 DEF Acyclic, WouldCreateCycle
      <3>2. CASE a \in U
        <4>1. s \in U
          BY <1>1, <2>1, <3>2 DEF Closed
        <4>2. s \in S \cap U /\ a \notin S \cap U /\ Closed(S \cap U, D)
          BY <1>1, <3>1, <4>1 DEF Closed
        <4> QED
          BY <4>2 DEF WouldCreateCycle
      <3>3. CASE a \notin U
        <4>1. s \in S \cup U /\ a \notin S \cup U /\ Closed(S \cup U, D)
          BY <1>1, <3>1, <3>3 DEF Closed
        <4> QED
          BY <4>1 DEF WouldCreateCycle
      <3> QED
        BY <3>2, <3>3
    <2>2. CASE <<a, s>> = <<t, u>>
      BY <1>1, <1>2, <2>2 DEF WouldCreateCycle
    <2> QED
      BY <1>3, <2>1, <2>2
  <1> QED
    BY <1>3 DEF Acyclic

LEMMA DagKept ==
  ASSUME TypeOK, RowsInv, DagInv, NEW p \in Requests, WritingStep(p) PROVE DagInv'
  <1>1. Written(p)
    BY Writes
  <1>2. \A q \in Requests : q # p => req'[q] = req[q]
    BY <1>1 DEF Written
  <1>3. CASE ~raced' /\ CheckLink(p)
    <2>1. /\ ~raced /\ edges' = edges
          /\ \A q \in Requests : q # p => ~At(q, "link")
      BY <1>3 DEF CheckLink, TypeOK
    <2>2. CASE Done(p)
      <3>1. \A q \in Requests : req'[q].pc # "link"
        BY <1>2, <2>1, <2>2, DoneMoves DEF At
      <3> QED
        BY <2>1, <3>1 DEF DagInv, At
    <2>3. CASE Step(p, "link") /\ ~Done(p)
      <3>1. ~WouldCreateCycle(edges, req[p].t, req[p].u)
        BY <1>3, <2>3 DEF CheckLink
      <3>2. req'[p].t = req[p].t /\ req'[p].u = req[p].u
        BY <2>3, StepMoves
      <3>3. \A q \in Requests : q # p => req'[q].pc # "link"
        BY <1>2, <2>1 DEF At
      <3>4. Acyclic(edges)
        BY <2>1 DEF DagInv
      <3>5. \A q \in Requests : At(q, "link")' => q = p
        BY <3>3 DEF At
      <3> QED
        BY <2>1, <3>1, <3>2, <3>4, <3>5 DEF DagInv, Acyclic
    <2> QED
      BY <1>3, <2>2, <2>3 DEF CheckLink
  <1>4. CASE ~raced /\ Link(p)
    <2>1. At(p, "link") /\ Done(p) /\ (edges' = edges \/ edges' = edges \cup {<<req[p].t, req[p].u>>})
      BY <1>4 DEF Link
    <2>2. Acyclic(edges) /\ ~WouldCreateCycle(edges, req[p].t, req[p].u)
      BY <1>4, <2>1 DEF DagInv
    <2>3. \A q \in Requests : q # p => ~At(q, "link")
      BY <1>4, <2>1 DEF DagInv
    <2>4. \A q \in Requests : req'[q].pc # "link"
      BY <1>2, <2>1, <2>3, DoneMoves DEF At
    <2>5. edges \in SUBSET (Tasks \X Tasks) /\ req[p].t \in Tasks /\ req[p].u \in Tasks
      BY DEF TypeOK, ReqType
    <2>6. Acyclic(edges)'
      BY <2>1, <2>2, <2>5, OneMoreEdge DEF Acyclic
    <2> QED
      BY <2>4, <2>6 DEF DagInv, At
  <1>5. CASE ~raced' /\ ~CheckLink(p) /\ ~Link(p)
    <2>1. edges' \in SUBSET edges /\ ~raced
      <3>1. ASSUME UNCHANGED <<edges, raced>> PROVE edges' \in SUBSET edges /\ ~raced
        BY <1>5, <3>1
      <3>2. CASE CheckCompletion(p) \/ Write(p) \/ Rollback(p) \/ Lifecycle(p) \/ UnlinkWrite(p) \/ Commit(p)
        <4>1. UNCHANGED <<edges, raced>>
          BY <3>2 DEF CheckCompletion, Write, Rollback, Lifecycle, UnlinkWrite, Commit
        <4> QED
          BY <3>1, <4>1
      <3>3. CASE UnlinkCommit(p)
        <4>1. edges' = edges \ {Edge(p)} /\ UNCHANGED raced
          BY <3>3 DEF UnlinkCommit
        <4>2. ~raced
          BY <1>5, <4>1
        <4> QED
          BY <4>1, <4>2
      <3> QED
        BY <1>5, <3>2, <3>3 DEF WritingStep
    <2>2. ~At(p, "linkCheck")
      BY <1>5 DEF WritingStep, CheckCompletion, Write, Commit, Rollback, Lifecycle, UnlinkWrite, UnlinkCommit, At
    <2>3. req'[p].pc # "link"
      BY <1>1, <2>2 DEF Written
    <2>4. /\ Acyclic(edges)
          /\ \A q \in Requests : At(q, "link") => ~WouldCreateCycle(edges, req[q].t, req[q].u)
          /\ \A q, r \in Requests : At(q, "link") /\ At(r, "link") => q = r
      BY <2>1 DEF DagInv
    <2>5. Acyclic(edges')
      BY <2>1, <2>4, FewerAcyclic
    <2>6. ASSUME NEW q \in Requests, At(q, "link")'
          PROVE  At(q, "link") /\ ~WouldCreateCycle(edges', req'[q].t, req'[q].u)
      <3>1. q # p /\ req'[q] = req[q]
        BY <1>2, <2>3, <2>6 DEF At
      <3>2. At(q, "link") /\ ~WouldCreateCycle(edges, req[q].t, req[q].u)
        BY <2>4, <2>6, <3>1 DEF At
      <3> QED
        BY <2>1, <3>1, <3>2, FewerEdges
    <2> QED
      BY <2>4, <2>5, <2>6 DEF DagInv, Acyclic
  <1>6. CASE raced'
    BY <1>6 DEF DagInv
  <1>7. Link(p) => (raced' = raced)
    BY DEF Link
  <1> QED
    BY <1>3, <1>4, <1>5, <1>6, <1>7

LEMMA ReadingKeepsDag ==
  ASSUME TypeOK, DagInv, NEW p \in Requests, ReadingStep(p) PROVE DagInv'
  <1>1. /\ UNCHANGED <<edges, raced>> /\ req'[p].pc # "link"
        /\ \A q \in Requests : q # p => req'[q] = req[q]
    BY ReadingMoves
  <1>2. \A q \in Requests : At(q, "link")' => q # p /\ At(q, "link") /\ req'[q] = req[q]
    BY <1>1 DEF At
  <1> QED
    BY <1>1, <1>2 DEF DagInv, Acyclic

-----------------------------------------------------------------------------
(* The theorems *)

LEMMA TasksInvHolds == Spec => []TasksInv
  <1>1. Init => TasksInv
    <2> SUFFICES ASSUME Init PROVE TasksInv
      OBVIOUS
    <2>1. TypeOK
      BY InitTyped
    <2>2. \A p \in Requests : req[p].pc = "idle"
      BY IdleTyped DEF Init
    <2>3. StatusIsRecorded
      BY DEF Init, StatusIsRecorded, NewRow
    <2>6. HistoryInv
      BY <2>2 DEF Init, HistoryInv, Stamped, HistoryTellsStatus
    <2>4. Reads /\ HoldsAlone /\ DecidesOnWhatItOverwrites /\ Apart
      BY <2>2 DEF Reads, Read, HoldsAlone, DecidesOnWhatItOverwrites, Apart, At, Updating
    <2>5. DagInv
      BY <2>2, AcyclicAssumption DEF DagInv, At, Init
    <2> QED
      BY <2>1, <2>3, <2>4, <2>5, <2>6 DEF TasksInv, RowsInv
  <1>2. TasksInv /\ [Next]_vars => TasksInv'
    <2> SUFFICES ASSUME TypeOK, RowsInv, HistoryInv, DagInv, [Next]_vars PROVE TasksInv'
      BY DEF TasksInv
    <2>1. ASSUME NEW p \in Requests, ReadingStep(p) PROVE TasksInv'
      BY <2>1, ReadingMoves, ReadingKeepsRows, ReadsRecorded, ReadingKeepsDag DEF TasksInv
    <2>2. ASSUME NEW p \in Requests, WritingStep(p) PROVE TasksInv'
      BY <2>2, Writes, RowsKept, WritesRecorded, DagKept DEF TasksInv
    <2>3. CASE UNCHANGED vars
      BY <2>3 DEF vars, TasksInv, TypeOK, RowsInv, Reads, Read, RowOf, HoldsAlone, DecidesOnWhatItOverwrites,
                  StatusIsRecorded, Apart, HistoryInv, Stamped, HistoryTellsStatus, DagInv, Acyclic, At
    <2>4. CASE Next
      <3>1. PICK p \in Requests : ReadingStep(p) \/ WritingStep(p)
        BY <2>4 DEF Next, Update, Relink, ReadingStep, WritingStep
      <3> QED
        BY <2>1, <2>2, <3>1
    <2> QED
      BY <2>3, <2>4
  <1> QED
    BY <1>1, <1>2, PTL DEF Spec

\* Rows, requests and edges keep their types; no task ever depends on itself.
THEOREM TasksTyped == Spec => []TypeOK
  <1>1. TasksInv => TypeOK
    BY DEF TasksInv
  <1> QED
    BY <1>1, TasksInvHolds, PTL

\* For any number of tasks and of concurrent requests: a versioned update
\* commits over the row its decisions were taken on, the completion and the mark of
\* every task agree with its status, and so does the history entry of the latest
\* changedAt, of every task but those that a handoff put back to TODO with a
\* stamp older than an entry the task had.
THEOREM Versions == Spec => []VersionsProtect
  <1>1. TasksInv => VersionsProtect
    BY DEF TasksInv, RowsInv, HistoryInv, VersionsProtect
  <1> QED
    BY <1>1, TasksInvHolds, PTL

\* From acyclic dependencies, checks and insertions that did not race keep
\* them acyclic, whatever else the other requests did in between.
THEOREM StaysAcyclic == Spec => []AcyclicUnlessRaced
  <1>1. TasksInv => AcyclicUnlessRaced
    BY DEF TasksInv, DagInv, AcyclicUnlessRaced
  <1> QED
    BY <1>1, TasksInvHolds, PTL


-----------------------------------------------------------------------------
(* TaskComments.  Of each comment: who is to tell of the last write of it has   *)
(* its row, and the last event that is not stale has it when nobody is to tell  *)
(* any more; one that was just created has no other event.  What is on the      *)
(* screen, and every list on its way to it, is brought to that row by the       *)
(* events under way, as long as nothing of the comment was missed.              *)

Events(c) == {n \in DOMAIN wire : wire[n].id = c}
LastEvent(c, n) == n \in Events(c) /\ \A m \in Events(c) : m <= n

Told(c) ==
    /\ \A p \in Tellers(c) : ~writer[p].overtaken =>
         writer[p].row = comment[c] /\ (writer[p].new => Tellers(c) = {p} /\ Events(c) = {})
    /\ \A n \in Events(c) : Tellers(c) = {} /\ LastEvent(c, n) /\ ~wire[n].stale =>
         wire[n].row = comment[c] /\ (wire[n].new => Events(c) = {n})

\* s is shown of c.
View(c, s) ==
    /\ Tellers(c) = {} /\ Events(c) = {} => Visible(s) = Visible(comment[c])
    /\ comment[c] # "none" /\ s = "none" =>
         \/ comment[c] = "deleted"
         \/ \E p \in Tellers(c) : writer[p].new
         \/ \E n \in Events(c) : wire[n].new
    /\ \A p \in Tellers(c) : writer[p].new /\ ~writer[p].overtaken => s \in {"none", comment[c]}
    /\ \A n \in Events(c) : Tellers(c) = {} /\ LastEvent(c, n) /\ wire[n].new /\ ~wire[n].stale =>
         s \in {"none", comment[c]}

\* Nothing is said of a comment before it is created.
CreatedFirst ==
    /\ \A p \in Writers : ~Writing(p, "idle") => comment[writer[p].id] # "none"
    /\ \A p \in Writers : Writing(p, "tell") \/ Writing(p, "update") => writer[p].row # "none"
    /\ \A n \in DOMAIN wire : comment[wire[n].id] # "none" /\ wire[n].row # "none"
    /\ \A c \in Comments : shown[c] # "none" => comment[c] # "none"
    /\ \A i \in Lists, c \in Comments : list[i].rows[c] # "none" => comment[c] # "none"

CommentInv ==
    /\ CommentTypeOK
    /\ CreatedFirst
    /\ \A c \in Comments : Told(c)
    /\ loaded => \A c \in Comments \ missed : View(c, shown[c])
    /\ \A i \in Lists : list[i].state = "read" => \A c \in Comments \ list[i].late : View(c, list[i].rows[c])
    /\ ~open => ~loaded /\ \A i \in Lists : list[i].state = "free"

LEMMA RestingTyped == Resting \in WriterType /\ Resting.pc = "idle"
  <1>1. PICK c \in Comments : TRUE
    BY CommentAssumption
  <1> DEFINE w == [pc |-> "idle", id |-> c, row |-> "none", new |-> FALSE, overtaken |-> FALSE]
  <1>2. w \in WriterType /\ w.pc = "idle" /\ w.row = "none" /\ ~w.new /\ ~w.overtaken
    BY DEF WriterType, Rows
  <1>3. \E v \in WriterType : v.pc = "idle" /\ v.row = "none" /\ ~v.new /\ ~v.overtaken
    BY <1>2
  <1> DEFINE Rests(v) == v.pc = "idle" /\ v.row = "none" /\ ~v.new /\ ~v.overtaken
             rest == CHOOSE v \in WriterType : Rests(v)
  <1>4. rest \in WriterType /\ Rests(rest)
    <2>1. \E v \in WriterType : Rests(v)
      BY <1>3
    <2> HIDE DEF Rests
    <2> QED
      BY <2>1
  <1>5. Resting = rest
    BY DEF Resting
  <1> QED
    BY <1>4, <1>5

LEMMA BlankTyped == Blank \in [Comments -> Rows] /\ NoList \in ListType /\ NoList.state = "free" /\ NoList.rows = Blank
  <1>1. Blank \in [Comments -> Rows]
    BY DEF Blank, Rows
  <1> QED
    BY <1>1 DEF NoList, ListType

\* What a comment's own tellers and events do not tell apart.
LEMMA ViewKept ==
  ASSUME NEW c, comment'[c] = comment[c], Tellers(c)' = Tellers(c), \A p \in Tellers(c) : writer'[p] = writer[p],
         Events(c)' = Events(c), \A n \in Events(c) : wire'[n] = wire[n]
  PROVE  /\ Told(c) => Told(c)'
         /\ \A s : View(c, s) => View(c, s)'
  BY DEF Told, View, LastEvent

LEMMA WireTyped ==
  ASSUME CommentTypeOK
  PROVE  /\ DOMAIN wire = 1..Len(wire) /\ Len(wire) \in Nat
         /\ \A n \in DOMAIN wire : wire[n] \in EventType /\ wire[n].id \in Comments
  <1>1. wire \in Seq(EventType)
    BY DEF CommentTypeOK
  <1>2. DOMAIN wire = 1..Len(wire) /\ Len(wire) \in Nat /\ \A n \in DOMAIN wire : wire[n] \in EventType
    BY <1>1
  <1> QED
    BY <1>2 DEF EventType

LEMMA CommentInitial == CommentInit => CommentInv
  <1> SUFFICES ASSUME CommentInit PROVE CommentInv
    OBVIOUS
  <1>1. CommentTypeOK
    <2>1. comment \in [Comments -> Rows] /\ shown \in [Comments -> Rows] /\ missed \subseteq Comments
      BY BlankTyped DEF CommentInit, Rows
    <2>2. writer \in [Writers -> WriterType] /\ writes \in 0..MaxWrites /\ list \in [Lists -> ListType]
      BY RestingTyped, BlankTyped, CommentAssumption DEF CommentInit
    <2>3. wire \in Seq(EventType) /\ Len(wire) <= MaxWire
      BY CommentAssumption DEF CommentInit
    <2> QED
      BY <2>1, <2>2, <2>3 DEF CommentTypeOK, CommentInit
  <1>2. \A c \in Comments : Tellers(c) = {} /\ Events(c) = {}
    BY RestingTyped DEF CommentInit, Tellers, Writing, Events
  <1>3. CreatedFirst
    BY RestingTyped, BlankTyped DEF CommentInit, CreatedFirst, Writing, Blank
  <1>4. \A c \in Comments : Told(c)
    BY <1>2 DEF Told
  <1> QED
    BY <1>1, <1>3, <1>4, BlankTyped DEF CommentInv, CommentInit

LEMMA OvertakenTyped ==
  ASSUME NEW w \in WriterType, NEW b \in BOOLEAN, NEW v, v = [w EXCEPT !.overtaken = @ \/ b]
  PROVE  /\ v \in WriterType /\ v.pc = w.pc /\ v.id = w.id /\ v.row = w.row /\ v.new = w.new
         /\ v.overtaken = (w.overtaken \/ b)
         /\ ~b => v = w
  <1> DEFINE o == w.overtaken \/ b
  <1>1. o \in BOOLEAN /\ v = [w EXCEPT !.overtaken = o] /\ (~b => o = w.overtaken)
    BY DEF WriterType
  <1> HIDE DEF o
  <1>2. v \in WriterType /\ v.pc = w.pc /\ v.id = w.id /\ v.row = w.row /\ v.new = w.new /\ v.overtaken = o
    BY <1>1 DEF WriterType
  <1>3. ~b => v = w
    BY <1>1 DEF WriterType
  <1> QED
    BY <1>2, <1>3 DEF o

\* A handler that has written c0 is to tell of it; the others that are, are
\* overtaken.
LEMMA WrittenBy ==
  ASSUME CommentInv, NEW p \in Writers, ~Writing(p, "tell"), NEW c0 \in Comments, NEW row \in Rows,
         NEW new \in BOOLEAN, HasWritten(p, c0, row, new)
  PROVE  /\ writer' \in [Writers -> WriterType]
         /\ \A q \in Writers : q # p => /\ writer'[q].pc = writer[q].pc /\ writer'[q].id = writer[q].id
                                        /\ writer'[q].row = writer[q].row /\ writer'[q].new = writer[q].new
         /\ writer'[p] = [pc |-> "tell", id |-> c0, row |-> row, new |-> new, overtaken |-> FALSE]
         /\ p \notin Tellers(c0) /\ Tellers(c0)' = Tellers(c0) \cup {p}
         /\ \A q \in Tellers(c0) : writer'[q].overtaken
         /\ \A c : c # c0 => Tellers(c)' = Tellers(c) /\ \A q \in Tellers(c) : writer'[q] = writer[q]
  <1> DEFINE mine == [pc |-> "tell", id |-> c0, row |-> row, new |-> new, overtaken |-> FALSE]
             told(q) == q \in Tellers(c0)
  <1>1. mine \in WriterType /\ mine.pc = "tell" /\ mine.id = c0
    BY DEF WriterType
  <1>2. writer \in [Writers -> WriterType]
    BY DEF CommentInv, CommentTypeOK
  <1>3. writer' = [q \in Writers |-> IF q = p THEN mine ELSE [writer[q] EXCEPT !.overtaken = @ \/ told(q)]]
    BY DEF HasWritten
  <1>4. \A q \in Writers : told(q) \in BOOLEAN
    OBVIOUS
  <1> HIDE DEF mine, told
  <1>5. ASSUME NEW q \in Writers, q # p
        PROVE  /\ writer'[q] \in WriterType /\ writer'[q].pc = writer[q].pc /\ writer'[q].id = writer[q].id
               /\ writer'[q].row = writer[q].row /\ writer'[q].new = writer[q].new
               /\ writer'[q].overtaken = (writer[q].overtaken \/ told(q))
               /\ ~told(q) => writer'[q] = writer[q]
    <2>1. writer'[q] = [writer[q] EXCEPT !.overtaken = @ \/ told(q)]
      BY <1>3, <1>5
    <2> QED
      BY <1>2, <1>4, <1>5, <2>1, OvertakenTyped
  <1>6. writer'[p] = mine
    BY <1>3
  <1>7. writer' \in [Writers -> WriterType]
    BY <1>1, <1>3, <1>5, <1>6
  <1>8. p \notin Tellers(c0) /\ \A c : p \notin Tellers(c)
    BY DEF Tellers
  <1>9. Tellers(c0)' = Tellers(c0) \cup {p}
    BY <1>1, <1>5, <1>6, <1>8 DEF Tellers, Writing
  <1>10. \A q \in Tellers(c0) : writer'[q].overtaken
    BY <1>5, <1>8 DEF told, Tellers
  <1>11. ASSUME NEW c, c # c0 PROVE Tellers(c)' = Tellers(c) /\ \A q \in Tellers(c) : writer'[q] = writer[q]
    <2>1. \A q \in Tellers(c) : ~told(q)
      BY <1>11 DEF told, Tellers
    <2> QED
      BY <1>1, <1>5, <1>6, <1>8, <1>11, <2>1 DEF Tellers, Writing
  <1> QED
    BY <1>5, <1>6, <1>7, <1>8, <1>9, <1>10, <1>11 DEF mine

\* A write of c0 (the row may be one that is deleted) leaves what is shown on
\* its way: who wrote is to tell.
LEMMA WriteTold ==
  ASSUME CommentInv, NEW p \in Writers, ~Writing(p, "tell"), NEW c0 \in Comments, NEW row \in Rows, row # "none",
         NEW new \in BOOLEAN, HasWritten(p, c0, row, new), comment' = [comment EXCEPT ![c0] = row],
         new <=> comment[c0] = "none", comment[c0] = "deleted" => row = "deleted", UNCHANGED screenVars,
         writes' \in 0..MaxWrites
  PROVE  CommentInv'
  <1>0. /\ writer' \in [Writers -> WriterType]
        /\ \A q \in Writers : q # p => /\ writer'[q].pc = writer[q].pc /\ writer'[q].id = writer[q].id
                                       /\ writer'[q].row = writer[q].row /\ writer'[q].new = writer[q].new
        /\ writer'[p] = [pc |-> "tell", id |-> c0, row |-> row, new |-> new, overtaken |-> FALSE]
        /\ p \notin Tellers(c0) /\ Tellers(c0)' = Tellers(c0) \cup {p}
        /\ \A q \in Tellers(c0) : writer'[q].overtaken
        /\ \A c : c # c0 => Tellers(c)' = Tellers(c) /\ \A q \in Tellers(c) : writer'[q] = writer[q]
    BY WrittenBy
  <1>1. wire' = wire /\ shown' = shown /\ list' = list /\ loaded' = loaded /\ missed' = missed /\ open' = open
        /\ room' = room
    BY DEF screenVars
  <1>2. comment \in [Comments -> Rows] /\ comment'[c0] = row /\ \A c \in Comments : c # c0 => comment'[c] = comment[c]
    BY DEF CommentInv, CommentTypeOK
  <1>3. CommentTypeOK'
    BY <1>0, <1>1, <1>2 DEF CommentInv, CommentTypeOK
  <1>4. \A c \in Comments : comment[c] # "none" => comment'[c] # "none"
    BY <1>2
  <1>5. \A c : Events(c)' = Events(c)
    BY <1>1 DEF Events
  <1>6. new => Tellers(c0) = {} /\ Events(c0) = {}
    BY DEF CommentInv, CreatedFirst, Tellers, Writing, Events
  <1>7. CreatedFirst'
    <2>1. ASSUME NEW q \in Writers, ~Writing(q, "idle")'
          PROVE  /\ comment'[writer'[q].id] # "none"
                 /\ Writing(q, "tell")' \/ Writing(q, "update")' => writer'[q].row # "none"
      <3>1. CASE q = p
        BY <1>0, <1>2, <3>1
      <3>2. CASE q # p
        <4>1. writer[q].id \in Comments
          BY DEF CommentInv, CommentTypeOK, WriterType
        <4> QED
          BY <1>0, <1>4, <2>1, <3>2, <4>1 DEF CommentInv, CreatedFirst, Writing
      <3> QED
        BY <3>1, <3>2
    <2>2. \A n \in DOMAIN wire' : comment'[wire'[n].id] # "none" /\ wire'[n].row # "none"
      BY <1>1, <1>4, WireTyped DEF CommentInv, CreatedFirst
    <2>3. \A c \in Comments : shown'[c] # "none" => comment'[c] # "none"
      BY <1>1, <1>4 DEF CommentInv, CreatedFirst
    <2>4. \A i \in Lists, c \in Comments : list'[i].rows[c] # "none" => comment'[c] # "none"
      BY <1>1, <1>4 DEF CommentInv, CreatedFirst
    <2> QED
      BY <2>1, <2>2, <2>3, <2>4 DEF CreatedFirst, Writing
  <1>8. ASSUME NEW c \in Comments, c # c0 PROVE Told(c)' /\ \A s : View(c, s) => View(c, s)'
    <2>1. /\ comment'[c] = comment[c] /\ Tellers(c)' = Tellers(c) /\ \A q \in Tellers(c) : writer'[q] = writer[q]
          /\ Events(c)' = Events(c) /\ \A n \in Events(c) : wire'[n] = wire[n]
      BY <1>0, <1>1, <1>2, <1>5, <1>8
    <2> QED
      BY <2>1, ViewKept DEF CommentInv
  <1>9. Told(c0)'
    <2>1. \A q \in Tellers(c0)' : ~writer'[q].overtaken => q = p
      BY <1>0
    <2>2. writer'[p].row = comment'[c0] /\ (writer'[p].new => Tellers(c0)' = {p} /\ Events(c0)' = {})
      BY <1>0, <1>2, <1>5, <1>6
    <2>3. Tellers(c0)' # {}
      BY <1>0
    <2> QED
      BY <2>1, <2>2, <2>3 DEF Told
  <1>10. ASSUME NEW s, View(c0, s), s # "none" => comment[c0] # "none" PROVE View(c0, s)'
    <2>1. Tellers(c0)' # {}
      BY <1>0
    <2>2. comment'[c0] # "none" /\ s = "none" =>
         \/ comment'[c0] = "deleted"
         \/ \E q \in Tellers(c0)' : writer'[q].new
         \/ \E n \in Events(c0)' : wire'[n].new
      <3>1. CASE new
        BY <1>0, <3>1
      <3>2. CASE comment[c0] = "deleted"
        BY <1>2, <3>2
      <3>3. CASE comment[c0] # "none" /\ s = "none" /\ \E q \in Tellers(c0) : writer[q].new
        <4>1. PICK q \in Tellers(c0) : writer[q].new
          BY <3>3
        <4>2. q \in Writers /\ q # p
          BY DEF Tellers
        <4> QED
          BY <1>0, <4>1, <4>2
      <3>4. CASE comment[c0] # "none" /\ s = "none" /\ \E n \in Events(c0) : wire[n].new
        BY <1>1, <1>5, <3>4
      <3> QED
        BY <1>10, <3>1, <3>2, <3>3, <3>4 DEF View
    <2>3. \A q \in Tellers(c0)' : writer'[q].new /\ ~writer'[q].overtaken => s \in {"none", comment'[c0]}
      BY <1>0, <1>10
    <2> QED
      BY <2>1, <2>2, <2>3 DEF View
  <1>11. ASSUME NEW c \in Comments, NEW s, View(c, s), s # "none" => comment[c] # "none" PROVE View(c, s)'
    BY <1>8, <1>10, <1>11
  <1>12. loaded' => \A c \in Comments \ missed' : View(c, shown[c])'
    <2> SUFFICES ASSUME loaded, NEW c \in Comments \ missed PROVE View(c, shown[c])'
      BY <1>1
    <2>1. PICK s : s = shown[c]
      OBVIOUS
    <2>2. View(c, s) /\ (s # "none" => comment[c] # "none")
      BY <2>1 DEF CommentInv, CreatedFirst
    <2>3. View(c, s)' /\ s = shown'[c]
      BY <1>1, <1>11, <2>1, <2>2
    <2> QED
      BY <2>3 DEF View
  <1>13. \A i \in Lists : list'[i].state = "read" => \A c \in Comments \ list'[i].late : View(c, list[i].rows[c])'
    <2> SUFFICES ASSUME NEW i \in Lists, list[i].state = "read", NEW c \in Comments \ list[i].late
                 PROVE  View(c, list[i].rows[c])'
      BY <1>1
    <2>1. PICK s : s = list[i].rows[c]
      OBVIOUS
    <2>2. View(c, s) /\ (s # "none" => comment[c] # "none")
      BY <2>1 DEF CommentInv, CreatedFirst
    <2>3. View(c, s)' /\ s = list'[i].rows[c]
      BY <1>1, <1>11, <2>1, <2>2
    <2> QED
      BY <2>3 DEF View
  <1> QED
    BY <1>1, <1>3, <1>7, <1>8, <1>9, <1>12, <1>13 DEF CommentInv

\* Who was to tell rests.
LEMMA TellerRests ==
  ASSUME CommentInv, NEW p \in Writers, Writing(p, "tell"), NEW c0, c0 = writer[p].id,
         writer' = [writer EXCEPT ![p] = Resting]
  PROVE  /\ writer' \in [Writers -> WriterType] /\ ~Writing(p, "tell")' /\ Writing(p, "idle")'
         /\ \A q \in Writers : q # p => writer'[q] = writer[q]
         /\ c0 \in Comments /\ p \in Tellers(c0) /\ Tellers(c0)' = Tellers(c0) \ {p}
         /\ \A c : c # c0 => Tellers(c)' = Tellers(c) /\ p \notin Tellers(c)
         /\ \A c : \A q \in Tellers(c)' : writer'[q] = writer[q]
  <1>1. writer \in [Writers -> WriterType]
    BY DEF CommentInv, CommentTypeOK
  <1>2. writer' \in [Writers -> WriterType] /\ writer'[p].pc = "idle" /\ \A q \in Writers : q # p => writer'[q] = writer[q]
    BY <1>1, RestingTyped
  <1>3. c0 \in Comments
    BY <1>1 DEF WriterType
  <1>4. p \in Tellers(c0) /\ \A c : c # c0 => p \notin Tellers(c)
    BY DEF Tellers
  <1>5. \A c : Tellers(c)' = Tellers(c) \ {p}
    BY <1>2 DEF Tellers, Writing
  <1>6. \A c : \A q \in Tellers(c)' : writer'[q] = writer[q]
    BY <1>2, <1>5 DEF Tellers
  <1> QED
    BY <1>2, <1>3, <1>4, <1>5, <1>6 DEF Writing

LEMMA HearsNot ==
  ASSUME CommentInv, NEW cs \in SUBSET Comments, Unheard(cs)
  PROVE  /\ missed' = missed \cup cs /\ missed' \subseteq Comments
         /\ list' \in [Lists -> ListType]
         /\ \A i \in Lists : /\ list'[i].state = list[i].state /\ list'[i].rows = list[i].rows
                             /\ list[i].state = "read" => list'[i].late = list[i].late \cup cs
  <1>1. list \in [Lists -> ListType] /\ missed \subseteq Comments
    BY DEF CommentInv, CommentTypeOK
  <1>2. ASSUME NEW i \in Lists
        PROVE  /\ list'[i] \in ListType /\ list'[i].state = list[i].state /\ list'[i].rows = list[i].rows
               /\ list[i].state = "read" => list'[i].late = list[i].late \cup cs
    <2> DEFINE l == list[i]
               late == l.late \cup cs
    <2>1. l \in ListType /\ late \in SUBSET Comments
      BY <1>1 DEF ListType
    <2>2. list'[i] = IF l.state = "read" THEN [l EXCEPT !.late = late] ELSE l
      BY DEF Unheard
    <2> HIDE DEF l, late
    <2>3. /\ list'[i] \in ListType /\ list'[i].state = l.state /\ list'[i].rows = l.rows
          /\ l.state = "read" => list'[i].late = late
      BY <2>1, <2>2 DEF ListType
    <2> QED
      BY <2>3 DEF l, late
  <1>3. list' = [i \in Lists |-> list'[i]]
    BY DEF Unheard
  <1> QED
    BY <1>1, <1>2, <1>3 DEF Unheard

\* The views are kept when those of the comments that nobody missed are.
LEMMA ViewsKept ==
  ASSUME CommentInv, UNCHANGED <<shown, loaded>>, missed \subseteq missed',
         \A i \in Lists : /\ list'[i].state = list[i].state /\ list'[i].rows = list[i].rows
                          /\ list[i].state = "read" => list[i].late \subseteq list'[i].late,
         NEW D, \A c \in Comments \ D : \A s : View(c, s) => View(c, s)',
         D \subseteq missed', \A i \in Lists : list[i].state = "read" => D \subseteq list'[i].late
  PROVE  /\ loaded' => \A c \in Comments \ missed' : View(c, shown[c])'
         /\ \A i \in Lists : list'[i].state = "read" => \A c \in Comments \ list'[i].late : View(c, list[i].rows[c])'
  <1>1. ASSUME loaded, NEW c \in Comments \ missed' PROVE View(c, shown[c])'
    <2>1. PICK s : s = shown[c]
      OBVIOUS
    <2>2. View(c, s)
      BY <1>1, <2>1 DEF CommentInv
    <2>3. View(c, s)' /\ s = shown'[c]
      BY <1>1, <2>1, <2>2
    <2> QED
      BY <2>3 DEF View
  <1>2. ASSUME NEW i \in Lists, list[i].state = "read", NEW c \in Comments \ list'[i].late PROVE View(c, list[i].rows[c])'
    <2>1. PICK s : s = list[i].rows[c]
      OBVIOUS
    <2>2. View(c, s)
      BY <1>2, <2>1 DEF CommentInv
    <2>3. View(c, s)' /\ s = list'[i].rows[c]
      BY <1>2, <2>1, <2>2
    <2> QED
      BY <2>3 DEF View
  <1> QED
    BY <1>1, <1>2

\* A change that is told to nobody: what waits of the comment is stale, and who
\* has shown or read it has missed it.
LEMMA ToldNobody ==
  ASSUME CommentInv, NEW p \in Writers, Writing(p, "tell"), NEW c0, c0 = writer[p].id,
         writer' = [writer EXCEPT ![p] = Resting],
         wire' = [n \in DOMAIN wire |-> [wire[n] EXCEPT !.stale = @ \/ wire[n].id = c0]],
         Unheard({c0}), UNCHANGED <<comment, writes, open, room, loaded, shown>>
  PROVE  CommentInv'
  <1>1. /\ writer' \in [Writers -> WriterType] /\ Writing(p, "idle")'
        /\ \A q \in Writers : q # p => writer'[q] = writer[q]
        /\ c0 \in Comments /\ p \in Tellers(c0) /\ Tellers(c0)' = Tellers(c0) \ {p}
        /\ \A c : c # c0 => Tellers(c)' = Tellers(c) /\ p \notin Tellers(c)
        /\ \A c : \A q \in Tellers(c)' : writer'[q] = writer[q]
    BY TellerRests
  <1>2. /\ missed' = missed \cup {c0} /\ missed' \subseteq Comments /\ list' \in [Lists -> ListType]
        /\ \A i \in Lists : /\ list'[i].state = list[i].state /\ list'[i].rows = list[i].rows
                            /\ list[i].state = "read" => list'[i].late = list[i].late \cup {c0}
    BY <1>1, HearsNot
  <1>3. /\ DOMAIN wire = 1..Len(wire) /\ Len(wire) \in Nat
        /\ \A n \in DOMAIN wire : wire[n] \in EventType /\ wire[n].id \in Comments
    BY WireTyped DEF CommentInv
  <1>4. ASSUME NEW n \in DOMAIN wire
        PROVE  /\ wire'[n] \in EventType /\ wire'[n].id = wire[n].id /\ wire'[n].row = wire[n].row
               /\ wire'[n].new = wire[n].new
               /\ wire[n].id = c0 => wire'[n].stale
               /\ wire[n].id # c0 => wire'[n] = wire[n]
    <2> DEFINE e == wire[n]
               stale == e.stale \/ e.id = c0
    <2>1. e \in EventType /\ wire'[n] = [e EXCEPT !.stale = stale] /\ stale \in BOOLEAN
      BY <1>3 DEF EventType
    <2>2. (e.id = c0 => stale) /\ (e.id # c0 => stale = e.stale)
      BY <2>1 DEF EventType
    <2> HIDE DEF e, stale
    <2>3. /\ wire'[n] \in EventType /\ wire'[n].id = e.id /\ wire'[n].row = e.row
          /\ wire'[n].new = e.new /\ wire'[n].stale = stale
          /\ stale = e.stale => wire'[n] = e
      BY <2>1 DEF EventType
    <2> QED
      BY <2>2, <2>3 DEF e
  <1>5. DOMAIN wire' = DOMAIN wire /\ wire' \in Seq(EventType) /\ Len(wire') = Len(wire)
    <2>1. DOMAIN wire' = 1..Len(wire) /\ wire' \in [1..Len(wire) -> EventType]
      BY <1>3, <1>4
    <2> QED
      BY <1>3, <2>1
  <1>6. \A c : Events(c)' = Events(c)
    BY <1>4, <1>5 DEF Events
  <1>7. CommentTypeOK'
    BY <1>1, <1>2, <1>5 DEF CommentInv, CommentTypeOK
  <1>8. CreatedFirst'
    <2>1. \A q \in Writers : ~Writing(q, "idle")' => ~Writing(q, "idle") /\ writer'[q] = writer[q]
      BY <1>1 DEF Writing
    <2>2. ASSUME NEW q \in Writers, ~Writing(q, "idle")'
          PROVE  /\ comment'[writer'[q].id] # "none"
                 /\ Writing(q, "tell")' \/ Writing(q, "update")' => writer'[q].row # "none"
      <3>1. /\ writer'[q] = writer[q] /\ ~Writing(q, "idle")
            /\ Writing(q, "tell")' <=> Writing(q, "tell")
            /\ Writing(q, "update")' <=> Writing(q, "update")
        BY <2>1, <2>2 DEF Writing
      <3>2. /\ comment[writer[q].id] # "none"
            /\ Writing(q, "tell") \/ Writing(q, "update") => writer[q].row # "none"
        BY <3>1 DEF CommentInv, CreatedFirst
      <3> QED
        BY <3>1, <3>2
    <2>3. \A n \in DOMAIN wire' : comment'[wire'[n].id] # "none" /\ wire'[n].row # "none"
      <3>1. \A n \in DOMAIN wire : comment[wire[n].id] # "none" /\ wire[n].row # "none"
        BY DEF CommentInv, CreatedFirst
      <3> QED
        BY <1>4, <1>5, <3>1
    <2>4. \A c \in Comments : shown'[c] # "none" => comment'[c] # "none"
      BY DEF CommentInv, CreatedFirst
    <2>5. \A i \in Lists, c \in Comments : list'[i].rows[c] # "none" => comment'[c] # "none"
      BY <1>2 DEF CommentInv, CreatedFirst
    <2> QED
      BY <2>2, <2>3, <2>4, <2>5 DEF CreatedFirst, Writing
  <1>9. ASSUME NEW c \in Comments, c # c0 PROVE Told(c)' /\ \A s : View(c, s) => View(c, s)'
    <2>1. Tellers(c)' = Tellers(c) /\ \A q \in Tellers(c) : writer'[q] = writer[q]
      <3>1. Tellers(c)' = Tellers(c)
        BY <1>1, <1>9
      <3>2. \A q \in Tellers(c)' : writer'[q] = writer[q]
        BY <1>1
      <3> QED
        BY <3>1, <3>2
    <2>2. Events(c)' = Events(c) /\ \A n \in Events(c) : wire'[n] = wire[n]
      BY <1>4, <1>6, <1>9 DEF Events
    <2>3. comment'[c] = comment[c]
      OBVIOUS
    <2> QED
      BY <2>1, <2>2, <2>3, ViewKept DEF CommentInv
  <1>10. Told(c0)'
    <2>1. ASSUME NEW q \in Tellers(c0)', ~writer'[q].overtaken PROVE writer'[q].row = comment'[c0] /\ ~writer'[q].new
      <3>1. q \in Tellers(c0) /\ q # p /\ writer'[q] = writer[q]
        BY <1>1
      <3>2. ~writer[q].overtaken => writer[q].row = comment[c0] /\ (writer[q].new => Tellers(c0) = {q})
        BY <1>1, <3>1 DEF CommentInv, Told
      <3> QED
        BY <1>1, <2>1, <3>1, <3>2
    <2>2. \A n \in Events(c0)' : wire'[n].stale
      BY <1>4, <1>6 DEF Events
    <2> QED
      BY <2>1, <2>2 DEF Told
  <1>11. /\ loaded' => \A c \in Comments \ missed' : View(c, shown[c])'
         /\ \A i \in Lists : list'[i].state = "read" => \A c \in Comments \ list'[i].late : View(c, list[i].rows[c])'
    <2>1. \A c \in Comments \ {c0} : \A s : View(c, s) => View(c, s)'
      BY <1>9
    <2> DEFINE D == {c0}
    <2>2. D \subseteq missed' /\ missed \subseteq missed'
      BY <1>2
    <2>3. \A i \in Lists : list[i].state = "read" => D \subseteq list'[i].late /\ list[i].late \subseteq list'[i].late
      BY <1>2
    <2>4. \A c \in Comments \ D : \A s : View(c, s) => View(c, s)'
      BY <2>1
    <2>5. \A i \in Lists : list'[i].state = list[i].state /\ list'[i].rows = list[i].rows
      BY <1>2
    <2> HIDE DEF D
    <2> QED
      BY <2>2, <2>3, <2>4, <2>5, ViewsKept
  <1>12. ~open' => ~loaded' /\ \A i \in Lists : list'[i].state = "free"
    BY <1>2 DEF CommentInv
  <1> QED
    BY <1>7, <1>8, <1>9, <1>10, <1>11, <1>12 DEF CommentInv

\* A change that is told to the room waits at the end of the wire.
LEMMA ToldRoom ==
  ASSUME CommentInv, NEW p \in Writers, Writing(p, "tell"), NEW c0, c0 = writer[p].id,
         writer' = [writer EXCEPT ![p] = Resting], Len(wire) < MaxWire,
         wire' = Append(wire, [id |-> c0, row |-> writer[p].row, new |-> writer[p].new,
                               stale |-> writer[p].overtaken /\ Tellers(c0) = {p}]),
         UNCHANGED <<list, missed, comment, writes, open, room, loaded, shown>>
  PROVE  CommentInv'
  <1> DEFINE end == Len(wire) + 1
             stale == writer[p].overtaken /\ Tellers(c0) = {p}
             e == [id |-> c0, row |-> writer[p].row, new |-> writer[p].new, stale |-> stale]
  <1>1. /\ writer' \in [Writers -> WriterType] /\ Writing(p, "idle")'
        /\ \A q \in Writers : q # p => writer'[q] = writer[q]
        /\ c0 \in Comments /\ p \in Tellers(c0) /\ Tellers(c0)' = Tellers(c0) \ {p}
        /\ \A c : c # c0 => Tellers(c)' = Tellers(c) /\ p \notin Tellers(c)
        /\ \A c : \A q \in Tellers(c)' : writer'[q] = writer[q]
    BY TellerRests
  <1>2. /\ DOMAIN wire = 1..Len(wire) /\ Len(wire) \in Nat
        /\ \A n \in DOMAIN wire : wire[n] \in EventType /\ wire[n].id \in Comments
    BY WireTyped DEF CommentInv
  <1>3. writer[p] \in WriterType /\ stale \in BOOLEAN
    BY DEF CommentInv, CommentTypeOK, WriterType
  <1>4. e \in EventType /\ e.id = c0 /\ e.row = writer[p].row /\ e.new = writer[p].new /\ e.stale = stale
    BY <1>1, <1>3 DEF EventType, WriterType
  <1>5. wire \in Seq(EventType) /\ wire' = Append(wire, e)
    BY DEF CommentInv, CommentTypeOK
  <1> HIDE DEF e
  <1>6. /\ wire' \in Seq(EventType) /\ Len(wire') <= MaxWire
        /\ DOMAIN wire' = DOMAIN wire \cup {end} /\ end \notin DOMAIN wire
        /\ wire'[end] = e /\ \A n \in DOMAIN wire : wire'[n] = wire[n] /\ n < end
    <2>1. wire' \in Seq(EventType) /\ Len(wire') = Len(wire) + 1
      BY <1>4, <1>5
    <2>2. wire'[end] = e /\ \A n \in 1..Len(wire) : wire'[n] = wire[n]
      BY <1>4, <1>5
    <2>3. DOMAIN wire' = 1..(Len(wire) + 1)
      BY <2>1
    <2>4. Len(wire') <= MaxWire
      BY <1>2, <2>1, CommentAssumption
    <2> QED
      BY <1>2, <2>1, <2>2, <2>3, <2>4
  <1>7. Events(c0)' = Events(c0) \cup {end} /\ \A c : c # c0 => Events(c)' = Events(c)
    BY <1>4, <1>6 DEF Events
  <1> HIDE DEF end, stale
  <1>8. CommentTypeOK'
    BY <1>1, <1>6 DEF CommentInv, CommentTypeOK
  <1>9. CreatedFirst'
    <2>1. \A q \in Writers : ~Writing(q, "idle")' => ~Writing(q, "idle") /\ writer'[q] = writer[q]
      BY <1>1 DEF Writing
    <2>2. ASSUME NEW q \in Writers, ~Writing(q, "idle")'
          PROVE  /\ comment'[writer'[q].id] # "none"
                 /\ Writing(q, "tell")' \/ Writing(q, "update")' => writer'[q].row # "none"
      <3>1. /\ writer'[q] = writer[q] /\ ~Writing(q, "idle")
            /\ Writing(q, "tell")' <=> Writing(q, "tell")
            /\ Writing(q, "update")' <=> Writing(q, "update")
        BY <2>1, <2>2 DEF Writing
      <3>2. /\ comment[writer[q].id] # "none"
            /\ Writing(q, "tell") \/ Writing(q, "update") => writer[q].row # "none"
        BY <3>1 DEF CommentInv, CreatedFirst
      <3> QED
        BY <3>1, <3>2
    <2>3. \A n \in DOMAIN wire' : comment'[wire'[n].id] # "none" /\ wire'[n].row # "none"
      <3>1. \A n \in DOMAIN wire : comment[wire[n].id] # "none" /\ wire[n].row # "none"
        BY DEF CommentInv, CreatedFirst
      <3>2. comment[c0] # "none" /\ writer[p].row # "none"
        BY DEF CommentInv, CreatedFirst, Writing
      <3> QED
        BY <1>4, <1>6, <3>1, <3>2
    <2>4. \A c \in Comments : shown'[c] # "none" => comment'[c] # "none"
      BY DEF CommentInv, CreatedFirst
    <2>5. \A i \in Lists, c \in Comments : list'[i].rows[c] # "none" => comment'[c] # "none"
      BY DEF CommentInv, CreatedFirst
    <2> QED
      BY <2>2, <2>3, <2>4, <2>5 DEF CreatedFirst, Writing
  <1>10. ASSUME NEW c \in Comments, c # c0 PROVE Told(c)' /\ \A s : View(c, s) => View(c, s)'
    <2>1. Tellers(c)' = Tellers(c) /\ \A q \in Tellers(c) : writer'[q] = writer[q]
      <3>1. Tellers(c)' = Tellers(c)
        BY <1>1, <1>10
      <3>2. \A q \in Tellers(c)' : writer'[q] = writer[q]
        BY <1>1
      <3> QED
        BY <3>1, <3>2
    <2>2. Events(c)' = Events(c) /\ \A n \in Events(c) : wire'[n] = wire[n]
      BY <1>6, <1>7, <1>10 DEF Events
    <2>3. comment'[c] = comment[c]
      OBVIOUS
    <2> QED
      BY <2>1, <2>2, <2>3, ViewKept DEF CommentInv
  <1>11. \A q \in Tellers(c0) : ~writer[q].overtaken =>
           writer[q].row = comment[c0] /\ (writer[q].new => Tellers(c0) = {q} /\ Events(c0) = {})
    BY <1>1 DEF CommentInv, Told
  <1>12. \A n \in Events(c0)' : Tellers(c0)' = {} /\ LastEvent(c0, n)' => n = end /\ Tellers(c0) = {p}
    BY <1>1, <1>2, <1>6, <1>7 DEF LastEvent, Events
  <1>13. Told(c0)'
    <2>1. ASSUME NEW q \in Tellers(c0)', ~writer'[q].overtaken PROVE writer'[q].row = comment'[c0] /\ ~writer'[q].new
      <3>1. q \in Tellers(c0) /\ q # p /\ writer'[q] = writer[q]
        BY <1>1
      <3> QED
        BY <1>1, <1>11, <2>1, <3>1
    <2>2. ASSUME NEW n \in Events(c0)', Tellers(c0)' = {}, LastEvent(c0, n)', ~wire'[n].stale
          PROVE  wire'[n].row = comment'[c0] /\ (wire'[n].new => Events(c0)' = {n})
      <3>1. n = end /\ Tellers(c0) = {p}
        BY <1>12, <2>2
      <3>2. ~writer[p].overtaken
        BY <1>4, <1>6, <2>2, <3>1 DEF stale
      <3> QED
        BY <1>1, <1>4, <1>6, <1>7, <1>11, <3>1, <3>2
    <2> QED
      BY <2>1, <2>2 DEF Told
  <1>14. ASSUME NEW s, View(c0, s) PROVE View(c0, s)'
    <2>1. Events(c0)' # {}
      BY <1>7
    <2>2. comment'[c0] # "none" /\ s = "none" =>
            \/ comment'[c0] = "deleted"
            \/ \E q \in Tellers(c0)' : writer'[q].new
            \/ \E n \in Events(c0)' : wire'[n].new
      <3>1. CASE \E q \in Tellers(c0) : writer[q].new
        <4>1. PICK q \in Tellers(c0) : writer[q].new
          BY <3>1
        <4>2. CASE q = p
          BY <1>4, <1>6, <1>7, <4>1, <4>2
        <4>3. CASE q # p
          BY <1>1, <4>1, <4>3
        <4> QED
          BY <4>2, <4>3
      <3>2. CASE \E n \in Events(c0) : wire[n].new
        <4>1. PICK n \in Events(c0) : wire[n].new
          BY <3>2
        <4>2. n \in Events(c0)' /\ wire'[n] = wire[n]
          BY <1>6, <1>7 DEF Events
        <4> QED
          BY <4>1, <4>2
      <3> QED
        BY <1>14, <3>1, <3>2 DEF View
    <2>3. \A q \in Tellers(c0) : writer[q].new /\ ~writer[q].overtaken => s \in {"none", comment[c0]}
      BY <1>14 DEF View
    <2>4. \A q \in Tellers(c0)' : writer'[q].new /\ ~writer'[q].overtaken => s \in {"none", comment'[c0]}
      BY <1>1, <2>3
    <2>5. ASSUME NEW n \in Events(c0)', Tellers(c0)' = {}, LastEvent(c0, n)', wire'[n].new, ~wire'[n].stale
          PROVE  s \in {"none", comment'[c0]}
      <3>1. n = end /\ Tellers(c0) = {p}
        BY <1>12, <2>5
      <3>2. ~writer[p].overtaken /\ writer[p].new
        BY <1>4, <1>6, <2>5, <3>1 DEF stale
      <3> QED
        BY <1>1, <2>3, <3>2
    <2> QED
      BY <2>1, <2>2, <2>4, <2>5 DEF View
  <1>15. /\ loaded' => \A c \in Comments \ missed' : View(c, shown[c])'
         /\ \A i \in Lists : list'[i].state = "read" => \A c \in Comments \ list'[i].late : View(c, list[i].rows[c])'
    <2>1. \A c \in Comments : \A s : View(c, s) => View(c, s)'
      BY <1>10, <1>14
    <2> DEFINE D == {}
    <2>2. D \subseteq missed' /\ missed \subseteq missed' /\ \A c \in Comments \ D : \A s : View(c, s) => View(c, s)'
      BY <2>1
    <2>3. \A i \in Lists : /\ list'[i].state = list[i].state /\ list'[i].rows = list[i].rows
                           /\ list[i].state = "read" => list[i].late \subseteq list'[i].late /\ D \subseteq list'[i].late
      OBVIOUS
    <2> HIDE DEF D
    <2> QED
      BY <2>2, <2>3, ViewsKept
  <1> QED
    BY <1>8, <1>9, <1>10, <1>13, <1>15 DEF CommentInv

\* What neither the rows, nor who tells of them, nor the wire tell apart.
LEMMA TellsAlike ==
  ASSUME CommentInv, comment' = comment, wire' = wire, \A c : Tellers(c)' = Tellers(c),
         \A c : \A q \in Tellers(c) : writer'[q] = writer[q]
  PROVE  \A c \in Comments : Told(c)' /\ \A s : View(c, s) => View(c, s)'
  <1> SUFFICES ASSUME NEW c \in Comments PROVE Told(c)' /\ \A s : View(c, s) => View(c, s)'
    OBVIOUS
  <1>1. Events(c)' = Events(c) /\ \A n \in Events(c) : wire'[n] = wire[n]
    BY DEF Events
  <1>2. Tellers(c)' = Tellers(c) /\ comment'[c] = comment[c] /\ \A q \in Tellers(c) : writer'[q] = writer[q]
    OBVIOUS
  <1> QED
    BY <1>1, <1>2, ViewKept DEF CommentInv

LEMMA ViewsAlike ==
  ASSUME CommentInv, \A c \in Comments : \A s : View(c, s) => View(c, s)', UNCHANGED <<shown, loaded, missed, list>>
  PROVE  /\ loaded' => \A c \in Comments \ missed' : View(c, shown[c])'
         /\ \A i \in Lists : list'[i].state = "read" => \A c \in Comments \ list'[i].late : View(c, list[i].rows[c])'
  <1> DEFINE D == {}
  <1>1. D \subseteq missed' /\ missed \subseteq missed' /\ \A c \in Comments \ D : \A s : View(c, s) => View(c, s)'
    OBVIOUS
  <1>2. \A i \in Lists : /\ list'[i].state = list[i].state /\ list'[i].rows = list[i].rows
                         /\ list[i].state = "read" => list[i].late \subseteq list'[i].late /\ D \subseteq list'[i].late
    OBVIOUS
  <1> HIDE DEF D
  <1> QED
    BY <1>1, <1>2, ViewsKept

\* A handler that has found a comment is about to write it.
LEMMA AboutToWrite ==
  ASSUME CommentInv, NEW p \in Writers, Begins(p), NEW c \in Comments, comment[c] \in Texts, NEW w \in WriterType,
         w.id = c, w.pc \in {"update", "remove"}, w.pc = "update" => w.row # "none",
         writer' = [writer EXCEPT ![p] = w], UNCHANGED <<comment, screenVars>>
  PROVE  CommentInv'
  <1>1. writer' \in [Writers -> WriterType] /\ writer'[p] = w /\ \A q \in Writers : q # p => writer'[q] = writer[q]
    BY DEF CommentInv, CommentTypeOK
  <1>2. wire' = wire /\ shown' = shown /\ list' = list /\ loaded' = loaded /\ missed' = missed /\ open' = open
        /\ room' = room
    BY DEF screenVars
  <1>3. writes' \in 0..MaxWrites
    BY CommentAssumption DEF Begins, CommentInv, CommentTypeOK
  <1>4. CommentTypeOK'
    BY <1>1, <1>2, <1>3 DEF CommentInv, CommentTypeOK
  <1>5. writer[p].pc = "idle" /\ comment[c] # "none"
    BY CommentAssumption DEF Begins, Writing
  <1>6. \A k : Tellers(k)' = Tellers(k)
    BY <1>1, <1>5 DEF Tellers, Writing
  <1>7. \A k : \A q \in Tellers(k) : writer'[q] = writer[q]
    BY <1>1, <1>5 DEF Tellers, Writing
  <1>8. \A k \in Comments : Told(k)' /\ \A s : View(k, s) => View(k, s)'
    BY <1>2, <1>6, <1>7, TellsAlike
  <1>9. CreatedFirst'
    <2>1. ASSUME NEW q \in Writers, ~Writing(q, "idle")'
          PROVE  /\ comment'[writer'[q].id] # "none"
                 /\ Writing(q, "tell")' \/ Writing(q, "update")' => writer'[q].row # "none"
      <3>1. CASE q = p
        BY <1>1, <1>5, <3>1 DEF Writing
      <3>2. CASE q # p
        <4>1. /\ writer'[q] = writer[q] /\ ~Writing(q, "idle")
              /\ Writing(q, "tell")' <=> Writing(q, "tell")
              /\ Writing(q, "update")' <=> Writing(q, "update")
          BY <1>1, <2>1, <3>2 DEF Writing
        <4>2. /\ comment[writer[q].id] # "none"
              /\ Writing(q, "tell") \/ Writing(q, "update") => writer[q].row # "none"
          BY <4>1 DEF CommentInv, CreatedFirst
        <4> QED
          BY <4>1, <4>2
      <3> QED
        BY <3>1, <3>2
    <2>2. \A n \in DOMAIN wire' : comment'[wire'[n].id] # "none" /\ wire'[n].row # "none"
      BY <1>2 DEF CommentInv, CreatedFirst
    <2>3. \A k \in Comments : shown'[k] # "none" => comment'[k] # "none"
      BY <1>2 DEF CommentInv, CreatedFirst
    <2>4. \A i \in Lists, k \in Comments : list'[i].rows[k] # "none" => comment'[k] # "none"
      BY <1>2 DEF CommentInv, CreatedFirst
    <2> QED
      BY <2>1, <2>2, <2>3, <2>4 DEF CreatedFirst, Writing
  <1>10. /\ loaded' => \A k \in Comments \ missed' : View(k, shown[k])'
         /\ \A i \in Lists : list'[i].state = "read" => \A k \in Comments \ list'[i].late : View(k, list[i].rows[k])'
    BY <1>2, <1>8, ViewsAlike
  <1> QED
    BY <1>2, <1>4, <1>8, <1>9, <1>10 DEF CommentInv

LEMMA HandlersSteps ==
  ASSUME CommentInv, NEW p \in Writers,
         \/ CreateComment(p) \/ UpdateComment(p) \/ UpdateWrite(p) \/ RemoveComment(p) \/ DeleteWrite(p)
         \/ Broadcast(p) \/ BroadcastLost(p)
  PROVE  CommentInv'
  <1>0. writer[p] \in WriterType /\ writer[p].id \in Comments /\ comment \in [Comments -> Rows] /\ writes \in 0..MaxWrites
    BY DEF CommentInv, CommentTypeOK, WriterType
  <1>1. CASE CreateComment(p)
    <2>1. PICK c \in Comments, text \in Texts :
            /\ Begins(p) /\ comment[c] = "none" /\ comment' = [comment EXCEPT ![c] = text]
            /\ HasWritten(p, c, text, TRUE) /\ UNCHANGED screenVars
      BY <1>1 DEF CreateComment
    <2>2. ~Writing(p, "tell") /\ writes' \in 0..MaxWrites /\ text \in Rows /\ text # "none"
      BY <2>1, CommentAssumption DEF Begins, Writing, CommentInv, CommentTypeOK, Rows
    <2> QED
      BY <2>1, <2>2, WriteTold
  <1>2. CASE UpdateComment(p)
    <2>1. PICK c \in Comments, text \in Texts :
            /\ Begins(p) /\ comment[c] \in Texts
            /\ writer' = [writer EXCEPT ![p] = [Resting EXCEPT !.pc = "update", !.id = c, !.row = text]]
            /\ UNCHANGED <<comment, screenVars>>
      BY <1>2 DEF UpdateComment
    <2> DEFINE w == [Resting EXCEPT !.pc = "update", !.id = c, !.row = text]
    <2>2. w \in WriterType /\ w.pc = "update" /\ w.id = c /\ w.row = text /\ text # "none"
      BY RestingTyped, CommentAssumption DEF WriterType, Rows
    <2> HIDE DEF w
    <2>3. writer' = [writer EXCEPT ![p] = w]
      BY <2>1 DEF w
    <2> QED
      BY <2>1, <2>2, <2>3, AboutToWrite
  <1>3. CASE RemoveComment(p)
    <2>1. PICK c \in Comments :
            /\ Begins(p) /\ comment[c] \in Texts
            /\ writer' = [writer EXCEPT ![p] = [Resting EXCEPT !.pc = "remove", !.id = c]]
            /\ UNCHANGED <<comment, screenVars>>
      BY <1>3 DEF RemoveComment
    <2> DEFINE w == [Resting EXCEPT !.pc = "remove", !.id = c]
    <2>2. w \in WriterType /\ w.pc = "remove" /\ w.id = c
      BY RestingTyped DEF WriterType
    <2> HIDE DEF w
    <2>3. writer' = [writer EXCEPT ![p] = w]
      BY <2>1 DEF w
    <2> QED
      BY <2>1, <2>2, <2>3, AboutToWrite
  <1>4. CASE UpdateWrite(p)
    <2> DEFINE c == writer[p].id
               row == IF comment[c] = "deleted" THEN comment[c] ELSE writer[p].row
    <2>1. /\ Writing(p, "update") /\ comment' = [comment EXCEPT ![c] = row]
          /\ HasWritten(p, c, comment'[c], FALSE) /\ writes' = writes /\ UNCHANGED screenVars
      BY <1>4 DEF UpdateWrite
    <2>2. comment[c] # "none" /\ row \in Rows /\ row # "none" /\ (comment[c] = "deleted" => row = "deleted")
      BY <1>0, <2>1 DEF CommentInv, CreatedFirst, Writing, WriterType
    <2>3. ~Writing(p, "tell") /\ comment'[c] = row
      BY <1>0, <2>1 DEF Writing
    <2> HIDE DEF row
    <2>4. HasWritten(p, c, row, FALSE)
      BY <2>1, <2>3
    <2> QED
      BY <1>0, <2>1, <2>2, <2>3, <2>4, WriteTold
  <1>5. CASE DeleteWrite(p)
    <2> DEFINE c == writer[p].id
    <2>1. /\ Writing(p, "remove") /\ comment' = [comment EXCEPT ![c] = "deleted"]
          /\ HasWritten(p, c, "deleted", FALSE) /\ writes' = writes /\ UNCHANGED screenVars
      BY <1>5 DEF DeleteWrite
    <2>2. comment[c] # "none" /\ "deleted" \in Rows /\ ~Writing(p, "tell")
      BY <1>0, <2>1 DEF CommentInv, CreatedFirst, Writing, Rows
    <2> QED
      BY <1>0, <2>1, <2>2, WriteTold
  <1>6. CASE Broadcast(p)
    <2> DEFINE c == writer[p].id
    <2>1. Writing(p, "tell") /\ writer' = [writer EXCEPT ![p] = Resting]
          /\ UNCHANGED <<comment, writes, open, room, loaded, shown>>
      BY <1>6 DEF Broadcast
    <2>2. CASE room = "in"
      <3>1. /\ Len(wire) < MaxWire /\ UNCHANGED <<list, missed>>
            /\ wire' = Append(wire, [id |-> c, row |-> writer[p].row, new |-> writer[p].new,
                                     stale |-> writer[p].overtaken /\ Tellers(c) = {p}])
        BY <1>6, <2>2 DEF Broadcast
      <3> QED
        BY <2>1, <3>1, ToldRoom
    <2>3. CASE room # "in"
      <3>1. /\ wire' = [n \in DOMAIN wire |-> [wire[n] EXCEPT !.stale = @ \/ wire[n].id = c]]
            /\ Unheard({c})
        BY <1>6, <2>3 DEF Broadcast
      <3> QED
        BY <2>1, <3>1, ToldNobody
    <2> QED
      BY <2>2, <2>3
  <1>7. CASE BroadcastLost(p)
    <2> DEFINE c == writer[p].id
    <2>1. /\ Writing(p, "tell") /\ writer' = [writer EXCEPT ![p] = Resting]
          /\ wire' = [n \in DOMAIN wire |-> [wire[n] EXCEPT !.stale = @ \/ wire[n].id = c]]
          /\ Unheard({c}) /\ UNCHANGED <<comment, writes, open, room, loaded, shown>>
      BY <1>7 DEF BroadcastLost
    <2> QED
      BY <2>1, ToldNobody
  <1> QED
    BY <1>1, <1>2, <1>3, <1>4, <1>5, <1>6, <1>7

\* The list as the server reads it.
Current == [c \in Comments |-> IF comment[c] = "deleted" THEN "none" ELSE comment[c]]

LEMMA CurrentViews ==
  ASSUME CommentInv, NEW c \in Comments
  PROVE  Current[c] \in Rows /\ View(c, Current[c]) /\ (Current[c] # "none" => comment[c] # "none")
  <1>1. comment[c] \in Rows /\ Told(c)
    BY DEF CommentInv, CommentTypeOK
  <1>2. Current[c] = Visible(comment[c])
    BY DEF Current, Visible
  <1>3. Visible(Current[c]) = Visible(comment[c])
    BY <1>2 DEF Visible
  <1>4. Current[c] \in {"none", comment[c]} /\ (comment[c] # "none" /\ Current[c] = "none" => comment[c] = "deleted")
    BY <1>2 DEF Visible
  <1>5. View(c, Current[c])
    BY <1>3, <1>4 DEF View
  <1> QED
    BY <1>1, <1>4, <1>5 DEF Current, Rows

\* The screen and the lists change, nothing is written, told or delivered: every
\* list is the one it was, or is not read, or is current; the screen is the one
\* it was, or is empty, or takes a list that was read.
LEMMA ScreenStep ==
  ASSUME CommentInv, UNCHANGED <<dbVars, wire>>,
         open' \in BOOLEAN, room' \in {"out", "asked", "in"}, loaded' \in BOOLEAN,
         missed' \in SUBSET Comments, list' \in [Lists -> ListType],
         \A i \in Lists : \/ list'[i] = list[i]
                          \/ list'[i].state # "read" /\ list'[i].rows = Blank
                          \/ list'[i].rows = Current,
         \/ UNCHANGED <<shown, missed, loaded>>
         \/ loaded' = FALSE /\ shown' = Blank
         \/ \E i \in Lists : list[i].state = "read" /\ shown' = list[i].rows /\ missed' = list[i].late,
         ~open' => ~loaded' /\ \A i \in Lists : list'[i].state = "free"
  PROVE  CommentInv'
  <1>1. comment' = comment /\ writer' = writer /\ writes' = writes /\ wire' = wire
    BY DEF dbVars
  <1>2. \A c : Tellers(c)' = Tellers(c)
    BY <1>1 DEF Tellers, Writing
  <1>3. \A c \in Comments : Told(c)' /\ \A s : View(c, s) => View(c, s)'
    BY <1>1, <1>2, TellsAlike
  <1>4. /\ shown \in [Comments -> Rows] /\ list \in [Lists -> ListType]
        /\ \A i \in Lists : list[i].rows \in [Comments -> Rows]
    BY DEF CommentInv, CommentTypeOK, ListType
  <1>5. shown' \in [Comments -> Rows]
    BY <1>4, BlankTyped
  <1>6. CommentTypeOK'
    BY <1>1, <1>5 DEF CommentInv, CommentTypeOK
  <1>7. CreatedFirst'
    <2>1. \A p \in Writers : /\ ~Writing(p, "idle")' => comment'[writer'[p].id] # "none"
                             /\ Writing(p, "tell")' \/ Writing(p, "update")' => writer'[p].row # "none"
      BY <1>1 DEF CommentInv, CreatedFirst, Writing
    <2>2. \A n \in DOMAIN wire' : comment'[wire'[n].id] # "none" /\ wire'[n].row # "none"
      BY <1>1 DEF CommentInv, CreatedFirst
    <2>3. \A c \in Comments : Blank[c] = "none"
      BY DEF Blank
    <2>4. \A i \in Lists, c \in Comments : list[i].rows[c] # "none" => comment[c] # "none"
      BY DEF CommentInv, CreatedFirst
    <2>5. \A c \in Comments : shown'[c] # "none" => comment'[c] # "none"
      BY <1>1, <2>3, <2>4 DEF CommentInv, CreatedFirst
    <2>6. \A i \in Lists, c \in Comments : list'[i].rows[c] # "none" => comment'[c] # "none"
      BY <1>1, <2>3, <2>4, CurrentViews
    <2> QED
      BY <2>1, <2>2, <2>5, <2>6 DEF CreatedFirst, Writing
  <1>8. ASSUME loaded', NEW c \in Comments \ missed' PROVE View(c, shown[c])'
    <2>1. PICK s : s = shown'[c]
      OBVIOUS
    <2>2. View(c, s)
      <3>1. CASE UNCHANGED <<shown, missed, loaded>>
        <4>1. View(c, shown[c]) /\ s = shown[c]
          BY <1>8, <2>1, <3>1 DEF CommentInv
        <4> QED
          BY <4>1
      <3>2. CASE \E i \in Lists : list[i].state = "read" /\ shown' = list[i].rows /\ missed' = list[i].late
        <4>1. PICK i \in Lists : list[i].state = "read" /\ shown' = list[i].rows /\ missed' = list[i].late
          BY <3>2
        <4>2. View(c, list[i].rows[c]) /\ s = list[i].rows[c]
          BY <1>8, <2>1, <4>1 DEF CommentInv
        <4> QED
          BY <4>2
      <3> QED
        BY <1>8, <3>1, <3>2
    <2>3. View(c, s)'
      BY <1>3, <2>2
    <2> QED
      BY <2>1, <2>3 DEF View
  <1>9. ASSUME NEW i \in Lists, list'[i].state = "read", NEW c \in Comments \ list'[i].late
        PROVE  View(c, list[i].rows[c])'
    <2>1. PICK s : s = list'[i].rows[c]
      OBVIOUS
    <2>2. View(c, s)
      <3>1. CASE list'[i] = list[i]
        <4>1. View(c, list[i].rows[c]) /\ s = list[i].rows[c]
          BY <1>9, <2>1, <3>1 DEF CommentInv
        <4> QED
          BY <4>1
      <3>2. CASE list'[i].rows = Current
        <4>1. View(c, Current[c]) /\ s = Current[c]
          BY <2>1, <3>2, CurrentViews
        <4> QED
          BY <4>1
      <3> QED
        BY <1>9, <3>1, <3>2
    <2>3. View(c, s)'
      BY <1>3, <2>2
    <2> QED
      BY <2>1, <2>3 DEF View
  <1> QED
    BY <1>3, <1>6, <1>7, <1>8, <1>9 DEF CommentInv

LEMMA ListsTyped ==
  ASSUME CommentInv, NEW i \in Lists, NEW l \in ListType, list' = [list EXCEPT ![i] = l]
  PROVE  list' \in [Lists -> ListType] /\ list'[i] = l /\ \A k \in Lists : k # i => list'[k] = list[k]
  BY DEF CommentInv, CommentTypeOK

LEMMA PanelSteps ==
  ASSUME CommentInv, OpenPanel \/ ClosePanel \/ JoinRoom \/ AskList \/ ReadList \/ ShowList \/ ListFails
  PROVE  CommentInv'
  <1> DEFINE asked == [NoList EXCEPT !.state = "asked"]
  <1>0. /\ open \in BOOLEAN /\ room \in {"out", "asked", "in"} /\ loaded \in BOOLEAN /\ missed \in SUBSET Comments
        /\ list \in [Lists -> ListType] /\ 1 \in Lists
        /\ ~open => ~loaded /\ \A i \in Lists : list[i].state = "free"
    BY DEF CommentInv, CommentTypeOK, Lists
  <1>a. asked \in ListType /\ asked.state = "asked" /\ asked.rows = Blank
    BY BlankTyped DEF ListType
  <1>b. NoList \in ListType /\ NoList.state = "free" /\ NoList.rows = Blank
    BY BlankTyped
  <1> HIDE DEF asked
  <1>1. CASE OpenPanel
    <2>1. open' = TRUE /\ room' = "asked" /\ list' = [list EXCEPT ![1] = asked] /\ UNCHANGED <<dbVars, wire, loaded, shown, missed>>
      BY <1>1 DEF OpenPanel, asked
    <2>2. list' \in [Lists -> ListType] /\ list'[1] = asked /\ \A k \in Lists : k # 1 => list'[k] = list[k]
      BY <1>0, <1>a, <2>1, ListsTyped
    <2> QED
      BY <1>0, <1>a, <2>1, <2>2, ScreenStep
  <1>2. CASE ClosePanel
    <2>1. open' = FALSE /\ room' = "out" /\ list' = [i \in Lists |-> NoList] /\ loaded' = FALSE /\ shown' = Blank
          /\ missed' = {} /\ UNCHANGED <<dbVars, wire>>
      BY <1>2 DEF ClosePanel
    <2>2. list' \in [Lists -> ListType] /\ \A k \in Lists : list'[k] = NoList
      BY <1>b, <2>1
    <2> QED
      BY <1>b, <2>1, <2>2, ScreenStep
  <1>3. CASE JoinRoom
    BY <1>0, <1>3, ScreenStep DEF JoinRoom
  <1>4. CASE AskList
    <2>1. PICK i \in Lists : open /\ list' = [list EXCEPT ![i] = asked]
                             /\ UNCHANGED <<dbVars, open, room, wire, loaded, shown, missed>>
      BY <1>4 DEF AskList, asked
    <2>2. list' \in [Lists -> ListType] /\ list'[i] = asked /\ \A k \in Lists : k # i => list'[k] = list[k]
      BY <1>a, <2>1, ListsTyped
    <2> QED
      BY <1>0, <1>a, <2>1, <2>2, ScreenStep
  <1>5. CASE ReadList
    <2>1. PICK i \in Lists :
            /\ list[i].state = "asked"
            /\ list' = [list EXCEPT ![i] = [state |-> "read", late |-> {}, rows |-> Current]]
            /\ UNCHANGED <<dbVars, open, room, wire, loaded, shown, missed>>
      BY <1>5 DEF ReadList, Current
    <2> DEFINE l == [state |-> "read", late |-> {}, rows |-> Current]
    <2>2. Current \in [Comments -> Rows]
      BY CurrentViews DEF Current
    <2>3. l \in ListType /\ l.rows = Current
      BY <2>2 DEF ListType
    <2> HIDE DEF l
    <2>4. list' \in [Lists -> ListType] /\ list'[i] = l /\ \A k \in Lists : k # i => list'[k] = list[k]
      BY <2>1, <2>3, ListsTyped DEF l
    <2>5. open
      BY <1>0, <2>1
    <2> QED
      BY <1>0, <2>1, <2>3, <2>4, <2>5, ScreenStep
  <1>6. CASE ShowList
    <2>1. PICK i \in Lists :
            /\ list[i].state = "read" /\ list' = [list EXCEPT ![i] = NoList]
            /\ shown' = list[i].rows /\ missed' = list[i].late /\ loaded' = TRUE
            /\ UNCHANGED <<dbVars, open, room, wire>>
      BY <1>6 DEF ShowList
    <2>2. list' \in [Lists -> ListType] /\ list'[i] = NoList /\ \A k \in Lists : k # i => list'[k] = list[k]
      BY <1>b, <2>1, ListsTyped
    <2>3. open /\ missed' \in SUBSET Comments
      BY <1>0, <2>1 DEF ListType
    <2> QED
      BY <1>0, <1>b, <2>1, <2>2, <2>3, ScreenStep
  <1>7. CASE ListFails
    <2>1. PICK i \in Lists : list[i].state # "free" /\ list' = [list EXCEPT ![i] = NoList]
                             /\ UNCHANGED <<dbVars, open, room, wire, loaded, shown, missed>>
      BY <1>7 DEF ListFails
    <2>2. list' \in [Lists -> ListType] /\ list'[i] = NoList /\ \A k \in Lists : k # i => list'[k] = list[k]
      BY <1>b, <2>1, ListsTyped
    <2> QED
      BY <1>0, <1>b, <2>1, <2>2, ScreenStep
  <1> QED
    BY <1>1, <1>2, <1>3, <1>4, <1>5, <1>6, <1>7

LEMMA DisconnectStep == ASSUME CommentInv, Disconnect PROVE CommentInv'
  <1> DEFINE cs == {wire[n].id : n \in DOMAIN wire}
  <1>1. /\ room' = "out" /\ wire' = <<>> /\ Unheard(cs) /\ comment' = comment /\ writer' = writer /\ writes' = writes
        /\ UNCHANGED <<open, loaded, shown>>
    BY DEF Disconnect, dbVars
  <1>2. cs \in SUBSET Comments
    BY WireTyped DEF CommentInv
  <1>3. \A c : c \notin cs => Events(c) = {}
    BY DEF Events
  <1> HIDE DEF cs
  <1>4. /\ missed' = missed \cup cs /\ missed' \subseteq Comments /\ list' \in [Lists -> ListType]
        /\ \A i \in Lists : /\ list'[i].state = list[i].state /\ list'[i].rows = list[i].rows
                            /\ list[i].state = "read" => list'[i].late = list[i].late \cup cs
    BY <1>1, <1>2, HearsNot
  <1>5. CommentTypeOK'
    <2>1. wire' \in Seq(EventType) /\ Len(wire') <= MaxWire
      BY <1>1, CommentAssumption
    <2> QED
      BY <1>1, <1>4, <2>1 DEF CommentInv, CommentTypeOK
  <1>6. \A c : Tellers(c)' = Tellers(c) /\ Events(c)' = {}
    BY <1>1 DEF Tellers, Writing, Events
  <1>7. CreatedFirst'
    <2>1. DOMAIN wire' = {}
      BY <1>1
    <2>2. \A c \in Comments : shown'[c] # "none" => comment'[c] # "none"
      BY <1>1 DEF CommentInv, CreatedFirst
    <2>3. \A i \in Lists, c \in Comments : list'[i].rows[c] # "none" => comment'[c] # "none"
      BY <1>1, <1>4 DEF CommentInv, CreatedFirst
    <2>4. \A p \in Writers : /\ ~Writing(p, "idle")' => comment'[writer'[p].id] # "none"
                             /\ Writing(p, "tell")' \/ Writing(p, "update")' => writer'[p].row # "none"
      BY <1>1 DEF CommentInv, CreatedFirst, Writing
    <2> QED
      BY <2>1, <2>2, <2>3, <2>4 DEF CreatedFirst, Writing
  <1>8. ASSUME NEW c \in Comments PROVE Told(c)'
    <2>1. Told(c)
      BY DEF CommentInv
    <2> QED
      BY <1>1, <1>6, <2>1 DEF Told
  <1>9. ASSUME NEW c \in Comments \ cs PROVE \A s : View(c, s) => View(c, s)'
    <2>1. /\ comment'[c] = comment[c] /\ Tellers(c)' = Tellers(c) /\ \A q \in Tellers(c) : writer'[q] = writer[q]
          /\ Events(c)' = Events(c) /\ \A n \in Events(c) : wire'[n] = wire[n]
      BY <1>1, <1>3, <1>6
    <2> QED
      BY <2>1, ViewKept
  <1>10. /\ loaded' => \A c \in Comments \ missed' : View(c, shown[c])'
         /\ \A i \in Lists : list'[i].state = "read" => \A c \in Comments \ list'[i].late : View(c, list[i].rows[c])'
    <2>1. cs \subseteq missed' /\ missed \subseteq missed'
      BY <1>4
    <2>2. \A i \in Lists : list[i].state = "read" => cs \subseteq list'[i].late /\ list[i].late \subseteq list'[i].late
      BY <1>4
    <2>3. \A i \in Lists : list'[i].state = list[i].state /\ list'[i].rows = list[i].rows
      BY <1>4
    <2> QED
      BY <1>1, <1>9, <2>1, <2>2, <2>3, ViewsKept
  <1>11. ~open' => ~loaded' /\ \A i \in Lists : list'[i].state = "free"
    BY <1>1, <1>4 DEF CommentInv
  <1> QED
    BY <1>5, <1>7, <1>8, <1>10, <1>11 DEF CommentInv

\* What is left of the wire.
LEMMA Shifted ==
  ASSUME CommentInv, wire # <<>>, wire' = Tail(wire)
  PROVE  /\ wire' \in Seq(EventType) /\ Len(wire') <= MaxWire
         /\ 1 \in DOMAIN wire /\ Head(wire) = wire[1]
         /\ \A n \in DOMAIN wire' : n \in Nat /\ n >= 1 /\ n + 1 \in DOMAIN wire /\ wire'[n] = wire[n + 1]
         /\ \A n \in DOMAIN wire : n = 1 \/ (n - 1 \in DOMAIN wire' /\ wire'[n - 1] = wire[n])
         /\ \A n \in DOMAIN wire : n \in Nat /\ n >= 1
  <1>1. wire \in Seq(EventType) /\ Len(wire) <= MaxWire
    BY DEF CommentInv, CommentTypeOK
  <1>2. wire' \in Seq(EventType) /\ Len(wire') = Len(wire) - 1 /\ Len(wire) \in Nat /\ Len(wire) >= 1
    BY <1>1
  <1>3. DOMAIN wire = 1..Len(wire) /\ DOMAIN wire' = 1..(Len(wire) - 1)
    BY <1>1, <1>2
  <1>4. \A n \in 1..(Len(wire) - 1) : wire'[n] = wire[n + 1]
    BY <1>1, <1>2
  <1>5. Head(wire) = wire[1]
    BY <1>1
  <1>6. Len(wire') <= MaxWire
    BY <1>1, <1>2, CommentAssumption
  <1>7. \A n \in DOMAIN wire : n = 1 \/ (n - 1 \in DOMAIN wire' /\ wire'[n - 1] = wire[n])
    <2> SUFFICES ASSUME NEW n \in 1..Len(wire), n # 1 PROVE n - 1 \in DOMAIN wire' /\ wire'[n - 1] = wire[n]
      BY <1>3
    <2>1. n - 1 \in 1..(Len(wire) - 1) /\ (n - 1) + 1 = n
      BY <1>2
    <2> QED
      BY <1>3, <1>4, <2>1
  <1> QED
    BY <1>2, <1>3, <1>4, <1>5, <1>6, <1>7

LEMMA DeliverStep == ASSUME CommentInv, Deliver PROVE CommentInv'
  <1>0. PICK e, c0 : e = Head(wire) /\ c0 = e.id
    OBVIOUS
  <1>1. wire # <<>> /\ wire' = Tail(wire) /\ comment' = comment /\ writer' = writer /\ writes' = writes
        /\ open' = open /\ room' = room /\ loaded' = loaded
    BY DEF Deliver, dbVars
  <1>2. /\ wire' \in Seq(EventType) /\ Len(wire') <= MaxWire
        /\ 1 \in DOMAIN wire /\ e = wire[1]
        /\ \A n \in DOMAIN wire' : n \in Nat /\ n >= 1 /\ n + 1 \in DOMAIN wire /\ wire'[n] = wire[n + 1]
        /\ \A n \in DOMAIN wire : n = 1 \/ (n - 1 \in DOMAIN wire' /\ wire'[n - 1] = wire[n])
        /\ \A n \in DOMAIN wire : n \in Nat /\ n >= 1
    BY <1>0, <1>1, Shifted
  <1>3. /\ e \in EventType /\ c0 \in Comments /\ e.row \in Rows /\ e.new \in BOOLEAN /\ e.stale \in BOOLEAN
        /\ comment[c0] # "none" /\ e.row # "none"
    BY <1>0, <1>2, WireTyped DEF CommentInv, EventType, CreatedFirst
  <1>4. /\ open => /\ shown' = IF e.new = (shown[c0] = "none") THEN [shown EXCEPT ![c0] = e.row] ELSE shown
                   /\ missed' = IF e.stale THEN missed \cup {c0} ELSE missed
                   /\ list' = [i \in Lists |-> IF list[i].state = "read" THEN [list[i] EXCEPT !.late = @ \cup {c0}] ELSE list[i]]
        /\ ~open => UNCHANGED <<shown, missed, list>>
    BY <1>0 DEF Deliver
  <1>5. \A c : Tellers(c)' = Tellers(c)
    BY <1>1 DEF Tellers, Writing
  <1>6. \A c : /\ \A n \in Events(c)' : n \in Nat /\ n >= 1 /\ n + 1 \in Events(c) /\ wire'[n] = wire[n + 1]
               /\ \A n \in Events(c) : n = 1 \/ (n - 1 \in Events(c)' /\ wire'[n - 1] = wire[n])
               /\ \A n \in Events(c) : n \in Nat /\ n >= 1
               /\ 1 \in Events(c) <=> c = c0
    BY <1>0, <1>2 DEF Events
  <1>7. ASSUME NEW c, NEW n \in Events(c)', LastEvent(c, n)' PROVE n \in Nat /\ n >= 1 /\ n + 1 \in Events(c) /\ LastEvent(c, n + 1)
    <2>1. n \in Nat /\ n >= 1 /\ n + 1 \in Events(c)
      BY <1>6
    <2>2. \A m \in Events(c)' : m <= n
      BY <1>7 DEF LastEvent
    <2>3. \A m \in Events(c) : m <= n + 1
      <3> SUFFICES ASSUME NEW m \in Events(c) PROVE m <= n + 1
        OBVIOUS
      <3>1. m \in Nat /\ (m = 1 \/ m - 1 \in Events(c)')
        BY <1>6
      <3>2. m = 1 \/ m - 1 <= n
        BY <2>2, <3>1
      <3> QED
        BY <2>1, <3>1, <3>2
    <2> QED
      BY <2>1, <2>3 DEF LastEvent
  <1>8. ASSUME NEW c \in Comments PROVE Told(c)'
    <2>1. Told(c)
      BY DEF CommentInv
    <2>2. Events(c) = {} => Events(c)' = {}
      BY <1>6
    <2>3. \A p \in Tellers(c)' : ~writer'[p].overtaken =>
            writer'[p].row = comment'[c] /\ (writer'[p].new => Tellers(c)' = {p} /\ Events(c)' = {})
      BY <1>1, <1>5, <2>1, <2>2 DEF Told
    <2>4. ASSUME NEW n \in Events(c)', Tellers(c)' = {}, LastEvent(c, n)', ~wire'[n].stale
          PROVE  wire'[n].row = comment'[c] /\ (wire'[n].new => Events(c)' = {n})
      <3>1. n + 1 \in Events(c) /\ LastEvent(c, n + 1) /\ wire'[n] = wire[n + 1] /\ n \in Nat
        BY <1>6, <1>7, <2>4
      <3>2. wire[n + 1].row = comment[c] /\ (wire[n + 1].new => Events(c) = {n + 1})
        BY <1>5, <2>1, <2>4, <3>1 DEF Told
      <3>3. Events(c) = {n + 1} => Events(c)' = {n}
        <4>1. ASSUME Events(c) = {n + 1}, NEW m \in Events(c)' PROVE m = n
          <5>1. m \in Nat /\ m + 1 \in {n + 1}
            BY <1>6, <4>1
          <5> QED
            BY <3>1, <5>1
        <4> QED
          BY <2>4, <4>1
      <3> QED
        BY <1>1, <3>1, <3>2, <3>3
    <2> QED
      BY <2>3, <2>4 DEF Told
  <1>9. ASSUME NEW c \in Comments, c # c0, NEW s, View(c, s) PROVE View(c, s)'
    <2>1. Events(c)' = {} => Events(c) = {}
      BY <1>6, <1>9
    <2>2. (\E n \in Events(c) : wire[n].new) => \E n \in Events(c)' : wire'[n].new
      <3> SUFFICES ASSUME NEW n \in Events(c), wire[n].new PROVE \E m \in Events(c)' : wire'[m].new
        OBVIOUS
      <3>1. n - 1 \in Events(c)' /\ wire'[n - 1] = wire[n]
        BY <1>6, <1>9
      <3> QED
        BY <3>1
    <2>3. ASSUME NEW n \in Events(c)', Tellers(c)' = {}, LastEvent(c, n)', wire'[n].new, ~wire'[n].stale
          PROVE  s \in {"none", comment'[c]}
      <3>1. n + 1 \in Events(c) /\ LastEvent(c, n + 1) /\ wire'[n] = wire[n + 1]
        BY <1>6, <1>7, <2>3
      <3> QED
        BY <1>1, <1>5, <1>9, <2>3, <3>1 DEF View
    <2>4. Tellers(c)' = {} /\ Events(c)' = {} => Visible(s) = Visible(comment'[c])
      BY <1>1, <1>5, <1>9, <2>1 DEF View
    <2>5. comment'[c] # "none" /\ s = "none" =>
            comment'[c] = "deleted" \/ (\E p \in Tellers(c)' : writer'[p].new) \/ \E n \in Events(c)' : wire'[n].new
      BY <1>1, <1>5, <1>9, <2>2 DEF View
    <2>6. \A p \in Tellers(c)' : writer'[p].new /\ ~writer'[p].overtaken => s \in {"none", comment'[c]}
      BY <1>1, <1>5, <1>9 DEF View
    <2> QED
      BY <2>3, <2>4, <2>5, <2>6 DEF View, Visible
  <1>10. ASSUME NEW s, NEW t, View(c0, s), ~e.stale, t = IF e.new = (s = "none") THEN e.row ELSE s PROVE View(c0, t)'
    <2>1. 1 \in Events(c0) /\ wire[1] = e /\ Told(c0)
      BY <1>2, <1>3, <1>6 DEF CommentInv
    <2>2. ASSUME NEW n \in Events(c0), n # 1 PROVE n - 1 \in Events(c0)' /\ wire'[n - 1] = wire[n]
      BY <1>6, <2>2
    <2>3. (s = "none" /\ e.new => t = e.row) /\ (s # "none" /\ ~e.new => t = e.row)
          /\ (s # "none" /\ e.new => t = s) /\ (s = "none" /\ ~e.new => t = s)
      BY <1>3, <1>10
    <2>4. /\ comment[c0] # "none" /\ s = "none" =>
               comment[c0] = "deleted" \/ (\E p \in Tellers(c0) : writer[p].new) \/ \E n \in Events(c0) : wire[n].new
          /\ \A n \in Events(c0) : Tellers(c0) = {} /\ LastEvent(c0, n) /\ wire[n].new /\ ~wire[n].stale =>
               s \in {"none", comment[c0]}
      BY <1>10 DEF View
    <2>5. ASSUME Tellers(c0)' = {}, Events(c0)' = {} PROVE Visible(t) = Visible(comment'[c0])
      <3>1. Tellers(c0) = {} /\ Events(c0) = {1}
        BY <1>5, <2>1, <2>2, <2>5
      <3>2. LastEvent(c0, 1)
        BY <3>1 DEF LastEvent
      <3>3. e.row = comment[c0]
        BY <1>10, <2>1, <3>1, <3>2 DEF Told
      <3>4. CASE e.new
        BY <1>1, <1>10, <2>1, <2>3, <2>4, <3>1, <3>2, <3>3, <3>4
      <3>5. CASE ~e.new /\ s # "none"
        BY <1>1, <2>3, <3>3, <3>5
      <3>6. CASE ~e.new /\ s = "none"
        <4>1. comment[c0] = "deleted" /\ t = "none"
          BY <1>3, <2>1, <2>3, <2>4, <3>1, <3>6
        <4> QED
          BY <1>1, <4>1 DEF Visible
      <3> QED
        BY <3>4, <3>5, <3>6
    <2>6. ASSUME t = "none"
          PROVE  comment'[c0] = "deleted" \/ (\E p \in Tellers(c0)' : writer'[p].new) \/ \E n \in Events(c0)' : wire'[n].new
      <3>1. s = "none" /\ ~e.new
        BY <1>3, <2>3, <2>6
      <3>2. \A n \in Events(c0) : wire[n].new => n # 1
        BY <2>1, <3>1
      <3>3. (\E n \in Events(c0) : wire[n].new) => \E n \in Events(c0)' : wire'[n].new
        <4> SUFFICES ASSUME NEW n \in Events(c0), wire[n].new PROVE \E m \in Events(c0)' : wire'[m].new
          OBVIOUS
        <4>1. n - 1 \in Events(c0)' /\ wire'[n - 1] = wire[n]
          BY <2>2, <3>2
        <4> QED
          BY <4>1
      <3> QED
        BY <1>1, <1>3, <1>5, <2>4, <3>1, <3>3
    <2>7. \A p \in Tellers(c0)' : ~(writer'[p].new /\ ~writer'[p].overtaken)
      BY <1>1, <1>5, <2>1 DEF Told
    <2>8. ASSUME NEW n \in Events(c0)', Tellers(c0)' = {}, LastEvent(c0, n)', wire'[n].new, ~wire'[n].stale PROVE FALSE
      <3>1. n \in Nat /\ n >= 1 /\ n + 1 \in Events(c0) /\ LastEvent(c0, n + 1) /\ wire'[n] = wire[n + 1]
        BY <1>6, <1>7, <2>8
      <3>2. Events(c0) = {n + 1}
        BY <1>5, <2>1, <2>8, <3>1 DEF Told
      <3>3. 1 = n + 1
        BY <2>1, <3>2
      <3> QED
        BY <3>1, <3>3
    <2> QED
      BY <2>5, <2>6, <2>7, <2>8 DEF View
  <1>11. /\ \A p \in Writers : /\ ~Writing(p, "idle")' => comment'[writer'[p].id] # "none"
                               /\ Writing(p, "tell")' \/ Writing(p, "update")' => writer'[p].row # "none"
         /\ \A n \in DOMAIN wire' : comment'[wire'[n].id] # "none" /\ wire'[n].row # "none"
    BY <1>1, <1>2 DEF CommentInv, CreatedFirst, Writing
  <1>12. CASE ~open
    <2>1. UNCHANGED <<shown, missed, list>> /\ ~loaded /\ \A i \in Lists : list[i].state = "free"
      BY <1>4, <1>12 DEF CommentInv
    <2>2. CommentTypeOK'
      BY <1>1, <1>2, <2>1 DEF CommentInv, CommentTypeOK
    <2>3. CreatedFirst'
      BY <1>1, <1>11, <2>1 DEF CommentInv, CreatedFirst, Writing
    <2> QED
      BY <1>1, <1>8, <2>1, <2>2, <2>3 DEF CommentInv
  <1>13. CASE open
    <2>1. /\ shown \in [Comments -> Rows] /\ missed \subseteq Comments /\ list \in [Lists -> ListType]
      BY DEF CommentInv, CommentTypeOK
    <2>2. /\ shown' = IF e.new = (shown[c0] = "none") THEN [shown EXCEPT ![c0] = e.row] ELSE shown
          /\ missed' = IF e.stale THEN missed \cup {c0} ELSE missed
      BY <1>4, <1>13
    <2>3. /\ shown' \in [Comments -> Rows] /\ \A c \in Comments : c # c0 => shown'[c] = shown[c]
          /\ shown'[c0] = IF e.new = (shown[c0] = "none") THEN e.row ELSE shown[c0]
      BY <1>3, <2>1, <2>2
    <2>4. missed' \subseteq Comments /\ missed \subseteq missed' /\ (c0 \notin missed' => ~e.stale)
      BY <1>3, <2>1, <2>2
    <2>5. ASSUME NEW i \in Lists
          PROVE  /\ list'[i] \in ListType /\ list'[i].state = list[i].state /\ list'[i].rows = list[i].rows
                 /\ list[i].state = "read" => list'[i].late = list[i].late \cup {c0}
      <3>1. list[i] \in ListType
        BY <2>1
      <3>2. list'[i] = IF list[i].state = "read" THEN [list[i] EXCEPT !.late = @ \cup {c0}] ELSE list[i]
        BY <1>4, <1>13
      <3> QED
        BY <1>3, <3>1, <3>2 DEF ListType
    <2>6. list' \in [Lists -> ListType]
      BY <1>4, <1>13, <2>5
    <2>7. CommentTypeOK'
      BY <1>1, <1>2, <2>3, <2>4, <2>6 DEF CommentInv, CommentTypeOK
    <2>8. CreatedFirst'
      <3>1. \A c \in Comments : shown'[c] # "none" => comment'[c] # "none"
        BY <1>1, <1>3, <2>3 DEF CommentInv, CreatedFirst
      <3>2. \A i \in Lists, c \in Comments : list'[i].rows[c] # "none" => comment'[c] # "none"
        BY <1>1, <2>5 DEF CommentInv, CreatedFirst
      <3> QED
        BY <1>11, <3>1, <3>2 DEF CreatedFirst, Writing
    <2>9. ASSUME loaded', NEW c \in Comments \ missed' PROVE View(c, shown[c])'
      <3>1. PICK s, t : s = shown[c] /\ t = shown'[c]
        OBVIOUS
      <3>2. View(c, s)
        <4>1. View(c, shown[c])
          BY <1>1, <2>4, <2>9 DEF CommentInv
        <4> QED
          BY <3>1, <4>1
      <3>3. View(c, t)'
        <4>1. CASE c = c0
          <5>1. t = IF e.new = (s = "none") THEN e.row ELSE s
            BY <2>3, <3>1, <4>1
          <5> QED
            BY <1>10, <2>4, <2>9, <3>2, <4>1, <5>1
        <4>2. CASE c # c0
          BY <1>9, <2>3, <2>9, <3>1, <3>2, <4>2
        <4> QED
          BY <4>1, <4>2
      <3> QED
        BY <3>1, <3>3 DEF View
    <2>10. ASSUME NEW i \in Lists, list'[i].state = "read", NEW c \in Comments \ list'[i].late
           PROVE  View(c, list[i].rows[c])'
      <3>1. PICK s : s = list[i].rows[c] /\ s = list'[i].rows[c]
        BY <2>5
      <3>2. c # c0 /\ c \notin list[i].late /\ list[i].state = "read"
        BY <2>5, <2>10
      <3>3. View(c, list[i].rows[c])
        BY <3>2 DEF CommentInv
      <3>4. View(c, s)
        BY <3>1, <3>3
      <3>5. View(c, s)'
        BY <1>9, <3>2, <3>4
      <3> QED
        BY <3>1, <3>5 DEF View
    <2> QED
      BY <1>1, <1>8, <1>13, <2>7, <2>8, <2>9, <2>10 DEF CommentInv
  <1> QED
    BY <1>12, <1>13

LEMMA CommentSteps == CommentInv /\ [CommentNext]_commentVars => CommentInv'
  <1> SUFFICES ASSUME CommentInv, [CommentNext]_commentVars PROVE CommentInv'
    OBVIOUS
  <1>1. ASSUME NEW p \in Writers,
               \/ CreateComment(p) \/ UpdateComment(p) \/ UpdateWrite(p) \/ RemoveComment(p) \/ DeleteWrite(p)
               \/ Broadcast(p) \/ BroadcastLost(p)
        PROVE  CommentInv'
    BY <1>1, HandlersSteps
  <1>2. CASE OpenPanel \/ ClosePanel \/ JoinRoom \/ AskList \/ ReadList \/ ShowList \/ ListFails
    BY <1>2, PanelSteps
  <1>3. CASE Disconnect
    BY <1>3, DisconnectStep
  <1>4. CASE Deliver
    BY <1>4, DeliverStep
  <1>5. CASE UNCHANGED commentVars
    <2>1. UNCHANGED <<comment, writer, writes, open, room, wire, list, loaded, shown, missed>>
      BY <1>5 DEF commentVars, dbVars, screenVars
    <2>2. \A c : Tellers(c)' = Tellers(c) /\ Events(c)' = Events(c)
      BY <2>1 DEF Tellers, Writing, Events
    <2>3. \A c \in Comments : Told(c)' /\ \A s : View(c, s) => View(c, s)'
      BY <2>1, <2>2, TellsAlike
    <2> DEFINE D == {}
    <2>4. /\ loaded' => \A c \in Comments \ missed' : View(c, shown[c])'
          /\ \A i \in Lists : list'[i].state = "read" => \A c \in Comments \ list'[i].late : View(c, list[i].rows[c])'
      BY <2>1, <2>3, ViewsAlike
    <2>5. CommentTypeOK' /\ CreatedFirst'
      BY <2>1 DEF CommentInv, CommentTypeOK, CreatedFirst, Writing
    <2> QED
      BY <2>1, <2>3, <2>4, <2>5 DEF CommentInv
  <1> QED
    BY <1>1, <1>2, <1>3, <1>4, <1>5 DEF CommentNext

\* The types of the comments of a task and of the panel that shows them.
THEOREM CommentsTyped == CommentSpec => []CommentTypeOK
  <1>1. CommentInv => CommentTypeOK
    BY DEF CommentInv
  <1> QED
    BY CommentInitial, CommentSteps, <1>1, PTL DEF CommentSpec

\* A panel at rest shows what the rows hold, for any number of handlers,
\* comments and events on the wire: comments.service.ts tells the room
\* after it has written, TaskCollaborationPanels.tsx brings a list up to date by
\* what it is told.
THEOREM ScreenStaysTrue == CommentSpec => []ScreenAgrees
  <1>1. CommentInv => ScreenAgrees
    <2> SUFFICES ASSUME CommentInv, Settled, NEW c \in Comments \ missed, Tellers(c) = {}
                 PROVE  Visible(shown[c]) = Visible(comment[c])
      BY DEF ScreenAgrees
    <2>1. View(c, shown[c])
      BY DEF CommentInv, Settled
    <2>2. Events(c) = {}
      BY DEF Settled, Events
    <2> QED
      BY <2>1, <2>2 DEF View
  <1> QED
    BY CommentInitial, CommentSteps, <1>1, PTL DEF CommentSpec

=============================================================================
