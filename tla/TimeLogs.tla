------------------------------ MODULE TimeLogs ------------------------------
(* The time logs of one user in one workspace: a timer that is started and      *)
(* stopped, and intervals entered and edited by hand.  Checks precede writes    *)
(* outside any transaction; a partial unique index admits one running timer.    *)
EXTENDS Handling

CONSTANTS Logs,     \* ids of rows
          Entered,  \* bound: instants entered by hand
          New,      \* a row to be created
          Running   \* null, for the end of a log

ASSUME LogAssumption == Entered \subseteq 0..LastHour /\ Running \notin Nat /\ New \notin Logs

VARIABLES log,      \* rows of "time_logs"; NoLog where there is none
          entry,    \* what each handler is about to write, from what it has read
          crowded   \* history: two requests were between their check and their write together

timeVars == <<log, entry, crowded>>

Hours == 0..LastHour
\* checked (history): the interval was entered or edited by hand.
LogType == [state : {"unused", "kept", "deleted"}, start : Hours, end : Hours \cup {Running},
            duration : Hours, checked : BOOLEAN]
NoLog == [state |-> "unused", start |-> 0, end |-> 0, duration |-> 0, checked |-> FALSE]

EntryRest == [pc |-> "idle", id |-> New, start |-> 0, end |-> 0]
TimeTypeOK ==
    /\ log \in [Logs -> LogType]
    /\ entry \in [Handlers -> [pc : {"idle", "start", "stop", "check", "write", "delete"},
                               id : Logs \cup {New}, start : Hours, end : Hours]]
    /\ crowded \in BOOLEAN

TimeInit == /\ log = [l \in Logs |-> NoLog]
            /\ entry = [p \in Handlers |-> EntryRest]
            /\ crowded = FALSE

EntryAt(p, pc) == entry[p].pc = pc
EntryBegins(p) == EntryAt(p, "idle") /\ Starts /\ UNCHANGED now
EntryEnds(p) == entry' = [entry EXCEPT ![p] = EntryRest]
EntryStep(p, pc, l, s, e) == entry' = [entry EXCEPT ![p] = [pc |-> pc, id |-> l, start |-> s, end |-> e]]

Kept == {l \in Logs : log[l].state = "kept"}
Unused == {l \in Logs : log[l].state = "unused"}
TimerRuns == \E l \in Kept : log[l].end = Running

-----------------------------------------------------------------------------
(* The timer *)

StartTimer(p) == /\ EntryBegins(p)
                 /\ ~TimerRuns
                 /\ EntryStep(p, "start", New, 0, 0)
                 /\ UNCHANGED <<log, crowded>>

\* The index refuses a second running timer.
StartWrite(p) ==
    /\ EntryAt(p, "start")
    /\ IF TimerRuns THEN UNCHANGED log ELSE \E l \in Unused :
         log' = [log EXCEPT ![l] = [state |-> "kept", start |-> now, end |-> Running, duration |-> 0,
                                    checked |-> FALSE]]
    /\ EntryEnds(p)
    /\ UNCHANGED <<crowded, now, served>>

\* The duration is taken from the start that was read.
StopTimer(p) == \E l \in Kept :
    /\ EntryBegins(p)
    /\ log[l].end = Running
    /\ EntryStep(p, "stop", l, log[l].start, now)
    /\ UNCHANGED <<log, crowded>>

\* Mutant: the two ends of the interval are swapped in the difference.
StopBackwards(p) ==
    LET e == entry[p] IN
    /\ EntryAt(p, "stop")
    /\ log' = IF e.id \notin Kept THEN log
              ELSE [log EXCEPT ![e.id].end = e.end, ![e.id].duration = e.start - e.end,
                               ![e.id].checked = FALSE]
    /\ EntryEnds(p)
    /\ UNCHANGED <<crowded, now, served>>

\* By id: the row may have been stopped and edited meanwhile, or be gone.
StopWrite(p) ==
    LET e == entry[p] IN
    /\ EntryAt(p, "stop")
    /\ log' = IF e.id \notin Kept THEN log
              ELSE [log EXCEPT ![e.id].end = e.end, ![e.id].duration = e.end - e.start,
                               ![e.id].checked = FALSE]
    /\ EntryEnds(p)
    /\ UNCHANGED <<crowded, now, served>>

-----------------------------------------------------------------------------
(* Logs entered and edited by hand *)

\* createManual, and update of a log that has ended.
EnterLog(p) == \E l \in {New} \cup {k \in Kept : log[k].end # Running}, s, e \in Entered :
    /\ EntryBegins(p)
    /\ s <= e
    /\ EntryStep(p, "check", l, s, e)
    /\ UNCHANGED <<log, crowded>>

\* Mutant: only a log that runs when the interval begins is found.
OverlapsAtStart(id, s, e) == \E o \in Kept \ {id} :
    log[o].start <= s /\ (log[o].end = Running \/ log[o].end > s)
Overlaps(id, s, e) == \E o \in Kept \ {id} :
    log[o].start < e /\ (log[o].end = Running \/ log[o].end > s)

CheckOverlap(p) ==
    LET e == entry[p] IN
    /\ EntryAt(p, "check")
    /\ IF Overlaps(e.id, e.start, e.end) THEN EntryEnds(p)
       ELSE EntryStep(p, "write", e.id, e.start, e.end)
    /\ crowded' = (crowded \/ \E q \in Handlers \ {p} : EntryAt(q, "write"))
    /\ UNCHANGED <<log, now, served>>

\* Mutant: an edit keeps the duration of the row.
WriteInterval(p) ==
    LET e == entry[p] IN
    /\ EntryAt(p, "write")
    /\ \E l \in IF e.id = New THEN Unused ELSE {e.id} :
         log' = IF e.id # New /\ e.id \notin Kept THEN log
                ELSE [log EXCEPT ![l] = [state |-> "kept", start |-> e.start, end |-> e.end, checked |-> TRUE,
                        duration |-> IF e.id = New THEN e.end - e.start ELSE @.duration]]
    /\ EntryEnds(p)
    /\ UNCHANGED <<crowded, now, served>>

\* By id; an update of a log that was removed meanwhile fails.
WriteLog(p) ==
    LET e == entry[p] IN
    /\ EntryAt(p, "write")
    /\ \E l \in IF e.id = New THEN Unused ELSE {e.id} :
         log' = IF e.id # New /\ e.id \notin Kept THEN log
                ELSE [log EXCEPT ![l] = [state |-> "kept", start |-> e.start, end |-> e.end,
                                         duration |-> e.end - e.start, checked |-> TRUE]]
    /\ EntryEnds(p)
    /\ UNCHANGED <<crowded, now, served>>

RemoveLog(p) == \E l \in Kept :
    /\ EntryBegins(p)
    /\ EntryStep(p, "delete", l, 0, 0)
    /\ UNCHANGED <<log, crowded>>

RemoveWrite(p) == /\ EntryAt(p, "delete")
                  /\ log' = [log EXCEPT ![entry[p].id].state = "deleted"]
                  /\ EntryEnds(p)
                  /\ UNCHANGED <<crowded, now, served>>

TimeTick == /\ now < LastHour
            /\ now' = now + 1
            /\ UNCHANGED <<timeVars, served>>

TimeNext == \/ TimeTick
            \/ \E p \in Handlers :
                 \/ StartTimer(p) \/ StartWrite(p) \/ StopTimer(p) \/ StopWrite(p)
                 \/ EnterLog(p) \/ CheckOverlap(p) \/ WriteLog(p) \/ RemoveLog(p) \/ RemoveWrite(p)

TimeSpec == HandlingInit /\ TimeInit /\ [][TimeNext]_<<timeVars, now, served>>

-----------------------------------------------------------------------------
(* Properties *)

\* The duration of a log that was entered or edited by hand is the length of its
\* interval.  (A stop that reads a timer, and writes after another stop and an
\* edit, leaves a duration counted from the start it read.)
CheckedDuration == \A l \in Kept : log[l].checked => log[l].duration = log[l].end - log[l].start

\* Intervals entered or edited by hand do not overlap each other, unless one
\* request once checked its interval while another had checked and not yet
\* written (time-logs.service.ts:61-69; the index does not cover intervals).
ManualLogsApart == ~crowded => \A a, b \in Kept :
    log[a].checked /\ log[b].checked /\ a # b => log[a].end <= log[b].start \/ log[b].end <= log[a].start

\* Both hold however stops, edits, manual entries and removals follow each other.
LogsAreSound == CheckedDuration /\ ManualLogsApart
=============================================================================
