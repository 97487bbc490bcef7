----------------------------- MODULE TaskComments -----------------------------
(* The comments of one task and a browser that shows them.  A handler writes a *)
(* comment and then tells the task's room; the browser reads the list over      *)
(* HTTP, which replaces what it shows, and applies the events of the room.      *)
(* Lists and events travel on different connections.                             *)
EXTENDS Integers, Sequences, FiniteSets

CONSTANTS Writers,    \* request handlers
          Comments,   \* ids of rows
          Texts,      \* contents
          MaxWrites,  \* bound: requests that write
          MaxWire     \* bound: events between the server and the browser

ASSUME CommentAssumption == Comments # {} /\ MaxWrites \in Nat /\ MaxWire \in Nat /\ Texts \cap {"none", "deleted"} = {}

VARIABLES comment,  \* rows of "comments": a text, "deleted", or "none"
          writer,   \* what each handler is about to write or to tell
          writes,   \* requests begun
          open,     \* the panel is on the screen
          room,     \* where the browser's socket stands with the room of the task
          wire,     \* events sent to the socket, in order
          list,     \* the requests for the list in flight
          loaded,   \* some list was shown since the panel opened
          shown,    \* the comments on the screen
          missed    \* history: comments whose last event the screen never got, or lost again

dbVars == <<comment, writer, writes>>
screenVars == <<open, room, wire, list, loaded, shown, missed>>
commentVars == <<dbVars, screenVars>>

Rows == Texts \cup {"none", "deleted"}
\* overtaken (history): somebody else wrote the comment since.
WriterType == [pc : {"idle", "update", "remove", "tell"}, id : Comments, row : Rows, new : BOOLEAN, overtaken : BOOLEAN]
\* stale (history): a later change of the comment was told before it, or to nobody.
EventType == [id : Comments, row : Rows, new : BOOLEAN, stale : BOOLEAN]
\* The panel lets a reload begin while another is under way.  late (history):
\* comments the browser heard of, or failed to, since the server read the list.
Lists == {1, 2}
ListType == [state : {"free", "asked", "read"}, rows : [Comments -> Rows], late : SUBSET Comments]

Blank == [c \in Comments |-> "none"]
NoList == [state |-> "free", rows |-> Blank, late |-> {}]
Resting == CHOOSE w \in WriterType : w.pc = "idle" /\ w.row = "none" /\ ~w.new /\ ~w.overtaken

CommentTypeOK ==
    /\ comment \in [Comments -> Rows]
    /\ writer \in [Writers -> WriterType] /\ writes \in 0..MaxWrites
    /\ open \in BOOLEAN /\ room \in {"out", "asked", "in"}
    /\ wire \in Seq(EventType) /\ Len(wire) <= MaxWire
    /\ list \in [Lists -> ListType] /\ loaded \in BOOLEAN
    /\ shown \in [Comments -> Rows] /\ missed \subseteq Comments

CommentInit ==
    /\ comment \in [Comments -> {"none"} \cup Texts]
    /\ writer = [p \in Writers |-> Resting] /\ writes = 0
    /\ open = FALSE /\ room = "out" /\ wire = <<>>
    /\ list = [i \in Lists |-> NoList] /\ loaded = FALSE
    /\ shown = Blank /\ missed = {}

Writing(p, pc) == writer[p].pc = pc
Begins(p) == Writing(p, "idle") /\ writes < MaxWrites /\ writes' = writes + 1
Tellers(c) == {p \in Writers : Writing(p, "tell") /\ writer[p].id = c}

\* The handler has written c, and is to tell the row.
HasWritten(p, c, row, new) == writer' = [q \in Writers |->
    IF q = p THEN [pc |-> "tell", id |-> c, row |-> row, new |-> new, overtaken |-> FALSE]
    ELSE [writer[q] EXCEPT !.overtaken = @ \/ q \in Tellers(c)]]

-----------------------------------------------------------------------------
(* The handlers *)

CreateComment(p) == \E c \in Comments, text \in Texts :
    /\ Begins(p)
    /\ comment[c] = "none"
    /\ comment' = [comment EXCEPT ![c] = text]
    /\ HasWritten(p, c, text, TRUE)
    /\ UNCHANGED screenVars

\* update and remove require a comment that is not deleted when they read it,
\* and write by id.
UpdateComment(p) == \E c \in Comments, text \in Texts :
    /\ Begins(p)
    /\ comment[c] \in Texts
    /\ writer' = [writer EXCEPT ![p] = [Resting EXCEPT !.pc = "update", !.id = c, !.row = text]]
    /\ UNCHANGED <<comment, screenVars>>

\* Mutant: the handler tells the row it had read.
UpdateTellsOld(p) == LET c == writer[p].id IN
    /\ Writing(p, "update")
    /\ comment' = [comment EXCEPT ![c] = IF @ = "deleted" THEN @ ELSE writer[p].row]
    /\ HasWritten(p, c, comment[c], FALSE)
    /\ UNCHANGED <<writes, screenVars>>

\* A comment deleted meanwhile stays so: its new content is not handed out.
UpdateWrite(p) == LET c == writer[p].id IN
    /\ Writing(p, "update")
    /\ comment' = [comment EXCEPT ![c] = IF @ = "deleted" THEN @ ELSE writer[p].row]
    /\ HasWritten(p, c, comment'[c], FALSE)
    /\ UNCHANGED <<writes, screenVars>>

RemoveComment(p) == \E c \in Comments :
    /\ Begins(p)
    /\ comment[c] \in Texts
    /\ writer' = [writer EXCEPT ![p] = [Resting EXCEPT !.pc = "remove", !.id = c]]
    /\ UNCHANGED <<comment, screenVars>>

DeleteWrite(p) == LET c == writer[p].id IN
    /\ Writing(p, "remove")
    /\ comment' = [comment EXCEPT ![c] = "deleted"]
    /\ HasWritten(p, c, "deleted", FALSE)
    /\ UNCHANGED <<writes, screenVars>>

\* The browser is not going to hear of a change of the comments in cs.
Unheard(cs) ==
    /\ missed' = missed \cup cs
    /\ list' = [i \in Lists |-> IF list[i].state = "read" THEN [list[i] EXCEPT !.late = @ \cup cs] ELSE list[i]]

\* broadcastCommentEvent
Broadcast(p) == LET w == writer[p] IN
    /\ Writing(p, "tell")
    /\ writer' = [writer EXCEPT ![p] = Resting]
    /\ IF room = "in"
       THEN /\ Len(wire) < MaxWire
            /\ wire' = Append(wire, [id |-> w.id, row |-> w.row, new |-> w.new,
                                     stale |-> w.overtaken /\ Tellers(w.id) = {p}])
            /\ UNCHANGED <<list, missed>>
       ELSE /\ wire' = [n \in DOMAIN wire |-> [wire[n] EXCEPT !.stale = @ \/ wire[n].id = w.id]]
            /\ Unheard({w.id})
    /\ UNCHANGED <<comment, writes, open, room, loaded, shown>>

\* A statement between the write and the broadcast fails (create: notifications,
\* activity), or the process dies.
BroadcastLost(p) == LET c == writer[p].id IN
    /\ Writing(p, "tell")
    /\ writer' = [writer EXCEPT ![p] = Resting]
    /\ wire' = [n \in DOMAIN wire |-> [wire[n] EXCEPT !.stale = @ \/ wire[n].id = c]]
    /\ Unheard({c})
    /\ UNCHANGED <<comment, writes, open, room, loaded, shown>>

-----------------------------------------------------------------------------
(* The browser *)

\* The effects of the panel: join the room, ask for the list.
OpenPanel == /\ ~open
             /\ open' = TRUE
             /\ room' = "asked"
             /\ list' = [list EXCEPT ![1] = [NoList EXCEPT !.state = "asked"]]
             /\ UNCHANGED <<dbVars, wire, loaded, shown, missed>>

\* The room is left; what is on the wire still arrives.
ClosePanel == /\ open
              /\ open' = FALSE
              /\ room' = "out"
              /\ list' = [i \in Lists |-> NoList]
              /\ loaded' = FALSE /\ shown' = Blank /\ missed' = {}
              /\ UNCHANGED <<dbVars, wire>>

\* task:join is authorised asynchronously, and nobody looks at a refusal.
JoinRoom == /\ room = "asked"
            /\ room' \in {"in", "out"}
            /\ UNCHANGED <<dbVars, open, wire, list, loaded, shown, missed>>

\* The connection breaks.  It is made again without the room.
Disconnect == /\ room # "out"
              /\ room' = "out"
              /\ wire' = <<>>
              /\ Unheard({wire[n].id : n \in DOMAIN wire})
              /\ UNCHANGED <<dbVars, open, loaded, shown>>

\* reload, after a mutation of one's own or another tag query.
AskList == \E i \in Lists :
    /\ open
    /\ list[i].state = "free"
    /\ list' = [list EXCEPT ![i] = [NoList EXCEPT !.state = "asked"]]
    /\ UNCHANGED <<dbVars, open, room, wire, loaded, shown, missed>>

ReadList == \E i \in Lists :
    /\ list[i].state = "asked"
    /\ list' = [list EXCEPT ![i] = [state |-> "read", late |-> {},
                 rows |-> [c \in Comments |-> IF comment[c] = "deleted" THEN "none" ELSE comment[c]]]]
    /\ UNCHANGED <<dbVars, open, room, wire, loaded, shown, missed>>

\* setComments replaces the list, by the older of two as well.
ShowList == \E i \in Lists :
    /\ list[i].state = "read"
    /\ list' = [list EXCEPT ![i] = NoList]
    /\ shown' = list[i].rows
    /\ missed' = list[i].late
    /\ loaded' = TRUE
    /\ UNCHANGED <<dbVars, open, room, wire>>

ListFails == \E i \in Lists :
    /\ list[i].state # "free"
    /\ list' = [list EXCEPT ![i] = NoList]
    /\ UNCHANGED <<dbVars, open, room, wire, loaded, shown, missed>>

\* onCreated adds a comment that is not shown; onUpdated and onDeleted replace
\* one that is.  Without the panel nobody listens.
Deliver == LET e == Head(wire) IN
    /\ wire # <<>>
    /\ wire' = Tail(wire)
    /\ IF open
       THEN /\ shown' = IF e.new = (shown[e.id] = "none") THEN [shown EXCEPT ![e.id] = e.row] ELSE shown
            /\ missed' = IF e.stale THEN missed \cup {e.id} ELSE missed
            /\ list' = [i \in Lists |-> IF list[i].state = "read" THEN [list[i] EXCEPT !.late = @ \cup {e.id}] ELSE list[i]]
       ELSE UNCHANGED <<shown, missed, list>>
    /\ UNCHANGED <<dbVars, open, room, loaded>>

CommentNext ==
    \/ \E p \in Writers : \/ CreateComment(p) \/ UpdateComment(p) \/ UpdateWrite(p) \/ RemoveComment(p) \/ DeleteWrite(p)
                          \/ Broadcast(p) \/ BroadcastLost(p)
    \/ OpenPanel \/ ClosePanel \/ JoinRoom \/ Disconnect
    \/ AskList \/ ReadList \/ ShowList \/ ListFails \/ Deliver

CommentSpec == CommentInit /\ [][CommentNext]_commentVars

-----------------------------------------------------------------------------

\* What the reader sees of a row.
Visible(row) == IF row = "deleted" THEN "none" ELSE row
Settled == open /\ loaded /\ room = "in" /\ wire = <<>> /\ \A i \in Lists : list[i].state = "free"

\* A panel that has joined the room, has nothing under way and of which no
\* handler is about to tell shows what the rows hold.  Excepted are the comments
\* of which it missed something it has not read a list since: a change told
\* before it had joined or never told, one told in another order than written,
\* one that arrived while a list read before it was under way.
ScreenAgrees == Settled => \A c \in Comments \ missed :
    Tellers(c) = {} => Visible(shown[c]) = Visible(comment[c])
=============================================================================
