---------------------------- MODULE ColumnRanks ----------------------------
(* The order of the tasks in one column of a project board: ranks with gaps, a  *)
(* move that takes a rank between two neighbours or, when there is none left,   *)
(* renumbers the column, and tasks that are created in the column or leave it.  *)
(* A move reads its neighbours before its transaction.                          *)
EXTENDS Handling

CONSTANTS Cards,    \* task numbers of the tasks that may be in the column
          RankGap,  \* RANK_GAP
          NoCard,   \* no neighbour
          MaxMoves  \* requests about the column (bound)

ASSUME CardAssumption == Cards \subseteq Nat /\ RankGap \in Nat /\ RankGap >= 2 /\ NoCard \notin Cards /\ MaxMoves \in Nat

VARIABLES card,   \* rank and version of each task, and whether it is in the column
          move    \* where each move stands and what it has read

rankVars == <<card, move>>

Ranks == 1..(MaxServed + Cardinality(Cards) + 1) * RankGap
CardType == [state : {"unborn", "here", "away"}, rank : Ranks \cup {0}, version : 0..MaxServed + 1]
MoveRest == [pc |-> "idle", card |-> NoCard, version |-> 0, before |-> NoCard, after |-> NoCard,
             beforeRank |-> 0, afterRank |-> 0, order |-> [c \in {} |-> 0]]

RankTypeOK ==
    /\ card \in [Cards -> CardType]
    /\ \A p \in Handlers :
         /\ move[p].pc \in {"idle", "create", "place", "renumber"}
         /\ {move[p].card, move[p].before, move[p].after} \subseteq Cards \cup {NoCard}
         /\ {move[p].beforeRank, move[p].afterRank} \subseteq Ranks \cup {0}
         /\ DOMAIN move[p].order \subseteq Cards

\* A column with two tasks, the others outside of it.
RankInit ==
    /\ \E here \in SUBSET Cards : card =
         [c \in Cards |-> IF c \in here
            THEN [state |-> "here", rank |-> Cardinality({d \in here : d <= c}) * RankGap, version |-> 1]
            ELSE [state |-> "unborn", rank |-> 0, version |-> 0]]
    /\ move = [p \in Handlers |-> MoveRest]

MoveAt(p, pc) == move[p].pc = pc
MoveBegins(p) == MoveAt(p, "idle") /\ served < MaxMoves /\ Starts /\ UNCHANGED now
MoveEnds(p) == move' = [move EXCEPT ![p] = MoveRest]

Here == {c \in Cards : card[c].state = "here"}

-----------------------------------------------------------------------------
(* lib/rank.ts; 0 stands for no rank *)

NextRankAfter(r) == r + RankGap

\* Mutant: a gap of one is taken for room.
RankBetweenTight(b, a) == IF b = 0 /\ a = 0 THEN RankGap
                          ELSE IF a = 0 THEN b + RankGap
                          ELSE IF a - b < 1 THEN 0 ELSE (b + a) \div 2

\* 0 when the gap is exhausted.
RankBetween(b, a) == IF b = 0 /\ a = 0 THEN RankGap
                     ELSE IF a = 0 THEN b + RankGap
                     ELSE IF a - b <= 1 THEN 0 ELSE (b + a) \div 2

\* The rank of each task when the column is numbered afresh, in its order.
Precedes(c, d) == card[c].rank < card[d].rank \/ (card[c].rank = card[d].rank /\ c <= d)
Renumbered == [c \in Here |-> Cardinality({d \in Here : Precedes(d, c)}) * RankGap]

-----------------------------------------------------------------------------

\* createTask reads the last rank of the column and then inserts.
CreateRead(p) == \E c \in Cards :
    /\ MoveBegins(p)
    /\ card[c].state = "unborn" /\ \A q \in Handlers : move[q].card # c
    /\ move' = [move EXCEPT ![p] = [MoveRest EXCEPT !.pc = "create", !.card = c,
                  !.beforeRank = IF Here = {} THEN 0
                                 ELSE CHOOSE r \in {card[d].rank : d \in Here} : \A d \in Here : card[d].rank <= r]]
    /\ UNCHANGED card

CreateWrite(p) ==
    /\ MoveAt(p, "create")
    /\ card' = [card EXCEPT ![move[p].card] =
                  [state |-> "here", rank |-> NextRankAfter(move[p].beforeRank), version |-> 1]]
    /\ MoveEnds(p)
    /\ UNCHANGED <<now, served>>

\* A task that is moved to another column, or deleted.
Leave(p) == \E c \in Here :
    /\ MoveBegins(p) /\ UNCHANGED move
    /\ card' = [card EXCEPT ![c].state = "away", ![c].version = @ + 1]

\* moveTask: the task may come from another column; its neighbours are in this one.
Neighbour(n) == IF n = NoCard THEN 0 ELSE card[n].rank
MoveRead(p) == \E c \in Cards, b, a \in Here \cup {NoCard} :
    /\ MoveBegins(p)
    /\ card[c].state # "unborn"
    /\ b # c /\ a # c /\ (b = a => b = NoCard)
    /\ move' = [move EXCEPT ![p] = [MoveRest EXCEPT !.pc = "place", !.card = c, !.version = card[c].version,
                  !.before = b, !.after = a, !.beforeRank = Neighbour(b), !.afterRank = Neighbour(a)]]
    /\ UNCHANGED card

\* The version decides at the end of the transaction; without a rank between the
\* neighbours the transaction first reads the order of the column.
Place(p, rank) == IF card[move[p].card].version = move[p].version
                  THEN [card EXCEPT ![move[p].card] = [state |-> "here", rank |-> rank, version |-> @.version + 1]]
                  ELSE card

MoveWrite(p) ==
    LET rank == RankBetween(move[p].beforeRank, move[p].afterRank) IN
    /\ MoveAt(p, "place")
    /\ IF rank # 0 THEN card' = Place(p, rank) /\ MoveEnds(p)
       ELSE move' = [move EXCEPT ![p].pc = "renumber", ![p].order = Renumbered] /\ UNCHANGED card
    /\ UNCHANGED <<now, served>>

\* rebalanceColumn writes the rows it read, one by one and whatever became of
\* them, and no version; the neighbours are then read again.
RenumberWrite(p) ==
    LET m == move[p]
        rank(c) == IF c \in DOMAIN m.order THEN m.order[c] ELSE card[c].rank
        b == IF m.before = NoCard THEN 0 ELSE rank(m.before)
        a == IF m.after = NoCard THEN 0 ELSE rank(m.after)
        between == IF RankBetween(b, a) = 0 THEN NextRankAfter(b) ELSE RankBetween(b, a)
    IN /\ MoveAt(p, "renumber")
       /\ card' = IF card[m.card].version # m.version THEN card
                  ELSE [c \in Cards |->
                         IF c = m.card THEN [state |-> "here", rank |-> between, version |-> m.version + 1]
                         ELSE [card[c] EXCEPT !.rank = rank(c)]]
       /\ MoveEnds(p)
       /\ UNCHANGED <<now, served>>

RankNext == \E p \in Handlers :
    CreateRead(p) \/ CreateWrite(p) \/ Leave(p) \/ MoveRead(p) \/ MoveWrite(p) \/ RenumberWrite(p)

RankSpec == HandlingInit /\ RankInit /\ [][RankNext]_<<rankVars, now, served>>

-----------------------------------------------------------------------------

\* Neither neighbour was ranked anew or had left when the transaction read the
\* column and when it ends, and the client saw them in this order.
Undisturbed(p) == LET m == move[p] IN
    /\ m.before # NoCard => card[m.before].state = "here" /\ card[m.before].rank = m.beforeRank
    /\ m.after # NoCard => card[m.after].state = "here" /\ card[m.after].rank = m.afterRank
    /\ m.before # NoCard /\ m.after # NoCard => m.beforeRank < m.afterRank
    /\ m.pc = "renumber" => /\ {m.before, m.after} \ {NoCard} \subseteq DOMAIN m.order
                            /\ m.before # NoCard /\ m.after # NoCard => m.order[m.before] < m.order[m.after]

\* A move puts its task strictly between its neighbours, also when their gap is
\* exhausted and the column is renumbered under them, and keeps their order;
\* unless another request moved a neighbour between the read and the write.
LandsBetween == [][\A p \in Handlers : LET m == move[p] IN
    m.pc \in {"place", "renumber"} /\ Undisturbed(p)
    /\ move'[p].pc = "idle" /\ card'[m.card] # card[m.card]
        => /\ m.before # NoCard => card'[m.before].rank < card'[m.card].rank
           /\ m.after # NoCard => card'[m.card].rank < card'[m.after].rank]_rankVars

=============================================================================
