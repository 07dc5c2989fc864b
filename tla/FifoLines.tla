----------------------------- MODULE FifoLines -----------------------------
(***************************************************************************)
(* What FIFO queues promise those who use them, without rows, leases,      *)
(* clocks or transactions: every message group of a queue is a line.       *)
(* Messages join a line at its end; only a first part of the line is       *)
(* handed out or moves on, to the end of a line of another queue; and a    *)
(* message may disappear (delete, expiry, purge) from anywhere without     *)
(* disturbing the others.                                                  *)
(***************************************************************************)
EXTENDS Naturals

CONSTANTS Queue, Group, Id

\* lines[q][g] is the line of group g in queue q: the message at each of its
\* places, with its id and how often it has been handed out since it was sent.
\* Places are positive numbers; nothing but their order means anything.
VARIABLE lines

New(id) == [id |-> id, received |-> 0]

IdsOf(line) == {line[p].id : p \in DOMAIN line}
Present == UNION {IdsOf(lines[q][g]) : q \in Queue, g \in Group}

\* No two messages in the lines have the same id.
Distinct ==
    \A q, r \in Queue : \A g, h \in Group :
        \A p \in DOMAIN lines[q][g], o \in DOMAIN lines[r][h] :
            lines[q][g][p].id = lines[r][h][o].id => q = r /\ g = h /\ p = o

\* What remains of one line, and of all, without the messages lost.
Kept(line, lost) == [p \in {o \in DOMAIN line : line[o].id \notin lost} |-> line[p]]
Remaining(lost) == [q \in Queue |-> [g \in Group |-> Kept(lines[q][g], lost)]]

\* A line up to a place and behind it; Ends has a place for every first part.
Ends(line) == {0} \cup DOMAIN line
First(line, end) == [p \in {o \in DOMAIN line : o <= end} |-> line[p]]
Rest(line, end) == [p \in {o \in DOMAIN line : o > end} |-> line[p]]

Counted(message) == [message EXCEPT !.received = @ + 1]
HandedOut(line, end) ==
    [p \in DOMAIN line |-> IF p <= end THEN Counted(line[p]) ELSE line[p]]

Add(line, place, message) ==
    [p \in DOMAIN line \cup {place} |-> IF p = place THEN message ELSE line[p]]

\* line has become longer: who moves finds a place behind it, in the same order.
Follow(longer, line, moving, place) ==
    /\ DOMAIN longer = DOMAIN line \cup {place[p] : p \in DOMAIN moving}
    /\ \A p \in DOMAIN line : longer[p] = line[p]
    /\ \A p \in DOMAIN moving, o \in DOMAIN line : o < place[p]
    /\ \A p, o \in DOMAIN moving : o < p => place[o] < place[p]

Moved(longer, line, moving) ==
    \E place \in [DOMAIN moving -> DOMAIN longer] :
        /\ Follow(longer, line, moving, place)
        /\ \A p \in DOMAIN moving : longer[place[p]] = moving[p]

Renewed(longer, line, moving) ==
    \E place \in [DOMAIN moving -> DOMAIN longer] :
        /\ Follow(longer, line, moving, place)
        /\ \A p \in DOMAIN moving :
            \E id \in Id \ Present : longer[place[p]] = New(id)
-----------------------------------------------------------------------------
Init == lines = [q \in Queue |-> [g \in Group |-> [p \in {} |-> New(p)]]]

Lose(left) == lines' = left

Send(left, q, g) ==
    \E id \in Id \ Present, place \in DOMAIN lines'[q][g] :
        /\ \A o \in DOMAIN left[q][g] : o < place
        /\ lines' = [left EXCEPT ![q][g] = Add(left[q][g], place, New(id))]

\* Of each group the first messages may leave for the dead-letter queue and the
\* ones behind them are handed out.
Receive(left, q, dlq) ==
    \A g \in Group :
        \E dead, given \in Ends(left[q][g]) :
            /\ dead # 0 => dlq # q
            /\ lines'[q][g] = HandedOut(Rest(left[q][g], dead), given)
            /\ dlq # q =>
                  Moved(lines'[dlq][g], left[dlq][g], First(left[q][g], dead))

\* The first messages of a line go back to the queue they came from, as new
\* messages in the same order.
Redrive(left, dlq, q) ==
    /\ dlq # q
    /\ \A g \in Group :
        \E back \in Ends(left[dlq][g]) :
            /\ lines'[dlq][g] = Rest(left[dlq][g], back)
            /\ Renewed(lines'[q][g], left[q][g], First(left[dlq][g], back))
    /\ Distinct'

\* Two lines of each group are concerned.
Between(left, q, other) ==
    /\ lines' = [r \in Queue |-> [g \in Group |-> lines'[r][g]]]
    /\ \A r \in Queue \ {q, other} : lines'[r] = left[r]
    /\ Receive(left, q, other) \/ Redrive(left, q, other)

Next ==
    \E lost \in SUBSET Present :
        LET left == Remaining(lost)
        IN  \/ Lose(left)
            \/ \E q \in Queue, g \in Group : Send(left, q, g)
            \/ \E q, other \in Queue : Between(left, q, other)

Spec == Init /\ [][Next]_lines
=============================================================================
