------------------------------- MODULE RpcLine -------------------------------
(***************************************************************************)
(* What the RPC layer promises the clients of a connection, without its    *)
(* Maps, ids, counters and callbacks (docs/tasks.md, "Queue model"): each  *)
(* connection is one bounded line.  The head of a line is being served,    *)
(* everybody else waits; a request joins at the end, once; it leaves by    *)
(* being served to the end, by withdrawing while it waits, or with the     *)
(* whole line when the connection ends.  ServerRpc implements this.        *)
(***************************************************************************)
EXTENDS Naturals, Sequences, SequencesExt

CONSTANTS
    Conn,       \* the connections
    Task,       \* the requests
    Capacity    \* the longest line: the request served and those waiting

VARIABLES
    line,       \* connection -> the requests in line, the head first
    seen        \* the requests that have joined a line

vars == <<line, seen>>

Init ==
    /\ line = [c \in Conn |-> <<>>]
    /\ seen = {}

Join(c, t) ==
    /\ t \notin seen
    /\ Len(line[c]) < Capacity
    /\ line' = [line EXCEPT ![c] = Append(@, t)]
    /\ seen' = seen \cup {t}

\* The head has been served; the one behind it, if any, is served from now on.
ServeNext(c) ==
    /\ line[c] # <<>>
    /\ line' = [line EXCEPT ![c] = Tail(@)]
    /\ UNCHANGED seen

Withdraw(c, i) ==
    /\ i \in 2..Len(line[c])
    /\ line' = [line EXCEPT ![c] = RemoveAt(@, i)]
    /\ UNCHANGED seen

Disconnect(S) ==
    /\ line' = [c \in Conn |-> IF c \in S THEN <<>> ELSE line[c]]
    /\ UNCHANGED seen

Next ==
    \/ \E c \in Conn, t \in Task : Join(c, t)
    \/ \E c \in Conn : ServeNext(c)
    \/ \E c \in Conn : \E i \in 2..Len(line[c]) : Withdraw(c, i)
    \/ \E S \in SUBSET Conn : Disconnect(S)

\* A line that is not empty moves.
Spec == Init /\ [][Next]_vars /\ \A c \in Conn : WF_vars(ServeNext(c))

=============================================================================
