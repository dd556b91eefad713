--------------------------- MODULE DbConnections ---------------------------
(***************************************************************************)
(* The SQLite connections of a process: each thread keeps its own, with    *)
(* the generation it belongs to, and ensure_system_db_ready, which every   *)
(* analysis and two routes call, closes those of all threads and begins a  *)
(* new generation.  Only the list of connections is under a lock.  The     *)
(* path is the same at every call.                                         *)
(***************************************************************************)
EXTENDS Naturals, FiniteSets

CONSTANTS
    Threads,         \* request handlers and pool threads
    None,            \* no connection, no generation
    MaxCalls,        \* bound: calls of ensure_system_db_ready
    MaxConnections   \* bound: connections made

(* What the theorems assume of the constants.                              *)
ConnectionConstants ==
    None \notin Nat /\ MaxCalls \in Nat /\ MaxConnections \in Nat

VARIABLES
    made,        \* connections made so far: 1 .. made
    open,        \* those that are open
    listed,      \* _connections
    generation,  \* _DB_GENERATION
    own,         \* _tlocal: thread -> [conn, generation]
    pc,
    new,         \* a connection the thread has made and not stored yet
    closing,     \* connections the thread has still to close
    calls        \* bound: calls of ensure_system_db_ready so far

vars == <<made, open, listed, generation, own, pc, new, closing, calls>>

Nothing == [conn |-> None, generation |-> None]

TypeOK ==
    /\ made \in 0 .. MaxConnections /\ open \subseteq 1 .. made /\ listed \subseteq 1 .. made
    /\ generation \in Nat /\ calls \in 0 .. MaxCalls
    /\ own \in [Threads -> [conn : 1 .. made \cup {None},
                            generation : Nat \cup {None}]]
    /\ pc \in [Threads -> {"idle", "make", "list", "record", "use", "close", "reset"}]
    /\ new \in [Threads -> 1 .. made \cup {None}]
    /\ closing \in [Threads -> SUBSET (1 .. made)]

Init ==
    /\ made = 0 /\ open = {} /\ listed = {} /\ generation = 0
    /\ own = [t \in Threads |-> Nothing]
    /\ pc = [t \in Threads |-> "idle"]
    /\ new = [t \in Threads |-> None]
    /\ closing = [t \in Threads |-> {}]
    /\ calls = 0

At(t, p)   == pc[t] = p
Goto(t, p) == pc' = [pc EXCEPT ![t] = p]

-----------------------------------------------------------------------------
(* get_db: what the thread has is of an older generation and is dropped,   *)
(* or is used again.                                                       *)
Get(t) ==
    /\ At(t, "idle")
    /\ IF own[t].generation # generation
       THEN /\ open' = open \ {own[t].conn}
            /\ own' = [own EXCEPT ![t] = Nothing]
            /\ Goto(t, "make")
       ELSE Goto(t, "use") /\ UNCHANGED <<open, own>>
    /\ UNCHANGED <<made, listed, generation, new, closing, calls>>

(* _make_connection connects ...                                           *)
Connect(t) ==
    /\ At(t, "make") /\ made < MaxConnections
    /\ made' = made + 1 /\ open' = open \cup {made + 1}
    /\ new' = [new EXCEPT ![t] = made + 1]
    /\ Goto(t, "list")
    /\ UNCHANGED <<listed, generation, own, closing, calls>>

(* ... and enters the connection in the list ...                           *)
Enlist(t) ==
    /\ At(t, "list")
    /\ listed' = listed \cup {new[t]}
    /\ Goto(t, "record")
    /\ UNCHANGED <<made, open, generation, own, new, closing, calls>>

(* ... then get_db notes the generation there is by now.                   *)
Record(t) ==
    /\ At(t, "record")
    /\ own' = [own EXCEPT ![t] = [conn |-> new[t], generation |-> generation]]
    /\ new' = [new EXCEPT ![t] = None]
    /\ Goto(t, "use")
    /\ UNCHANGED <<made, open, listed, generation, closing, calls>>

(* The transaction ends; it raises when the connection is closed.          *)
Leave(t) ==
    /\ At(t, "use")
    /\ Goto(t, "idle")
    /\ UNCHANGED <<made, open, listed, generation, own, new, closing, calls>>

-----------------------------------------------------------------------------
(* close_db_connections takes the list under the lock ...                  *)
Take(t) ==
    /\ At(t, "idle") /\ calls < MaxCalls
    /\ calls' = calls + 1
    /\ closing' = [closing EXCEPT ![t] = listed]
    /\ listed' = {}
    /\ Goto(t, "close")
    /\ UNCHANGED <<made, open, generation, own, new>>

(* ... closes what it took one by one, whoever uses it ...                 *)
Close(t) ==
    /\ At(t, "close")
    /\ \E c \in closing[t] :
         /\ open' = open \ {c}
         /\ closing' = [closing EXCEPT ![t] = @ \ {c}]
    /\ UNCHANGED <<made, listed, generation, own, pc, new, calls>>

(* ... begins the next generation ...                                      *)
Advance(t) ==
    /\ At(t, "close") /\ closing[t] = {}
    /\ generation' = generation + 1
    /\ Goto(t, "reset")
    /\ UNCHANGED <<made, open, listed, own, new, closing, calls>>

(* ... and forgets what its own thread had.                                *)
Reset(t) ==
    /\ At(t, "reset")
    /\ own' = [own EXCEPT ![t] = Nothing]
    /\ Goto(t, "idle")
    /\ UNCHANGED <<made, open, listed, generation, new, closing, calls>>

Next == \E t \in Threads :
    \/ Get(t) \/ Connect(t) \/ Enlist(t) \/ Record(t) \/ Leave(t)
    \/ Take(t) \/ Close(t) \/ Advance(t) \/ Reset(t)

Spec == Init /\ [][Next]_vars

-----------------------------------------------------------------------------
(* "Each thread gets its own connection, created on first use and reused   *)
(* for subsequent calls within the same thread": when nobody is closing    *)
(* connections, one that get_db will hand out again is open.               *)
ReusedIsOpen ==
    (\A t \in Threads : pc[t] \notin {"close", "reset"}) =>
        \A t \in Threads : pc[t] = "idle" /\ own[t].generation = generation =>
            own[t].conn \in open

(* No connection is lost: one that is open is in the list, in the hands of *)
(* the thread that has just made it, or about to be closed, so the next    *)
(* close_db_connections closes it.                                         *)
NoneIsLost ==
    \A c \in open :
        \/ c \in listed
        \/ \E t \in Threads : c \in closing[t] \/ (pc[t] = "list" /\ new[t] = c)

(* check_same_thread is off: nothing but get_db keeps threads from using   *)
(* the same connection.                                                    *)
NoneIsShared ==
    \A t, u \in Threads : t # u /\ own[t].conn # None => own[t].conn # own[u].conn
=============================================================================
