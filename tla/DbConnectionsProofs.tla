------------------------ MODULE DbConnectionsProofs ------------------------
(* What holds of the connections in spite of the missing lock, for any     *)
(* threads and any number of calls.                                        *)
EXTENDS DbConnections, TLAPS

(* A thread has a connection in hand while it makes one and only then, and *)
(* what it has in hand is nobody else's yet.                               *)
InHand ==
    \A t \in Threads :
        /\ pc[t] \in {"list", "record"} => new[t] # None
        /\ new[t] # None => pc[t] \in {"list", "record"}
        /\ \A u \in Threads :
             /\ new[t] # None => new[t] # own[u].conn
             /\ t # u /\ new[t] # None => new[t] # new[u]
        /\ closing[t] # {} => pc[t] = "close"

ConnInv == TypeOK /\ InHand /\ NoneIsShared /\ NoneIsLost

-----------------------------------------------------------------------------
LEMMA InitConn == ASSUME ConnectionConstants, Init PROVE ConnInv
  BY DEF ConnectionConstants, Init, ConnInv, TypeOK, InHand, NoneIsShared, NoneIsLost, Nothing

(* A connection that get_db drops was closed first.                        *)
LEMMA GetConn == ASSUME ConnectionConstants, ConnInv, NEW t \in Threads, Get(t) PROVE ConnInv'
<1> DEFINE keeps == own[t].generation = generation
<1>0. /\ \A u \in Threads : pc'[u] = IF u = t THEN (IF keeps THEN "use" ELSE "make") ELSE pc[u]
      /\ \A u \in Threads : own'[u] = IF u = t /\ ~keeps THEN Nothing ELSE own[u]
  BY DEF Get, Goto, ConnInv, TypeOK
<1>1. TypeOK'
  <2>1. Nothing \in [conn : 1 .. made \cup {None}, generation : Nat \cup {None}]
    BY DEF Nothing
  <2>2. own' \in [Threads -> [conn : 1 .. made \cup {None}, generation : Nat \cup {None}]]
    BY <2>1 DEF Get, ConnInv, TypeOK
  <2>3. pc' \in [Threads -> {"idle", "make", "list", "record", "use", "close", "reset"}]
    BY DEF Get, Goto, ConnInv, TypeOK
  <2>4. open' \subseteq 1 .. made
    BY DEF Get, ConnInv, TypeOK
  <2> QED
    BY <2>2, <2>3, <2>4 DEF Get, ConnInv, TypeOK
<1>2. InHand'
  BY <1>0 DEF Get, ConnInv, InHand, At, Nothing
<1>3. NoneIsShared'
  BY DEF ConnectionConstants, Get, ConnInv, TypeOK, NoneIsShared, At, Goto, Nothing
<1>4. NoneIsLost'
  <2> SUFFICES ASSUME NEW c \in open
               PROVE  \/ c \in listed
                      \/ \E u \in Threads : c \in closing[u] \/ (pc'[u] = "list" /\ new[u] = c)
    BY DEF Get, NoneIsLost
  <2>1. CASE c \in listed
    BY <2>1
  <2>2. CASE \E u \in Threads : c \in closing[u] \/ (pc[u] = "list" /\ new[u] = c)
    BY <2>2 DEF Get, ConnInv, TypeOK, At, Goto
  <2> QED
    BY <2>1, <2>2 DEF ConnInv, NoneIsLost
<1> QED
  BY <1>1, <1>2, <1>3, <1>4 DEF ConnInv

LEMMA ConnectConn == ASSUME ConnectionConstants, ConnInv, NEW t \in Threads, Connect(t) PROVE ConnInv'
<1>1. TypeOK'
  <2>1. 1 .. made \subseteq 1 .. made' /\ made + 1 \in 1 .. made' /\ made' \in 0 .. MaxConnections
    BY DEF ConnectionConstants, Connect, ConnInv, TypeOK
  <2>2. \A u \in Threads : own[u] \in [conn : 1 .. made' \cup {None}, generation : Nat \cup {None}]
    BY <2>1 DEF ConnInv, TypeOK
  <2> QED
    BY <2>1, <2>2 DEF Connect, ConnInv, TypeOK, Goto
<1>2. /\ made + 1 \notin 1 .. made /\ made + 1 # None
      /\ \A u \in Threads : own[u].conn # made + 1 /\ new[u] # made + 1
      /\ new[t] = None
  BY DEF ConnectionConstants, Connect, ConnInv, TypeOK, InHand, At
<1>3. InHand'
  BY <1>2 DEF Connect, ConnInv, TypeOK, InHand, At, Goto
<1>4. NoneIsShared'
  BY DEF Connect, ConnInv, NoneIsShared
<1>5. NoneIsLost'
  <2> SUFFICES ASSUME NEW c \in open \cup {made + 1}
               PROVE  \/ c \in listed
                      \/ \E u \in Threads : c \in closing[u] \/ (pc'[u] = "list" /\ new'[u] = c)
    BY DEF Connect, NoneIsLost
  <2>1. pc'[t] = "list" /\ new'[t] = made + 1
    BY DEF Connect, Goto, ConnInv, TypeOK
  <2>2. \A u \in Threads : pc[u] = "list" => pc'[u] = "list" /\ new'[u] = new[u]
    BY DEF Connect, At, Goto, ConnInv, TypeOK
  <2>3. CASE c \in open
    BY <2>2, <2>3 DEF ConnInv, NoneIsLost
  <2>4. CASE c = made + 1
    BY <2>1, <2>4
  <2> QED
    BY <2>3, <2>4
<1> QED
  BY <1>1, <1>3, <1>4, <1>5 DEF ConnInv

LEMMA EnlistConn == ASSUME ConnectionConstants, ConnInv, NEW t \in Threads, Enlist(t) PROVE ConnInv'
<1>1. new[t] # None
  BY DEF Enlist, ConnInv, InHand, At
<1>2. TypeOK'
  BY <1>1 DEF Enlist, ConnInv, TypeOK, At, Goto
<1>3. InHand'
  BY DEF Enlist, ConnInv, TypeOK, InHand, At, Goto
<1>4. NoneIsShared'
  BY DEF Enlist, ConnInv, NoneIsShared
<1>5. NoneIsLost'
  <2>1. \A u \in Threads : u # t => pc'[u] = pc[u]
    BY DEF Enlist, Goto, ConnInv, TypeOK
  <2> QED
    BY <2>1 DEF Enlist, ConnInv, NoneIsLost
<1> QED
  BY <1>2, <1>3, <1>4, <1>5 DEF ConnInv

LEMMA RecordConn == ASSUME ConnectionConstants, ConnInv, NEW t \in Threads, Record(t) PROVE ConnInv'
<1>1. new[t] # None
  BY DEF Record, ConnInv, InHand, At
<1>2. TypeOK'
  BY <1>1 DEF Record, ConnInv, TypeOK, At, Goto
<1>3. InHand'
  BY <1>1 DEF Record, ConnInv, TypeOK, InHand, At, Goto
<1>4. NoneIsShared'
  BY <1>1 DEF Record, ConnInv, TypeOK, InHand, NoneIsShared, At, Goto
<1>5. NoneIsLost'
  <2>1. \A u \in Threads : pc[u] = "list" => pc'[u] = "list" /\ new'[u] = new[u]
    BY DEF Record, At, Goto, ConnInv, TypeOK
  <2> QED
    BY <2>1 DEF Record, ConnInv, NoneIsLost
<1> QED
  BY <1>2, <1>3, <1>4, <1>5 DEF ConnInv

LEMMA LeaveConn == ASSUME ConnectionConstants, ConnInv, NEW t \in Threads, Leave(t) PROVE ConnInv'
<1>1. \A u \in Threads : pc'[u] = IF u = t THEN "idle" ELSE pc[u]
  BY DEF Leave, Goto, ConnInv, TypeOK
<1>2. TypeOK'
  BY <1>1 DEF Leave, ConnInv, TypeOK, At, Goto
<1>3. InHand'
  BY <1>1 DEF Leave, ConnInv, InHand, At
<1>4. NoneIsShared'
  BY DEF Leave, ConnInv, NoneIsShared
<1>5. NoneIsLost'
  BY <1>1 DEF Leave, ConnInv, NoneIsLost, At
<1> QED
  BY <1>2, <1>3, <1>4, <1>5 DEF ConnInv

(* What is taken out of the list is in the closer's hands ...              *)
LEMMA TakeConn == ASSUME ConnectionConstants, ConnInv, NEW t \in Threads, Take(t) PROVE ConnInv'
<1>1. \A u \in Threads : pc'[u] = IF u = t THEN "close" ELSE pc[u]
  BY DEF Take, Goto, ConnInv, TypeOK
<1>2. TypeOK'
  <2>1. calls' \in 0 .. MaxCalls
    BY DEF ConnectionConstants, Take, ConnInv, TypeOK
  <2>2. closing' \in [Threads -> SUBSET (1 .. made)]
    BY DEF Take, ConnInv, TypeOK
  <2>3. pc' \in [Threads -> {"idle", "make", "list", "record", "use", "close", "reset"}]
    BY DEF Take, Goto, ConnInv, TypeOK
  <2> QED
    BY <2>1, <2>2, <2>3 DEF Take, ConnInv, TypeOK
<1>3. InHand'
  BY <1>1 DEF Take, ConnInv, InHand, At
<1>4. NoneIsShared'
  BY DEF Take, ConnInv, NoneIsShared
<1>5. CASE closing[t] = {}
  <2>1. \A u \in Threads : closing'[u] = IF u = t THEN listed ELSE closing[u]
    BY DEF Take, ConnInv, TypeOK
  <2>2. NoneIsLost'
    BY <1>1, <1>5, <2>1 DEF Take, ConnInv, NoneIsLost, At
  <2> QED
    BY <1>2, <1>3, <1>4, <2>2 DEF ConnInv
<1> QED
  BY <1>5 DEF Take, ConnInv, InHand, At

(* ... until it is closed.                                                 *)
LEMMA CloseConn == ASSUME ConnectionConstants, ConnInv, NEW t \in Threads, Close(t) PROVE ConnInv'
<1>1. PICK c \in closing[t] :
        open' = open \ {c} /\ closing' = [closing EXCEPT ![t] = @ \ {c}]
  BY DEF Close
<1>2. UNCHANGED <<made, listed, generation, own, pc, new, calls>>
  BY DEF Close
<1>3. TypeOK'
  BY <1>1, <1>2 DEF ConnInv, TypeOK
<1>4. InHand'
  <2>1. \A u \in Threads : pc[u] # "close" => closing'[u] = closing[u]
    BY <1>1 DEF Close, At, ConnInv, TypeOK
  <2> QED
    BY <1>2, <2>1 DEF ConnInv, InHand
<1>5. NoneIsShared'
  BY <1>2 DEF ConnInv, NoneIsShared
<1>6. NoneIsLost'
  <2>1. \A u \in Threads : closing[u] \ {c} \subseteq closing'[u]
    BY <1>1 DEF ConnInv, TypeOK
  <2> QED
    BY <1>1, <1>2, <2>1 DEF ConnInv, NoneIsLost
<1> QED
  BY <1>3, <1>4, <1>5, <1>6 DEF ConnInv

LEMMA AdvanceConn == ASSUME ConnectionConstants, ConnInv, NEW t \in Threads, Advance(t) PROVE ConnInv'
<1>1. \A u \in Threads : pc'[u] = IF u = t THEN "reset" ELSE pc[u]
  BY DEF Advance, Goto, ConnInv, TypeOK
<1>2. TypeOK'
  BY <1>1 DEF Advance, ConnInv, TypeOK, At, Goto
<1>3. InHand'
  BY <1>1 DEF Advance, ConnInv, InHand, At
<1>4. NoneIsShared'
  BY DEF Advance, ConnInv, NoneIsShared
<1>5. NoneIsLost'
  BY <1>1 DEF Advance, ConnInv, NoneIsLost, At
<1> QED
  BY <1>2, <1>3, <1>4, <1>5 DEF ConnInv

LEMMA ResetConn == ASSUME ConnectionConstants, ConnInv, NEW t \in Threads, Reset(t) PROVE ConnInv'
<1>1. /\ \A u \in Threads : pc'[u] = IF u = t THEN "idle" ELSE pc[u]
      /\ \A u \in Threads : own'[u] = IF u = t THEN Nothing ELSE own[u]
  BY DEF Reset, Goto, ConnInv, TypeOK
<1>2. TypeOK'
  BY <1>1 DEF Reset, ConnInv, TypeOK, At, Goto, Nothing
<1>3. InHand'
  BY <1>1 DEF Reset, ConnInv, InHand, At, Nothing
<1>4. NoneIsShared'
  BY <1>1 DEF Reset, ConnInv, NoneIsShared, Nothing
<1>5. NoneIsLost'
  BY <1>1 DEF Reset, ConnInv, NoneIsLost, At
<1> QED
  BY <1>2, <1>3, <1>4, <1>5 DEF ConnInv

LEMMA NextConn == ASSUME ConnectionConstants, ConnInv, [Next]_vars PROVE ConnInv'
<1>1. CASE UNCHANGED vars
  BY <1>1 DEF vars, ConnInv, TypeOK, InHand, NoneIsShared, NoneIsLost
<1>2. CASE Next
  BY <1>2, GetConn, ConnectConn, EnlistConn, RecordConn, LeaveConn, TakeConn, CloseConn,
     AdvanceConn, ResetConn DEF Next
<1> QED
  BY <1>1, <1>2

LEMMA ConnAlways == ASSUME ConnectionConstants PROVE Spec => []ConnInv
<1>1. Init => ConnInv
  BY InitConn
<1>2. ConnInv /\ [Next]_vars => ConnInv'
  BY NextConn
<1> QED
  BY <1>1, <1>2, PTL DEF Spec

(* An open connection is in the list, just made, or about to be closed     *)
(* (_connections, close_db_connections): none escapes the next call.       *)
THEOREM NoConnectionIsLost == ASSUME ConnectionConstants PROVE Spec => []NoneIsLost
<1>1. ConnInv => NoneIsLost
  BY DEF ConnInv
<1> QED
  BY <1>1, ConnAlways, PTL

(* Two threads never use one connection (_tlocal), however their get_db    *)
(* and the calls of ensure_system_db_ready interleave.                     *)
THEOREM NoConnectionIsShared == ASSUME ConnectionConstants PROVE Spec => []NoneIsShared
<1>1. ConnInv => NoneIsShared
  BY DEF ConnInv
<1> QED
  BY <1>1, ConnAlways, PTL
=============================================================================
