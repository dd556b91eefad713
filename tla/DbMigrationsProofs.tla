------------------------- MODULE DbMigrationsProofs -------------------------
(* Theorems about DbMigrations, for any list of migrations, any number of  *)
(* callers, and however often they are stopped; the last two for any list  *)
(* that makes each part once (MigrationsMakeOnce), and before a statement  *)
(* needs it (MigrationsFollow).                                            *)
EXTENDS DbMigrations, FiniteSetTheorems, TLAPS

(* Every caller at work follows the recorded versions: what it has passed  *)
(* is recorded, by it or by another; and a caller that returned has passed *)
(* the whole release.                                                      *)
Follows(p) ==
    /\ caller[p].pc \in {"apply", "done"} => 1 .. caller[p].at - 1 \subseteq recorded
    /\ caller[p].pc = "done" => caller[p].at > release

Prefix == \E m \in 0 .. Top : recorded = 1 .. m

IInv == TypeOK /\ Prefix /\ \A p \in Callers : Follows(p)

-----------------------------------------------------------------------------
LEMMA VersionOfPrefix ==
    ASSUME NEW m \in Nat, recorded = 1 .. m
    PROVE  Version = m
  <1>1. CASE m = 0
    BY <1>1 DEF Version
  <1>2. CASE m > 0
    <2>1. m \in recorded /\ \A w \in recorded : w <= m BY <1>2
    <2>2. \A v \in recorded : (\A w \in recorded : w <= v) => v = m BY <2>1
    <2> QED BY <2>1, <2>2 DEF Version
  <1> QED BY <1>1, <1>2

LEMMA MadeIsParts ==
    ASSUME NEW v \in 1 .. Top, NEW k \in 1 .. Len(Migrations[v])
    PROVE  Migrations[v][k].made \subseteq Parts
  BY DEF Parts

LEMMA MadeByIsParts ==
    ASSUME NEW v \in 0 .. Top
    PROVE  MadeBy(v) \subseteq Parts
  <1> SUFFICES ASSUME NEW o \in MadeBy(v) PROVE o \in Parts
    OBVIOUS
  <1>1. PICK w \in 1 .. v : o \in UNION {Migrations[w][k].made \ Taken(v, <<w, k>>) :
                                           k \in 1 .. Len(Migrations[w])}
    BY DEF MadeBy
  <1>2. PICK k \in 1 .. Len(Migrations[w]) : o \in Migrations[w][k].made
    BY <1>1
  <1>3. w \in 1 .. Top
    BY MigrationConstants
  <1> QED BY <1>2, <1>3, MadeIsParts

(* A caller other than the one that moves keeps its promise while versions *)
(* are only added.                                                         *)
LEMMA OthersFollow ==
    ASSUME NEW p \in Callers, Follows(p), recorded \subseteq recorded', release' = release,
           caller'[p].pc = caller[p].pc, caller'[p].at = caller[p].at
    PROVE  Follows(p)'
  BY DEF Follows

-----------------------------------------------------------------------------
LEMMA InitIInv == Init => IInv
  <1> SUFFICES ASSUME Init PROVE IInv
    OBVIOUS
  <1>1. PICK v \in Bases : /\ schema = MadeBy(v) /\ recorded = 1 .. v
                           /\ release = IF v + Ahead <= Top THEN v + Ahead ELSE Top
    BY DEF Init
  <1>2. v \in 0 .. Top /\ Top \in Nat /\ Ahead \in Nat
    BY MigrationConstants
  <1>3. caller = [p \in Callers |-> [pc |-> "idle", at |-> 1, step |-> 1, alone |-> TRUE]]
    BY DEF Init
  <1>4. caller \in [Callers -> Caller]
    <2>1. [pc |-> "idle", at |-> 1, step |-> 1, alone |-> TRUE] \in Caller
      BY <1>2 DEF Caller
    <2> QED BY <1>3, <2>1
  <1>5. release \in 0 .. Top /\ recorded \subseteq 1 .. Top
    BY <1>1, <1>2
  <1>6. TypeOK
    BY <1>1, <1>2, <1>4, <1>5, MadeByIsParts, MigrationConstants DEF TypeOK, Init
  <1>7. \A p \in Callers : Follows(p)
    BY <1>3 DEF Follows
  <1> QED BY <1>1, <1>2, <1>6, <1>7 DEF IInv, Prefix

LEMMA BeginKeeps ==
    ASSUME IInv, NEW p \in Callers, Begin(p)
    PROVE  IInv'
  <1>1. PICK m \in 0 .. Top : recorded = 1 .. m
    BY DEF IInv, Prefix
  <1>2. Version = m /\ m \in Nat
    BY <1>1, VersionOfPrefix, MigrationConstants
  <1> DEFINE fresh == [pc |-> "apply", at |-> Version + 1, step |-> 1, alone |-> AtWork = {}]
  <1>3. fresh \in Caller
    BY <1>2, MigrationConstants DEF Caller
  <1>4. \A q \in Callers : caller'[q] = IF q = p THEN fresh
                             ELSE IF q \in AtWork THEN [caller[q] EXCEPT !.alone = FALSE]
                             ELSE caller[q]
    BY DEF Begin
  <1>5. \A q \in Callers : [caller[q] EXCEPT !.alone = FALSE] \in Caller
    BY DEF IInv, TypeOK, Caller
  <1>6. caller' \in [Callers -> Caller]
    <2>1. DOMAIN caller' = Callers /\ caller' = [q \in Callers |-> caller'[q]]
      BY DEF Begin
    <2>2. \A q \in Callers : caller'[q] \in Caller
      BY <1>3, <1>4, <1>5 DEF IInv, TypeOK
    <2> QED BY <2>1, <2>2
  <1>7. TypeOK'
    BY <1>6, MigrationConstants DEF IInv, TypeOK, Begin
  <1>8. ASSUME NEW q \in Callers PROVE Follows(q)'
    <2>1. CASE q = p
      <3>1. caller'[q].pc = "apply" /\ caller'[q].at = m + 1
        <4>1. caller'[q] = fresh
          BY <2>1, <1>4
        <4>2. fresh.pc = "apply" /\ fresh.at = Version + 1
          OBVIOUS
        <4> QED BY <4>1, <4>2, <1>2
      <3> QED BY <3>1, <1>1, <1>2 DEF Follows, Begin
    <2>2. CASE q # p
      <3>1. caller'[q].pc = caller[q].pc /\ caller'[q].at = caller[q].at
        BY <2>2, <1>4 DEF IInv, TypeOK, Caller
      <3> QED BY <3>1, OthersFollow DEF IInv, Begin
    <2> QED BY <2>1, <2>2
  <1> QED BY <1>7, <1>8 DEF IInv, Prefix, Begin

(* What a step of one caller leaves to the others.                         *)
Moves(p, local) ==
    /\ local \in Caller
    /\ caller' = [caller EXCEPT ![p] = local]
    /\ release' = release /\ recorded \subseteq recorded'

LEMMA MovesKeeps ==
    ASSUME IInv, NEW p \in Callers, NEW local, Moves(p, local),
           schema' \subseteq Parts, recorded' \subseteq 1 .. Top, Prefix',
           cut' \subseteq 1 .. Top, calls' = calls, stops' \in 0 .. MaxStops,
           local.pc \in {"apply", "done"} => 1 .. local.at - 1 \subseteq recorded',
           local.pc = "done" => local.at > release
    PROVE  IInv'
  <1>1. caller' \in [Callers -> Caller] /\ caller'[p] = local
    BY DEF IInv, TypeOK, Moves
  <1>2. TypeOK'
    BY <1>1 DEF IInv, TypeOK, Moves
  <1>3. ASSUME NEW q \in Callers PROVE Follows(q)'
    <2>1. CASE q = p
      BY <2>1, <1>1 DEF Follows, Moves
    <2>2. CASE q # p
      <3>1. caller'[q] = caller[q]
        BY <2>2 DEF IInv, TypeOK, Moves
      <3> QED BY <3>1, OthersFollow DEF IInv, Moves
    <2> QED BY <2>1, <2>2
  <1> QED BY <1>2, <1>3 DEF IInv

LEMMA ExecuteKeeps ==
    ASSUME IInv, NEW p \in Callers, Execute(p)
    PROVE  IInv'
  <1> DEFINE v == caller[p].at
             k == caller[p].step
             s == Statements(p)[k]
  <1>1. /\ caller[p] \in Caller /\ caller[p].pc = "apply" /\ Prefix /\ TypeOK
        /\ 1 .. v - 1 \subseteq recorded /\ v \in 1 .. Top /\ k \in Nat \ {0}
        /\ k <= Len(Migrations[v])
    BY MigrationConstants DEF IInv, TypeOK, Caller, Follows, Execute, Pending, Statements
  <1>2. /\ UNCHANGED <<recorded, release, cut, calls, stops>>
        /\ calls' = calls /\ stops' \in 0 .. MaxStops
    BY <1>1 DEF Execute, TypeOK
  <1>3. Prefix' /\ cut' \subseteq 1 .. Top /\ recorded' \subseteq 1 .. Top
    BY <1>1, <1>2 DEF Prefix, TypeOK
  <1>4. CASE Refused(s, schema)
    <2> DEFINE local == [caller[p] EXCEPT !.pc = "raised"]
    <2>1. local \in Caller /\ local.pc = "raised"
      BY <1>1 DEF Caller
    <2>2. Moves(p, local) /\ schema' \subseteq Parts
      BY <1>1, <1>2, <1>4, <2>1 DEF Execute, Raised, Moves, TypeOK
    <2> QED BY <1>2, <1>3, <2>1, <2>2, MovesKeeps
  <1>5. CASE ~Refused(s, schema)
    <2> DEFINE local == [caller[p] EXCEPT !.step = @ + 1]
    <2>1. /\ local \in Caller /\ local.pc = "apply" /\ local.at = v
      BY <1>1 DEF Caller
    <2>2. Moves(p, local)
      BY <1>2, <1>5, <2>1 DEF Execute, Moves
    <2>3. schema' \subseteq Parts
      <3>1. schema' = Effect(s, schema)
        BY <1>5 DEF Execute
      <3>2. s.made \subseteq Parts
        <4>1. k \in 1 .. Len(Migrations[v])
          BY <1>1, MigrationConstants
        <4>2. Migrations[v][k].made \subseteq Parts
          BY <1>1, <4>1, MadeIsParts
        <4> QED BY <4>2 DEF Statements
      <3> QED BY <1>1, <3>1, <3>2 DEF Effect, TypeOK
    <2> QED BY <1>1, <1>2, <1>3, <2>1, <2>2, <2>3, MovesKeeps
  <1> QED BY <1>4, <1>5

(* The version that is inserted is the next one: all below it are recorded *)
(* and it is not.                                                          *)
LEMMA RecordKeeps ==
    ASSUME IInv, NEW p \in Callers, Record(p)
    PROVE  IInv'
  <1> DEFINE v == caller[p].at
  <1>1. /\ caller[p] \in Caller /\ caller[p].pc = "apply" /\ Prefix /\ TypeOK
        /\ 1 .. v - 1 \subseteq recorded /\ v \in 1 .. Top /\ Top \in Nat
    BY MigrationConstants, SMTT(60) DEF IInv, TypeOK, Caller, Follows, Record, Pending
  <1>2. /\ UNCHANGED <<schema, release, cut, calls, stops>>
        /\ calls' = calls /\ stops' \in 0 .. MaxStops
        /\ schema' \subseteq Parts /\ cut' \subseteq 1 .. Top
    BY <1>1 DEF Record, TypeOK
  <1>3. CASE v \in recorded
    <2> DEFINE local == [caller[p] EXCEPT !.pc = "raised"]
    <2>1. local \in Caller /\ local.pc = "raised"
      BY <1>1 DEF Caller
    <2>2. recorded' = recorded
      BY <1>3 DEF Record
    <2>3. Moves(p, local)
      BY <1>2, <1>3, <2>1, <2>2 DEF Record, Raised, Moves
    <2>4. Prefix' /\ recorded' \subseteq 1 .. Top
      BY <1>1, <2>2 DEF Prefix, TypeOK
    <2> QED BY <1>2, <2>1, <2>3, <2>4, MovesKeeps
  <1>4. CASE v \notin recorded
    <2> DEFINE passed == [caller[p] EXCEPT !.at = v + 1]
               local  == [passed EXCEPT !.step = 1]
    <2>1. local \in Caller /\ local.pc = "apply" /\ local.at = v + 1
      <3>1. passed \in Caller /\ passed.pc = "apply" /\ passed.at = v + 1
        BY <1>1 DEF Caller
      <3> HIDE DEF passed, v
      <3> QED BY <3>1 DEF Caller
    <2>2. recorded' = recorded \cup {v}
      BY <1>4 DEF Record
    <2>3. Moves(p, local)
      <3>1. caller' = [caller EXCEPT ![p].at = @ + 1, ![p].step = 1]
        BY <1>4 DEF Record
      <3>2. caller' = [caller EXCEPT ![p] = local]
        BY <3>1
      <3> QED BY <1>2, <2>1, <2>2, <3>2 DEF Moves
    <2>4. Prefix'
      <3>1. PICK m \in 0 .. Top : recorded = 1 .. m
        BY <1>1 DEF Prefix
      <3>2. v = m + 1
        BY <1>1, <1>4, <3>1
      <3>3. recorded' = 1 .. m + 1 /\ m + 1 \in 0 .. Top
        BY <1>1, <2>2, <3>1, <3>2
      <3> QED BY <3>3 DEF Prefix
    <2>5. recorded' \subseteq 1 .. Top
      BY <1>1, <2>2 DEF TypeOK
    <2>6. 1 .. local.at - 1 \subseteq recorded'
      BY <1>1, <2>1, <2>2
    <2> HIDE DEF local
    <2> QED BY <1>2, <2>1, <2>3, <2>4, <2>5, <2>6, MovesKeeps
  <1> QED BY <1>3, <1>4

LEMMA FinishKeeps ==
    ASSUME IInv, NEW p \in Callers, Finish(p)
    PROVE  IInv'
  <1> DEFINE local == [caller[p] EXCEPT !.pc = "done"]
  <1>1. /\ caller[p] \in Caller /\ caller[p].pc = "apply" /\ Prefix /\ TypeOK
        /\ 1 .. caller[p].at - 1 \subseteq recorded /\ caller[p].at > release
    BY DEF IInv, TypeOK, Follows, Finish
  <1>2. local \in Caller /\ local.pc = "done" /\ local.at = caller[p].at
    BY <1>1 DEF Caller
  <1>3. /\ Prefix' /\ schema' \subseteq Parts /\ recorded' \subseteq 1 .. Top
        /\ recorded' = recorded /\ cut' \subseteq 1 .. Top /\ calls' = calls
        /\ stops' \in 0 .. MaxStops
    BY <1>1 DEF Finish, Prefix, TypeOK
  <1>4. Moves(p, local)
    BY <1>2, <1>3 DEF Finish, Moves
  <1> QED BY <1>1, <1>2, <1>3, <1>4, MovesKeeps

LEMMA StopKeeps ==
    ASSUME IInv, NEW p \in Callers, Stop(p)
    PROVE  IInv'
  <1> DEFINE local == [caller[p] EXCEPT !.pc = "stopped"]
  <1>1. /\ caller[p] \in Caller /\ Prefix /\ TypeOK
        /\ caller[p].at \in 1 .. Top /\ Top \in Nat /\ MaxStops \in Nat
    BY MigrationConstants DEF IInv, TypeOK, Caller, Stop, Pending
  <1>2. local \in Caller /\ local.pc = "stopped"
    BY <1>1 DEF Caller
  <1>3. /\ Prefix' /\ schema' \subseteq Parts /\ recorded' \subseteq 1 .. Top
        /\ recorded' = recorded /\ calls' = calls
    BY <1>1 DEF Stop, Prefix, TypeOK
  <1>4. cut' \subseteq 1 .. Top /\ stops' \in 0 .. MaxStops
    BY <1>1 DEF Stop, TypeOK
  <1>5. Moves(p, local)
    BY <1>2, <1>3 DEF Stop, Moves
  <1> QED BY <1>2, <1>3, <1>4, <1>5, MovesKeeps

-----------------------------------------------------------------------------
(* IInv is inductive: one lemma for each action.                           *)
LEMMA StepIInv == IInv /\ [Next]_vars => IInv'
  <1> SUFFICES ASSUME IInv, [Next]_vars PROVE IInv'
    OBVIOUS
  <1>1. CASE Next
    <2>1. PICK p \in Callers : Begin(p) \/ Execute(p) \/ Record(p) \/ Finish(p) \/ Stop(p)
      BY <1>1 DEF Next
    <2> QED BY <2>1, BeginKeeps, ExecuteKeeps, RecordKeeps, FinishKeeps, StopKeeps
  <1>2. CASE UNCHANGED vars
    BY <1>2 DEF vars, IInv, TypeOK, Prefix, Follows, Parts, Caller, Top
  <1> QED BY <1>1, <1>2

LEMMA AlwaysIInv == Spec => []IInv
  BY InitIInv, StepIInv, PTL DEF Spec

(* The file holds only parts that some migration makes, and every caller   *)
(* is at a migration of the list.                                          *)
THEOREM TypeCorrect == Spec => []TypeOK
  <1>1. IInv => TypeOK BY DEF IInv
  <1> QED BY <1>1, AlwaysIInv, PTL

(* Whoever applies the migrations, and wherever callers are stopped, the   *)
(* recorded versions never have a gap: MAX(version), which decides what    *)
(* the next start skips, skips nothing that was not recorded.              *)
THEOREM RecordedWithoutGaps == Spec => []NoGaps
  <1>1. IInv => NoGaps
    <2> SUFFICES ASSUME IInv PROVE NoGaps
      OBVIOUS
    <2>1. PICK m \in 0 .. Top : recorded = 1 .. m
      BY DEF IInv, Prefix
    <2>2. m \in Int /\ Cardinality(1 .. m) = m
      BY FS_Interval, MigrationConstants
    <2> QED BY <2>1, <2>2 DEF NoGaps
  <1> QED BY <1>1, AlwaysIInv, PTL

(* apply_migrations never returns before every migration of its release is *)
(* recorded, also when others work on the same file.                       *)
THEOREM ReturnsWhenComplete == Spec => []ReadyIsComplete
  <1>1. IInv => ReadyIsComplete
    <2> SUFFICES ASSUME IInv, NEW p \in Callers, caller[p].pc = "done"
                 PROVE  1 .. release \subseteq recorded
      BY DEF ReadyIsComplete
    <2>1. 1 .. caller[p].at - 1 \subseteq recorded /\ caller[p].at > release
      BY DEF IInv, Follows
    <2>2. caller[p].at \in Int /\ release \in Int
      BY MigrationConstants DEF IInv, TypeOK, Caller
    <2> QED BY <2>1, <2>2
  <1> QED BY <1>1, AlwaysIInv, PTL

-----------------------------------------------------------------------------
(* What a recorded migration made is in the file or taken away by a later  *)
(* one, and a call that nobody disturbs does not raise.  Inductively the   *)
(* first is said of each statement that somebody has executed, or of which *)
(* the file has some part, and what is missing has been taken by a later   *)
(* statement that ran.  A statement ran if its migration is recorded, was  *)
(* stopped half way, or is being applied by a caller that is past it: the  *)
(* caller that is furthest in the next migration is never refused, so this *)
(* is not forgotten when others raise.                                     *)
Ran(v, k) ==
    \/ v \in recorded \/ v \in cut
    \/ \E p \in Callers : /\ caller[p].pc = "apply"
                          /\ caller[p].at = v /\ caller[p].step > k

Executed(v, k) ==
    v \in recorded \/ \E p \in Callers : /\ caller[p].pc = "apply"
                                         /\ caller[p].at = v /\ caller[p].step > k

TakenLater(v, k, o) ==
    \E w \in 1 .. Top : \E j \in 1 .. Len(Migrations[w]) :
      Ran(w, j) /\ Earlier(<<v, k>>, <<w, j>>) /\ o \in Migrations[w][j].gone

Kept(v, k) ==
    Executed(v, k) \/ Migrations[v][k].made \cap schema # {} =>
      \A o \in Migrations[v][k].made \ schema : TakenLater(v, k, o)

AllKept == \A v \in 1 .. Top : \A k \in 1 .. Len(Migrations[v]) : Kept(v, k)

NothingAhead ==
    \A v \in 1 .. Top : \A k \in 1 .. Len(Migrations[v]) :
      Migrations[v][k].made \cap schema # {} => Ran(v, k)

Passed == \A p \in Callers : caller[p].pc # "idle" => 1 .. caller[p].at - 1 \subseteq recorded

CutIsNext == \A v \in cut : 1 .. v - 1 \subseteq recorded

Lone ==
    \A p \in AtWork : /\ caller[p].at > release => caller[p].step = 1
                      /\ caller[p].alone => AtWork = {p} /\ caller[p].at \notin recorded

KInv == /\ IInv /\ Passed /\ CutIsNext /\ Lone
        /\ NothingAhead /\ AllKept /\ RaisesForCause

LEMMA MadeOnce ==
    ASSUME NEW v \in 1 .. Top, NEW k \in 1 .. Len(Migrations[v]),
           NEW w \in 1 .. Top, NEW j \in 1 .. Len(Migrations[w]), NEW o
    PROVE  /\ o \in Migrations[v][k].made /\ o \in Migrations[w][j].made => v = w /\ k = j
           /\ o \in Migrations[v][k].made /\ o \in Migrations[w][j].gone =>
                Earlier(<<v, k>>, <<w, j>>)
  <1> DEFINE m1 == Migrations[v][k].made
             m2 == Migrations[w][j].made
             g2 == Migrations[w][j].gone
  <1>1. /\ m1 \cap m2 # {} => v = w /\ k = j
        /\ m1 \cap g2 # {} => Earlier(<<v, k>>, <<w, j>>)
    BY MigrationsMakeOnce
  <1> HIDE DEF m1, m2, g2
  <1>2. /\ o \in m1 /\ o \in m2 => v = w /\ k = j
        /\ o \in m1 /\ o \in g2 => Earlier(<<v, k>>, <<w, j>>)
    BY <1>1
  <1> QED BY <1>2 DEF m1, m2, g2

LEMMA MadeByOne ==
    ASSUME NEW v \in 1 .. Top, NEW k \in 1 .. Len(Migrations[v]),
           NEW w \in 1 .. Top, NEW j \in 1 .. Len(Migrations[w]), NEW o,
           o \in Migrations[v][k].made, o \in Migrations[w][j].made
    PROVE  v = w /\ k = j
  BY MadeOnce

LEMMA MadeWhole ==
    ASSUME NEW v \in 1 .. Top, NEW k \in 1 .. Len(Migrations[v])
    PROVE  /\ Migrations[v][k].op # "drop" =>
                Migrations[v][k].object \in Migrations[v][k].made
           /\ Migrations[v][k].op = "drop" => Migrations[v][k].made = {}
  BY MigrationsMakeOnce

LEMMA NeedsMade ==
    ASSUME NEW v \in 1 .. Top, NEW k \in 1 .. Len(Migrations[v]),
           NEW o \in Migrations[v][k].needs \cup Migrations[v][k].on
    PROVE  \E w \in 1 .. Top : \E j \in 1 .. Len(Migrations[w]) :
             Earlier(<<w, j>>, <<v, k>>) /\ o \in Migrations[w][j].made
  BY MigrationsFollow

LEMMA NeedsStay ==
    ASSUME NEW v \in 1 .. Top, NEW k \in 1 .. Len(Migrations[v]),
           NEW o \in Migrations[v][k].needs \cup Migrations[v][k].on,
           NEW w \in 1 .. Top, NEW j \in 1 .. Len(Migrations[w]),
           o \in Migrations[w][j].gone
    PROVE  ~Earlier(<<w, j>>, <<v, k>>) /\ (Repeatable(v) => w # v)
  BY MigrationsFollow

LEMMA InitKept == Init => KInv
  <1> SUFFICES ASSUME Init PROVE KInv
    OBVIOUS
  <1>1. PICK b \in Bases : schema = MadeBy(b) /\ recorded = 1 .. b
    BY DEF Init
  <1>2. b \in 0 .. Top /\ Top \in Nat
    BY <1>1, MigrationConstants
  <1>3. caller = [p \in Callers |-> [pc |-> "idle", at |-> 1, step |-> 1, alone |-> TRUE]]
    BY DEF Init
  <1>4. Passed
    BY <1>3 DEF Passed
  <1>7. ASSUME NEW v \in 1 .. Top, NEW k \in 1 .. Len(Migrations[v]),
               Migrations[v][k].made \cap schema # {}
        PROVE  v \in 1 .. b
    <2>1. PICK x : x \in Migrations[v][k].made /\ x \in MadeBy(b)
      BY <1>1, <1>7
    <2>2. PICK w \in 1 .. b :
             x \in UNION {Migrations[w][i].made \ Taken(b, <<w, i>>) :
                            i \in 1 .. Len(Migrations[w])}
      BY <2>1 DEF MadeBy
    <2>3. PICK j \in 1 .. Len(Migrations[w]) : x \in Migrations[w][j].made
      BY <2>2
    <2>4. w \in 1 .. Top
      BY <1>2
    <2>5. v = w
      BY <2>1, <2>3, <2>4, MadeByOne
    <2> QED BY <2>5
  <1>5. ASSUME NEW v \in 1 .. Top, NEW k \in 1 .. Len(Migrations[v]),
               Executed(v, k) \/ Migrations[v][k].made \cap schema # {},
               NEW o \in Migrations[v][k].made \ schema
        PROVE  TakenLater(v, k, o)
    <2>1. v \in 1 .. b
      <3>1. CASE Executed(v, k)
        BY <1>1, <1>3, <3>1 DEF Executed
      <3>2. CASE Migrations[v][k].made \cap schema # {}
        BY <3>2, <1>7
      <3> QED BY <1>5, <3>1, <3>2
    <2>2. o \in Taken(b, <<v, k>>)
      <3>1. SUFFICES ASSUME o \notin Taken(b, <<v, k>>) PROVE FALSE
        OBVIOUS
      <3>2. o \in Migrations[v][k].made \ Taken(b, <<v, k>>)
        BY <3>1
      <3>3. o \in UNION {Migrations[v][i].made \ Taken(b, <<v, i>>) :
                           i \in 1 .. Len(Migrations[v])}
        BY <3>2
      <3>4. o \in MadeBy(b)
        BY <2>1, <3>3 DEF MadeBy
      <3> QED BY <3>4, <1>1
    <2>3. PICK w \in 1 .. b :
             o \in UNION {Migrations[w][i].gone :
                            i \in {j \in 1 .. Len(Migrations[w]) : Earlier(<<v, k>>, <<w, j>>)}}
      BY <2>2 DEF Taken
    <2>4. PICK j \in 1 .. Len(Migrations[w]) :
             Earlier(<<v, k>>, <<w, j>>) /\ o \in Migrations[w][j].gone
      BY <2>3
    <2>5. w \in 1 .. Top /\ Ran(w, j)
      BY <1>1, <1>2 DEF Ran
    <2> QED BY <2>4, <2>5 DEF TakenLater
  <1>6. AllKept
    BY <1>5 DEF AllKept, Kept
  <1>8. NothingAhead
    BY <1>1, <1>7 DEF NothingAhead, Ran
  <1>9. CutIsNext /\ Lone /\ RaisesForCause
    BY <1>3 DEF CutIsNext, Lone, RaisesForCause, AtWork, Init
  <1> QED BY <1>4, <1>6, <1>8, <1>9, InitIInv DEF KInv

(* What is needed by the caller that is furthest in the next migration, or *)
(* by any caller at one that can be repeated, is in the file.              *)
LEMMA NeedsAreThere ==
    ASSUME IInv, Passed, CutIsNext, AllKept,
           NEW p \in Callers, caller[p].pc = "apply",
           NEW v \in 1 .. Top, NEW k \in 1 .. Len(Migrations[v]),
           v = caller[p].at, k = caller[p].step, v \notin recorded,
           \/ Repeatable(v)
           \/ /\ v \notin cut
              /\ \A q \in Callers : caller[q].pc = "apply" /\ caller[q].at = v
                                     => caller[q].step <= k
    PROVE  Migrations[v][k].needs \cup Migrations[v][k].on \subseteq schema
  <1> SUFFICES ASSUME NEW o \in Migrations[v][k].needs \cup Migrations[v][k].on,
                      o \notin schema
               PROVE  FALSE
    OBVIOUS
  <1>0. PICK m \in 0 .. Top : recorded = 1 .. m
    BY DEF IInv, Prefix
  <1>1. /\ m \in Nat /\ v \in Nat /\ k \in Nat /\ Top \in Nat
        /\ 1 .. v - 1 \subseteq recorded
    BY MigrationConstants DEF Passed
  <1>2. v = m + 1
    <2>1. v > m
      BY <1>0, <1>1
    <2>2. ~(v > m + 1)
      <3>1. ASSUME v > m + 1 PROVE FALSE
        <4>1. m + 1 \in 1 .. v - 1
          BY <3>1, <1>1
        <4>2. m + 1 \in 1 .. m
          BY <4>1, <1>0, <1>1
        <4> QED BY <4>2, <1>1
      <3> QED BY <3>1
    <2> QED BY <2>1, <2>2, <1>1
  <1>3. PICK w \in 1 .. Top : \E j \in 1 .. Len(Migrations[w]) :
           Earlier(<<w, j>>, <<v, k>>) /\ o \in Migrations[w][j].made
    BY NeedsMade
  <1>4. PICK j \in 1 .. Len(Migrations[w]) :
           Earlier(<<w, j>>, <<v, k>>) /\ o \in Migrations[w][j].made
    BY <1>3
  <1>5. Executed(w, j)
    <2>1. CASE w < v
      BY <2>1, <1>0, <1>1, <1>2 DEF Executed
    <2>2. CASE w = v /\ j < k
      BY <2>2, <1>1, MigrationConstants DEF Executed
    <2> QED BY <2>1, <2>2, <1>4 DEF Earlier
  <1>6. TakenLater(w, j, o)
    BY <1>4, <1>5 DEF AllKept, Kept
  <1>7. PICK x \in 1 .. Top : \E i \in 1 .. Len(Migrations[x]) :
           Ran(x, i) /\ o \in Migrations[x][i].gone
    BY <1>6 DEF TakenLater
  <1>8. PICK i \in 1 .. Len(Migrations[x]) : Ran(x, i) /\ o \in Migrations[x][i].gone
    BY <1>7
  <1>9. ~Earlier(<<x, i>>, <<v, k>>) /\ (Repeatable(v) => x # v)
    BY <1>8, NeedsStay
  <1>10. x \in Nat /\ i \in Nat
    BY <1>1, <1>8, MigrationConstants
  <1>11. x > v \/ (x = v /\ i >= k)
    <2> HIDE DEF Top
    <2> QED BY <1>1, <1>9, <1>10 DEF Earlier
  <1>12. x <= v /\ (x = v => v \in cut \/ \E q \in Callers : /\ caller[q].pc = "apply"
                                             /\ caller[q].at = v /\ caller[q].step > i)
    <2>1. CASE x \in recorded
      BY <2>1, <1>0, <1>1, <1>2
    <2>2. CASE x \in cut
      <3>1. 1 .. x - 1 \subseteq 1 .. m
        BY <2>2, <1>0 DEF CutIsNext
      <3>2. x <= m + 1
        <4>1. ASSUME x > m + 1 PROVE FALSE
          <5>1. m + 1 \in 1 .. x - 1
            BY <4>1, <1>1, <1>10
          <5>2. m + 1 \in 1 .. m
            BY <5>1, <3>1
          <5> QED BY <5>2, <1>1
        <4> QED BY <4>1, <1>1, <1>10
      <3> QED BY <3>2, <2>2, <1>2
    <2>3. ASSUME NEW q \in Callers, caller[q].pc = "apply", caller[q].at = x, caller[q].step > i
          PROVE  x <= v /\ (x = v => \E r \in Callers : /\ caller[r].pc = "apply"
                                             /\ caller[r].at = v /\ caller[r].step > i)
      <3>1. 1 .. x - 1 \subseteq 1 .. m
        BY <2>3, <1>0 DEF Passed
      <3>2. x <= m + 1
        <4>1. ASSUME x > m + 1 PROVE FALSE
          <5>1. m + 1 \in 1 .. x - 1
            BY <4>1, <1>1, <1>10
          <5>2. m + 1 \in 1 .. m
            BY <5>1, <3>1
          <5> QED BY <5>2, <1>1
        <4> QED BY <4>1, <1>1, <1>10
      <3> QED BY <3>2, <2>3, <1>2
    <2> QED BY <2>1, <2>2, <2>3, <1>8 DEF Ran
  <1>13. x = v /\ i >= k
    BY <1>11, <1>12, <1>1, <1>10
  <1>14. v \notin cut /\ \A q \in Callers : caller[q].pc = "apply" /\ caller[q].at = v
                                     => caller[q].step <= k
    BY <1>9, <1>13
  <1>15. PICK q \in Callers : caller[q].pc = "apply" /\ caller[q].at = v /\ caller[q].step > i
    BY <1>12, <1>13, <1>14
  <1>16. caller[q].step \in Nat
    BY DEF IInv, TypeOK, Caller
  <1> QED BY <1>13, <1>14, <1>15, <1>16, <1>1, <1>10

LEMMA NotRefused ==
    ASSUME IInv, Passed, CutIsNext, AllKept, NothingAhead,
           NEW p \in Callers, caller[p].pc = "apply",
           NEW v \in 1 .. Top, NEW k \in 1 .. Len(Migrations[v]),
           v = caller[p].at, k = caller[p].step, v \notin recorded,
           \/ Repeatable(v)
           \/ /\ v \notin cut
              /\ \A q \in Callers : caller[q].pc = "apply" /\ caller[q].at = v
                                     => caller[q].step <= k
    PROVE  ~Refused(Migrations[v][k], schema)
  <1> DEFINE s == Migrations[v][k]
  <1>1. s.needs \cup s.on \subseteq schema
    BY NeedsAreThere
  <1>2. CASE Repeatable(v)
    <2>1. s.op \in {"create", "drop"}
      BY <1>2 DEF Repeatable
    <2> HIDE DEF s
    <2>2. ~Refused(s, schema)
      BY <1>1, <2>1 DEF Refused, Skipped
    <2> QED BY <2>2 DEF s
  <1>3. CASE /\ v \notin cut
             /\ \A q \in Callers : caller[q].pc = "apply" /\ caller[q].at = v
                                    => caller[q].step <= k
    <2>1. ~Ran(v, k)
      <3>1. \A q \in Callers : caller[q].step \in Nat
        BY DEF IInv, TypeOK, Caller
      <3>2. k \in Nat
        BY MigrationConstants
      <3> QED BY <1>3, <3>1, <3>2 DEF Ran
    <2>2. s.made \cap schema = {}
      BY <2>1 DEF NothingAhead
    <2>3. s.op # "drop" => s.object \in s.made
      BY MadeWhole
    <2> HIDE DEF s
    <2>4. ~Refused(s, schema)
      BY <1>1, <2>2, <2>3 DEF Refused
    <2> QED BY <2>4 DEF s
  <1> QED BY <1>2, <1>3

(* What a step of one caller leaves as it is.                              *)
LEMMA OthersStay ==
    ASSUME IInv, NEW p \in Callers, Execute(p) \/ Record(p) \/ Finish(p) \/ Stop(p)
    PROVE  /\ caller[p] \in Caller /\ caller[p].pc = "apply" /\ p \in DOMAIN caller
           /\ \A q \in Callers \ {p} : caller'[q] = caller[q]
           /\ recorded \subseteq recorded' /\ cut \subseteq cut' /\ release' = release
  <1>1. caller[p] \in Caller /\ caller[p].pc = "apply" /\ p \in DOMAIN caller
    BY DEF Execute, Record, Finish, Stop, Pending, IInv, TypeOK
  <1>2. \A q \in Callers \ {p} : caller'[q] = caller[q]
    BY DEF Execute, Record, Finish, Stop, Raised, IInv, TypeOK
  <1>3. recorded \subseteq recorded' /\ cut \subseteq cut' /\ release' = release
    BY DEF Execute, Record, Finish, Stop
  <1> QED BY <1>1, <1>2, <1>3

LEMMA BeginStays ==
    ASSUME IInv, NEW p \in Callers, Begin(p)
    PROVE  /\ recorded' = recorded /\ cut' = cut /\ release' = release /\ schema' = schema
           /\ caller'[p].pc = "apply" /\ caller'[p].step = 1
           /\ caller'[p].at = Version + 1 /\ caller'[p].alone = (AtWork = {})
           /\ \A q \in Callers \ {p} :
                /\ caller'[q].pc = caller[q].pc /\ caller'[q].at = caller[q].at
                /\ caller'[q].step = caller[q].step
                /\ q \in AtWork => caller'[q].alone = FALSE
                /\ q \notin AtWork => caller'[q] = caller[q]
           /\ p \notin AtWork
  <1> DEFINE fresh == [pc |-> "apply", at |-> Version + 1, step |-> 1, alone |-> AtWork = {}]
  <1>1. caller'[p] = fresh
    BY DEF Begin
  <1>2. /\ fresh.pc = "apply" /\ fresh.at = Version + 1 /\ fresh.step = 1
        /\ fresh.alone = (AtWork = {})
    OBVIOUS
  <1>3. ASSUME NEW q \in Callers \ {p}
        PROVE  /\ caller'[q].pc = caller[q].pc /\ caller'[q].at = caller[q].at
               /\ caller'[q].step = caller[q].step
               /\ q \in AtWork => caller'[q].alone = FALSE
               /\ q \notin AtWork => caller'[q] = caller[q]
    <2>1. caller'[q] = IF q \in AtWork THEN [caller[q] EXCEPT !.alone = FALSE] ELSE caller[q]
      BY DEF Begin
    <2>2. caller[q] \in Caller
      BY DEF IInv, TypeOK
    <2> QED BY <2>1, <2>2 DEF Caller
  <1> QED BY <1>1, <1>2, <1>3 DEF Begin

LEMMA RanStays ==
    ASSUME IInv, Passed, CutIsNext, Lone, AllKept, NothingAhead, [Next]_vars,
           NEW v \in 1 .. Top, NEW k \in 1 .. Len(Migrations[v]), Ran(v, k)
    PROVE  Ran(v, k)'
  <1>1. CASE UNCHANGED vars
    BY <1>1 DEF vars, Ran
  <1>2. ASSUME NEW p \in Callers, Begin(p) PROVE Ran(v, k)'
    BY <1>2, BeginStays DEF Ran, AtWork
  <1>3. ASSUME NEW p \in Callers, Execute(p) \/ Record(p) \/ Finish(p) \/ Stop(p)
        PROVE  Ran(v, k)'
    <2>1. /\ caller[p] \in Caller /\ caller[p].pc = "apply" /\ p \in DOMAIN caller
          /\ \A q \in Callers \ {p} : caller'[q] = caller[q]
          /\ recorded \subseteq recorded' /\ cut \subseteq cut'
      BY <1>3, OthersStay
    <2>2. SUFFICES ASSUME caller[p].at = v, caller[p].step > k,
                          v \notin recorded, v \notin cut,
                          ~ \E q \in Callers \ {p} : /\ caller[q].pc = "apply"
                                  /\ caller[q].at = v /\ caller[q].step > k
                   PROVE  Ran(v, k)'
      BY <2>1 DEF Ran
    <2>3. /\ k \in Nat /\ k >= 1 /\ caller[p].step \in Nat /\ v \in Nat
          /\ \A q \in Callers : caller[q].step \in Nat
      BY MigrationConstants DEF IInv, TypeOK, Caller
    <2>4. CASE Execute(p)
      <3>1. PICK j \in 1 .. Len(Migrations[v]) : j = caller[p].step
        BY <2>2, <2>3, <2>4, MigrationConstants DEF Execute, Statements
      <3>2. \A q \in Callers : caller[q].pc = "apply" /\ caller[q].at = v => caller[q].step <= j
        BY <2>2, <2>3, <3>1
      <3>3. ~Refused(Migrations[v][j], schema)
        BY <2>1, <2>2, <3>1, <3>2, NotRefused
      <3>4. caller' = [caller EXCEPT ![p].step = @ + 1]
        BY <2>2, <2>4, <3>1, <3>3 DEF Execute, Statements
      <3>5. caller'[p].pc = "apply" /\ caller'[p].at = v /\ caller'[p].step > k
        BY <2>1, <2>2, <2>3, <3>4 DEF Caller
      <3> QED BY <3>5 DEF Ran
    <2>5. CASE Record(p)
      BY <2>2, <2>5 DEF Record, Ran
    <2>6. CASE Finish(p)
      BY <2>1, <2>2, <2>3, <2>6 DEF Finish, Lone, AtWork
    <2>7. CASE Stop(p)
      BY <2>2, <2>3, <2>7 DEF Stop, Ran
    <2> QED BY <1>3, <2>4, <2>5, <2>6, <2>7
  <1> QED BY <1>1, <1>2, <1>3 DEF Next

LEMMA PassedNext ==
    ASSUME IInv, Passed, [Next]_vars
    PROVE  Passed'
  <1>1. CASE UNCHANGED vars
    BY <1>1 DEF vars, Passed
  <1>2. ASSUME NEW p \in Callers, Begin(p) PROVE Passed'
    <2>1. PICK m \in 0 .. Top : recorded = 1 .. m
      BY DEF IInv, Prefix
    <2>2. Version = m /\ m \in Nat
      BY <2>1, VersionOfPrefix, MigrationConstants
    <2>3. recorded' = recorded
      BY <1>2 DEF Begin
    <2>4. ASSUME NEW q \in Callers, caller'[q].pc # "idle"
          PROVE  1 .. caller'[q].at - 1 \subseteq recorded'
      <3>1. CASE q = p
        <4>1. caller'[q].at = Version + 1
          BY <3>1, <1>2, BeginStays
        <4> QED BY <4>1, <2>1, <2>2, <2>3
      <3>2. CASE q # p
        BY <3>2, <1>2, <2>3, <2>4, BeginStays DEF Passed
      <3> QED BY <3>1, <3>2
    <2> QED BY <2>4 DEF Passed
  <1>3. ASSUME NEW p \in Callers, Execute(p) \/ Record(p) \/ Finish(p) \/ Stop(p)
        PROVE  Passed'
    <2>1. recorded \subseteq recorded'
      BY <1>3 DEF Execute, Record, Finish, Stop
    <2>2. \A q \in Callers \ {p} : caller'[q] = caller[q]
      BY <1>3 DEF Execute, Record, Finish, Stop, Raised, IInv, TypeOK
    <2>3. /\ caller[p] \in Caller /\ caller[p].pc = "apply" /\ p \in DOMAIN caller
          /\ caller[p].at \in Nat
      BY <1>3, MigrationConstants
      DEF Execute, Record, Finish, Stop, Pending, IInv, TypeOK, Caller
    <2>4. \/ caller'[p].at = caller[p].at
          \/ caller'[p].at = caller[p].at + 1 /\ caller[p].at \in recorded'
      <3>2. CASE Execute(p)
        BY <2>3, <3>2 DEF Execute, Raised, Caller
      <3>3. CASE Record(p)
        BY <2>3, <3>3 DEF Record, Raised, Caller
      <3>4. CASE Finish(p)
        BY <2>3, <3>4 DEF Finish, Caller
      <3>5. CASE Stop(p)
        BY <2>3, <3>5 DEF Stop, Caller
      <3> QED BY <1>3, <3>2, <3>3, <3>4, <3>5
    <2>5. 1 .. caller[p].at - 1 \subseteq recorded
      BY <2>3 DEF Passed
    <2>6. 1 .. caller'[p].at - 1 \subseteq recorded'
      BY <2>1, <2>3, <2>4, <2>5
    <2> QED BY <2>1, <2>2, <2>6 DEF Passed
  <1> QED BY <1>1, <1>2, <1>3 DEF Next

LEMMA LaterStaysLater ==
    ASSUME IInv, Passed, CutIsNext, Lone, AllKept, NothingAhead, [Next]_vars,
           NEW v, NEW k, NEW o, TakenLater(v, k, o)
    PROVE  TakenLater(v, k, o)'
  <1>1. PICK w \in 1 .. Top : \E j \in 1 .. Len(Migrations[w]) :
           Ran(w, j) /\ Earlier(<<v, k>>, <<w, j>>) /\ o \in Migrations[w][j].gone
    BY DEF TakenLater
  <1>2. PICK j \in 1 .. Len(Migrations[w]) :
           Ran(w, j) /\ Earlier(<<v, k>>, <<w, j>>) /\ o \in Migrations[w][j].gone
    BY <1>1
  <1>3. Ran(w, j)'
    BY <1>2, RanStays
  <1> QED BY <1>2, <1>3 DEF TakenLater, Top

(* A step that leaves the schema alone and executes no statement.          *)
LEMMA KeptWithout ==
    ASSUME IInv, Passed, CutIsNext, Lone, AllKept, NothingAhead, [Next]_vars,
           schema' = schema,
           \A v \in 1 .. Top : \A k \in 1 .. Len(Migrations[v]) :
             Executed(v, k)' => Executed(v, k) \/ Migrations[v][k].made \cap schema # {}
                                \/ Migrations[v][k].made = {}
    PROVE  AllKept' /\ NothingAhead'
  <1>0. NothingAhead'
    <2> SUFFICES ASSUME NEW v \in 1 .. Top, NEW k \in 1 .. Len(Migrations[v]),
                        Migrations[v][k].made \cap schema' # {}
                 PROVE  Ran(v, k)'
      BY DEF NothingAhead, Top
    <2>1. Ran(v, k)
      BY DEF NothingAhead
    <2> QED BY <2>1, RanStays
  <1> SUFFICES ASSUME NEW v \in 1 .. Top, NEW k \in 1 .. Len(Migrations[v]),
                      Executed(v, k)' \/ Migrations[v][k].made \cap schema' # {},
                      NEW o \in Migrations[v][k].made, o \notin schema'
               PROVE  TakenLater(v, k, o)'
    BY <1>0 DEF AllKept, Kept, Top
  <1>1. Executed(v, k) \/ Migrations[v][k].made \cap schema # {}
    OBVIOUS
  <1>2. TakenLater(v, k, o)
    BY <1>1 DEF AllKept, Kept
  <1> QED BY <1>2, LaterStaysLater

LEMMA ExecuteKept ==
    ASSUME IInv, Passed, CutIsNext, Lone, AllKept, NothingAhead,
           NEW p \in Callers, Execute(p)
    PROVE  AllKept' /\ NothingAhead'
  <1>0. PICK v \in 1 .. Top, k \in 1 .. Len(Migrations[caller[p].at]) :
           v = caller[p].at /\ k = caller[p].step
    BY MigrationConstants DEF IInv, TypeOK, Caller, Execute, Pending, Statements
  <1> DEFINE s == Migrations[v][k]
  <1>1. /\ caller[p] \in Caller /\ caller[p].pc = "apply" /\ p \in DOMAIN caller
        /\ v = caller[p].at /\ k = caller[p].step
        /\ k \in 1 .. Len(Migrations[v]) /\ k \in Nat
    BY <1>0, MigrationConstants DEF IInv, TypeOK, Caller, Execute, Pending
  <1>2. recorded' = recorded /\ [Next]_vars
    BY DEF Execute, Next
  <1>3. \A q \in Callers \ {p} : caller'[q] = caller[q]
    BY DEF Execute, Raised, IInv, TypeOK
  <1>4. ASSUME NEW w \in 1 .. Top, NEW j \in 1 .. Len(Migrations[w]), Executed(w, j)'
        PROVE  Executed(w, j) \/ (w = v /\ j = k /\ ~Refused(s, schema))
    <2>1. CASE w \in recorded
      BY <2>1 DEF Executed
    <2>2. ASSUME NEW q \in Callers, caller'[q].pc = "apply", caller'[q].at = w,
                 caller'[q].step > j
          PROVE  Executed(w, j) \/ (w = v /\ j = k /\ ~Refused(s, schema))
      <3>1. CASE q # p
        BY <3>1, <2>2, <1>3 DEF Executed
      <3>2. CASE q = p
        <4>1. ~Refused(s, schema) /\ caller' = [caller EXCEPT ![p].step = @ + 1]
          BY <2>2, <3>2, <1>1 DEF Execute, Raised, Statements, Caller
        <4>2. caller'[p].at = v /\ caller'[p].step = k + 1
          BY <4>1, <1>1 DEF Caller
        <4>3. j \in Int /\ (k > j \/ k = j)
          BY <4>2, <2>2, <3>2, <1>1, MigrationConstants
        <4> QED BY <4>1, <4>2, <4>3, <2>2, <3>2, <1>1 DEF Executed
      <3> QED BY <3>1, <3>2
    <2> QED BY <1>2, <1>4, <2>1, <2>2 DEF Executed
  <1>5. CASE Refused(s, schema)
    <2>1. schema' = schema
      BY <1>1, <1>5 DEF Execute, Statements
    <2> HIDE DEF s
    <2> QED BY <2>1, <1>2, <1>4, <1>5, KeptWithout
  <1>6. CASE ~Refused(s, schema) /\ Skipped(s, schema)
    <2>1. schema' = schema
      BY <1>1, <1>6 DEF Execute, Statements, Effect
    <2>2. s.made \cap schema # {} \/ s.made = {}
      <3>1. (s.op # "drop" => s.object \in s.made) /\ (s.op = "drop" => s.made = {})
        BY <1>1, MadeWhole
      <3> HIDE DEF s
      <3> QED BY <1>6, <3>1 DEF Skipped
    <2> QED BY <2>1, <2>2, <1>2, <1>4, KeptWithout
  <1>7. CASE ~Refused(s, schema) /\ ~Skipped(s, schema)
    <2>1. schema' = (schema \ s.gone) \cup s.made
      BY <1>1, <1>7 DEF Execute, Statements, Effect
    <2>2. Ran(v, k)'
      <3>1. caller' = [caller EXCEPT ![p].step = @ + 1]
        BY <1>1, <1>7 DEF Execute, Statements
      <3>2. caller'[p].pc = "apply" /\ caller'[p].at = v /\ caller'[p].step = k + 1
        BY <3>1, <1>1 DEF Caller
      <3> QED BY <3>2, <1>1 DEF Ran
    <2>7. ASSUME NEW w \in 1 .. Top, NEW j \in 1 .. Len(Migrations[w]),
                 NEW x, x \in Migrations[w][j].made, x \in schema', ~(w = v /\ j = k)
          PROVE  x \in schema
      <3>1. x \in Migrations[w][j].made /\ x \in Migrations[v][k].made => w = v /\ j = k
        BY <1>1, MadeByOne
      <3>2. x \notin s.made
        BY <3>1, <2>7
      <3> QED BY <3>2, <2>7, <2>1
    <2>8. NothingAhead'
      <3> SUFFICES ASSUME NEW w \in 1 .. Top, NEW j \in 1 .. Len(Migrations[w]),
                          NEW x, x \in Migrations[w][j].made, x \in schema'
                   PROVE  Ran(w, j)'
        BY DEF NothingAhead, Top
      <3>1. CASE w = v /\ j = k
        BY <3>1, <2>2
      <3>2. CASE ~(w = v /\ j = k)
        <4>1. x \in schema
          BY <3>2, <2>7
        <4>2. Ran(w, j)
          BY <4>1 DEF NothingAhead
        <4> QED BY <4>2, <1>2, RanStays
      <3> QED BY <3>1, <3>2
    <2> SUFFICES ASSUME NEW w \in 1 .. Top, NEW j \in 1 .. Len(Migrations[w]),
                        Executed(w, j)' \/ Migrations[w][j].made \cap schema' # {},
                        NEW o \in Migrations[w][j].made, o \notin schema'
                 PROVE  TakenLater(w, j, o)'
      BY <2>8 DEF AllKept, Kept, Top
    <2>3. ~(w = v /\ j = k)
      BY <2>1
    <2>4. Executed(w, j) \/ Migrations[w][j].made \cap schema # {}
      <3>1. CASE Executed(w, j)'
        BY <3>1, <2>3, <1>4
      <3>2. CASE Migrations[w][j].made \cap schema' # {}
        BY <3>2, <2>3, <2>7
      <3> QED BY <3>1, <3>2
    <2>5. CASE o \notin schema
      <3>1. TakenLater(w, j, o)
        BY <2>4, <2>5 DEF AllKept, Kept
      <3> QED BY <3>1, <1>2, LaterStaysLater
    <2>6. CASE o \in schema
      <3>1. o \in Migrations[v][k].gone
        BY <2>6, <2>1
      <3>2. Earlier(<<w, j>>, <<v, k>>)
        BY <3>1, <1>1, MadeOnce
      <3> QED BY <3>1, <3>2, <2>2, <1>1 DEF TakenLater, Top
    <2> QED BY <2>5, <2>6
  <1> QED BY <1>5, <1>6, <1>7

LEMMA KeptNext ==
    ASSUME IInv, Passed, CutIsNext, Lone, AllKept, NothingAhead, [Next]_vars
    PROVE  AllKept' /\ NothingAhead'
  <1>1. CASE UNCHANGED vars
    <2>1. \A v \in 1 .. Top : \A k \in 1 .. Len(Migrations[v]) :
             Executed(v, k)' => Executed(v, k)
      BY <1>1 DEF vars, Executed
    <2>2. schema' = schema
      BY <1>1 DEF vars
    <2> QED BY <2>1, <2>2, KeptWithout
  <1>2. ASSUME NEW p \in Callers, Begin(p) PROVE AllKept' /\ NothingAhead'
    <2>1. ASSUME NEW w \in 1 .. Top, NEW j \in 1 .. Len(Migrations[w]), Executed(w, j)'
          PROVE  Executed(w, j)
      <3>1. j \in Int /\ j >= 1
        BY MigrationConstants
      <3>2. /\ recorded' = recorded /\ caller'[p].step = 1
            /\ \A q \in Callers \ {p} :
                 /\ caller'[q].pc = caller[q].pc /\ caller'[q].at = caller[q].at
                 /\ caller'[q].step = caller[q].step
        BY <1>2, BeginStays
      <3> QED BY <2>1, <3>1, <3>2 DEF Executed
    <2>2. schema' = schema
      BY <1>2 DEF Begin
    <2> QED BY <2>1, <2>2, KeptWithout
  <1>3. ASSUME NEW p \in Callers, Record(p) \/ Finish(p) \/ Stop(p)
        PROVE  AllKept' /\ NothingAhead'
    <2>1. schema' = schema
      BY <1>3 DEF Record, Finish, Stop
    <2>2. \A q \in Callers \ {p} : caller'[q] = caller[q]
      BY <1>3 DEF Record, Finish, Stop, Raised, IInv, TypeOK
    <2>3. ASSUME NEW w \in 1 .. Top, NEW j \in 1 .. Len(Migrations[w]), Executed(w, j)'
          PROVE  Executed(w, j)
      <3>1. /\ caller[p] \in Caller /\ caller[p].pc = "apply" /\ p \in DOMAIN caller
            /\ j \in Int /\ j >= 1
        BY <1>3, MigrationConstants DEF Record, Finish, Stop, Pending, IInv, TypeOK
      <3>2. CASE w \in recorded
        BY <3>2 DEF Executed
      <3>3. CASE w \in recorded' \ recorded
        <4>1. w = caller[p].at /\ caller[p].step > Len(Migrations[w])
          BY <1>3, <3>3 DEF Record, Finish, Stop, Statements
        <4>2. caller[p].step > j
          BY <4>1, <3>1, MigrationConstants DEF Caller
        <4> QED BY <3>1, <4>1, <4>2 DEF Executed
      <3>4. ASSUME NEW q \in Callers, caller'[q].pc = "apply", caller'[q].at = w,
                   caller'[q].step > j
            PROVE  Executed(w, j)
        <4>1. CASE q # p
          BY <4>1, <3>4, <2>2 DEF Executed
        <4>2. CASE q = p
          <5>1. CASE Record(p)
            <6>1. caller'[p].pc = "raised" \/ caller'[p].step = 1
              BY <5>1, <3>1 DEF Record, Raised, Caller
            <6> QED BY <6>1, <4>2, <3>4, <3>1
          <5>2. CASE Finish(p)
            BY <5>2, <4>2, <3>4, <3>1 DEF Finish, Caller
          <5>3. CASE Stop(p)
            BY <5>3, <4>2, <3>4, <3>1 DEF Stop, Caller
          <5> QED BY <1>3, <5>1, <5>2, <5>3
        <4> QED BY <4>1, <4>2
      <3> QED BY <2>3, <3>2, <3>3, <3>4 DEF Executed
    <2> QED BY <2>1, <2>3, KeptWithout
  <1> QED BY <1>1, <1>2, <1>3, ExecuteKept DEF Next

LEMMA CutNext ==
    ASSUME IInv, Passed, CutIsNext, [Next]_vars
    PROVE  CutIsNext'
  <1>1. CASE UNCHANGED vars
    BY <1>1 DEF vars, CutIsNext
  <1>2. ASSUME NEW p \in Callers, Begin(p) PROVE CutIsNext'
    BY <1>2, BeginStays DEF CutIsNext
  <1>3. ASSUME NEW p \in Callers, Execute(p) \/ Record(p) \/ Finish(p) \/ Stop(p)
        PROVE  CutIsNext'
    <2>1. recorded \subseteq recorded' /\ caller[p].pc = "apply"
      BY <1>3, OthersStay
    <2>2. \A v \in cut' : v \in cut \/ v = caller[p].at
      BY <1>3 DEF Execute, Record, Finish, Stop
    <2>3. 1 .. caller[p].at - 1 \subseteq recorded
      BY <2>1 DEF Passed
    <2> QED BY <2>1, <2>2, <2>3 DEF CutIsNext
  <1> QED BY <1>1, <1>2, <1>3 DEF Next

LEMMA LoneNext ==
    ASSUME IInv, Passed, Lone, [Next]_vars
    PROVE  Lone'
  <1>1. CASE UNCHANGED vars
    BY <1>1 DEF vars, Lone, AtWork
  <1>2. ASSUME NEW p \in Callers, Begin(p) PROVE Lone'
    <2>1. PICK m \in 0 .. Top : recorded = 1 .. m
      BY DEF IInv, Prefix
    <2>2. Version = m /\ m \in Nat
      BY <2>1, VersionOfPrefix, MigrationConstants
    <2>3. Version + 1 \notin recorded
      BY <2>1, <2>2
    <2> SUFFICES ASSUME NEW q \in AtWork'
                 PROVE  /\ caller'[q].at > release' => caller'[q].step = 1
                        /\ caller'[q].alone => AtWork' = {q} /\ caller'[q].at \notin recorded'
      BY DEF Lone
    <2>4. CASE q = p
      <3>1. caller'[q].step = 1 /\ caller'[q].at \notin recorded'
        <4>1. /\ caller'[p].step = 1 /\ caller'[p].at = Version + 1
              /\ recorded' = recorded
          BY <1>2, BeginStays
        <4> QED BY <4>1, <2>3, <2>4
      <3>2. ASSUME caller'[q].alone PROVE AtWork' = {q}
        <4>1. AtWork = {}
          BY <1>2, <2>4, <3>2, BeginStays
        <4>2. \A r \in Callers \ {p} : caller'[r].pc = caller[r].pc
          BY <1>2, BeginStays
        <4>3. \A r \in Callers \ {p} : r \notin AtWork'
          BY <4>1, <4>2 DEF AtWork
        <4> QED BY <4>3, <2>4 DEF AtWork
      <3> QED BY <3>1, <3>2
    <2>5. CASE q # p
      <3>1. q \in AtWork /\ q \in Callers
        BY <1>2, <2>5, BeginStays DEF AtWork
      <3>2. caller'[q].alone = FALSE
        BY <1>2, <2>5, <3>1, BeginStays
      <3>3. caller[q].at > release => caller[q].step = 1
        BY <3>1 DEF Lone
      <3> QED BY <1>2, <2>5, <3>1, <3>2, <3>3, BeginStays
    <2> QED BY <2>4, <2>5
  <1>3. ASSUME NEW p \in Callers, Execute(p) \/ Record(p) \/ Finish(p) \/ Stop(p)
        PROVE  Lone'
    <2>1. /\ caller[p] \in Caller /\ caller[p].pc = "apply" /\ p \in DOMAIN caller
          /\ \A q \in Callers \ {p} : caller'[q] = caller[q]
          /\ release' = release
      BY <1>3, OthersStay
    <2>2. p \in AtWork /\ AtWork' \subseteq AtWork
      BY <2>1 DEF AtWork
    <2> SUFFICES ASSUME NEW q \in AtWork'
                 PROVE  /\ caller'[q].at > release' => caller'[q].step = 1
                        /\ caller'[q].alone => AtWork' = {q} /\ caller'[q].at \notin recorded'
      BY DEF Lone
    <2>3. CASE q # p
      <3>1. q \in AtWork /\ q \in Callers /\ caller'[q] = caller[q]
        BY <2>1, <2>2, <2>3 DEF AtWork
      <3>2. ~caller[q].alone
        BY <2>2, <2>3, <3>1 DEF Lone
      <3> QED BY <2>1, <3>1, <3>2 DEF Lone
    <2>4. CASE q = p
      <3>1. caller'[p].pc = "apply"
        BY <2>4 DEF AtWork
      <3>2. /\ caller[p].at > release => caller[p].step = 1
            /\ caller[p].alone => AtWork = {p} /\ caller[p].at \notin recorded
        BY <2>2 DEF Lone
      <3>3. CASE Execute(p)
        <4>1. /\ caller'[p].at = caller[p].at /\ caller'[p].alone = caller[p].alone
              /\ caller[p].at <= release /\ recorded' = recorded
          BY <2>1, <3>1, <3>3 DEF Execute, Raised, Caller, Pending
        <4>2. ~(caller[p].at > release)
          BY <4>1, MigrationConstants DEF IInv, TypeOK, Caller
        <4> QED BY <2>1, <2>2, <2>4, <3>2, <4>1, <4>2
      <3>4. CASE Record(p)
        <4>1. /\ caller[p].at \notin recorded /\ recorded' = recorded \cup {caller[p].at}
              /\ caller' = [caller EXCEPT ![p].at = @ + 1, ![p].step = 1]
          BY <2>1, <3>1, <3>4 DEF Record, Raised, Caller
        <4>2. /\ caller'[p].at = caller[p].at + 1 /\ caller'[p].step = 1
              /\ caller'[p].alone = caller[p].alone
          BY <2>1, <4>1 DEF Caller
        <4>3. PICK m \in 0 .. Top : recorded = 1 .. m
          BY DEF IInv, Prefix
        <4>4. m \in Nat /\ caller[p].at \in Nat /\ caller[p].at >= 1
          BY <2>1, MigrationConstants DEF Caller
        <4>5. caller[p].at + 1 \notin recorded'
          BY <4>1, <4>3, <4>4
        <4> QED BY <2>2, <2>4, <3>2, <4>2, <4>5
      <3>5. CASE Finish(p)
        BY <2>1, <3>1, <3>5 DEF Finish, Caller
      <3>6. CASE Stop(p)
        BY <2>1, <3>1, <3>6 DEF Stop, Caller
      <3> QED BY <1>3, <3>3, <3>4, <3>5, <3>6
    <2> QED BY <2>3, <2>4
  <1> QED BY <1>1, <1>2, <1>3 DEF Next

(* A caller that was alone is the one that is furthest.                    *)
LEMMA CauseNext ==
    ASSUME KInv, [Next]_vars
    PROVE  RaisesForCause'
  <1>0. /\ IInv /\ Passed /\ CutIsNext /\ Lone /\ AllKept /\ NothingAhead
        /\ RaisesForCause
    BY DEF KInv
  <1>1. CASE UNCHANGED vars
    BY <1>0, <1>1 DEF vars, RaisesForCause
  <1>2. ASSUME NEW p \in Callers, Begin(p) PROVE RaisesForCause'
    <2> SUFFICES ASSUME NEW q \in Callers, caller'[q].pc = "raised", caller'[q].alone
                 PROVE  caller'[q].at \in cut' /\ ~Repeatable(caller'[q].at)
      BY DEF RaisesForCause, Repeatable
    <2>1. q # p
      BY <1>0, <1>2, BeginStays
    <2>2. q \notin AtWork /\ caller'[q] = caller[q] /\ cut' = cut
      BY <1>0, <1>2, <2>1, BeginStays DEF AtWork
    <2> QED BY <1>0, <2>2 DEF RaisesForCause
  <1>3. ASSUME NEW p \in Callers, Execute(p) \/ Record(p) \/ Finish(p) \/ Stop(p)
        PROVE  RaisesForCause'
    <2>1. /\ caller[p] \in Caller /\ caller[p].pc = "apply" /\ p \in DOMAIN caller
          /\ \A q \in Callers \ {p} : caller'[q] = caller[q]
          /\ cut \subseteq cut' /\ p \in AtWork
      BY <1>0, <1>3, OthersStay DEF AtWork
    <2> SUFFICES ASSUME NEW q \in Callers, caller'[q].pc = "raised", caller'[q].alone
                 PROVE  caller'[q].at \in cut' /\ ~Repeatable(caller'[q].at)
      BY DEF RaisesForCause, Repeatable
    <2>2. CASE q # p
      BY <1>0, <2>1, <2>2 DEF RaisesForCause
    <2>3. CASE q = p
      <3>1. CASE Execute(p)
        <4>1. PICK v \in 1 .. Top, k \in 1 .. Len(Migrations[caller[p].at]) :
                 v = caller[p].at /\ k = caller[p].step
          BY <1>0, <3>1, MigrationConstants
          DEF IInv, TypeOK, Caller, Execute, Pending, Statements
        <4>2. Refused(Migrations[v][k], schema)
          BY <2>1, <2>3, <3>1, <4>1 DEF Execute, Statements, Caller
        <4>3. caller'[p].at = v /\ caller'[p].alone = caller[p].alone
          BY <2>1, <3>1, <4>1, <4>2 DEF Execute, Statements, Raised, Caller
        <4>4. AtWork = {p} /\ v \notin recorded
          BY <1>0, <2>1, <2>3, <4>1, <4>3 DEF Lone
        <4>5. k \in 1 .. Len(Migrations[v])
          BY <4>1
        <4>6. \A r \in Callers : caller[r].pc = "apply" /\ caller[r].at = v
                                 => caller[r].step <= k
          BY <4>1, <4>4, <4>5, MigrationConstants DEF AtWork
        <4>7. ~Repeatable(v) /\ v \in cut
          BY <1>0, <2>1, <4>1, <4>2, <4>4, <4>5, <4>6, NotRefused
        <4> QED BY <2>1, <2>3, <4>3, <4>7
      <3>2. CASE Record(p)
        <4>1. caller[p].at \in recorded /\ caller'[p].alone = caller[p].alone
          BY <2>1, <2>3, <3>2 DEF Record, Raised, Caller
        <4> QED BY <1>0, <2>1, <2>3, <4>1 DEF Lone
      <3>3. CASE Finish(p)
        BY <2>1, <2>3, <3>3 DEF Finish, Caller
      <3>4. CASE Stop(p)
        BY <2>1, <2>3, <3>4 DEF Stop, Caller
      <3> QED BY <1>3, <3>1, <3>2, <3>3, <3>4
    <2> QED BY <2>2, <2>3
  <1> QED BY <1>1, <1>2, <1>3 DEF Next

LEMMA AlwaysKInv == Spec => []KInv
  <1>1. KInv /\ [Next]_vars => KInv'
    <2> SUFFICES ASSUME KInv, [Next]_vars PROVE KInv'
      OBVIOUS
    <2>1. IInv'
      BY StepIInv DEF KInv
    <2>2. Passed'
      BY PassedNext DEF KInv
    <2>3. CutIsNext'
      BY CutNext DEF KInv
    <2>4. Lone'
      BY LoneNext DEF KInv
    <2>5. AllKept' /\ NothingAhead'
      BY KeptNext DEF KInv
    <2> QED BY <2>1, <2>2, <2>3, <2>4, <2>5, CauseNext DEF KInv
  <1> QED BY <1>1, InitKept, PTL DEF Spec

(* Whatever is recorded is in the file, or was renamed or dropped by a     *)
(* later migration that is recorded or begun: also when a slow caller      *)
(* executes again what a fast one did long ago, and wherever callers are   *)
(* stopped.                                                                *)
THEOREM RecordedIsThere == Spec => []RecordedIsApplied
  <1>1. IInv => NoGaps
    <2> SUFFICES ASSUME IInv PROVE NoGaps
      OBVIOUS
    <2>1. PICK m \in 0 .. Top : recorded = 1 .. m
      BY DEF IInv, Prefix
    <2>2. m \in Int /\ Cardinality(1 .. m) = m
      BY FS_Interval, MigrationConstants
    <2> QED BY <2>1, <2>2 DEF NoGaps
  <1>2. KInv => RecordedIsApplied
    <2> SUFFICES ASSUME KInv, NEW v \in recorded, NEW k \in 1 .. Len(Migrations[v]),
                        NEW o \in Migrations[v][k].made \ schema
                 PROVE  \E w \in {u \in v .. Top : u \in recorded \/ Begun(u)} :
                          \E j \in 1 .. Len(Migrations[w]) :
                            Earlier(<<v, k>>, <<w, j>>) /\ o \in Migrations[w][j].gone
      BY <1>1 DEF KInv, RecordedIsApplied
    <2>1. v \in 1 .. Top /\ Executed(v, k)
      BY DEF KInv, IInv, TypeOK, Executed
    <2>2. TakenLater(v, k, o)
      BY <2>1 DEF KInv, AllKept, Kept
    <2>3. PICK w \in 1 .. Top : \E j \in 1 .. Len(Migrations[w]) :
             Ran(w, j) /\ Earlier(<<v, k>>, <<w, j>>) /\ o \in Migrations[w][j].gone
      BY <2>2 DEF TakenLater
    <2>4. w >= v
      BY <2>1, <2>3, MigrationConstants DEF Earlier
    <2>5. w \in v .. Top
      BY <2>1, <2>4, MigrationConstants
    <2>6. w \in recorded \/ Begun(w)
      BY <2>3 DEF Ran, Begun
    <2> QED BY <2>3, <2>5, <2>6
  <1> QED BY <1>2, AlwaysKInv, PTL

(* A call that nobody disturbs raises only at a migration that cannot be   *)
(* repeated and in which an earlier call was stopped, however many callers *)
(* have been stopped or have disturbed one another before it.              *)
THEOREM NoRaiseWithoutCause == Spec => []RaisesForCause
  <1>1. KInv => RaisesForCause BY DEF KInv
  <1> QED BY <1>1, AlwaysKInv, PTL
=============================================================================
