---------------------------- MODULE DbMigrations ----------------------------
(***************************************************************************)
(* apply_migrations, called for one database file by every start of a      *)
(* server or a script and again by every analysis, in several threads and  *)
(* processes.  sqlite3 opens no transaction for a schema statement, so     *)
(* each is committed by itself; the version row of a migration, with the   *)
(* rows it changes, is committed last.                                     *)
(***************************************************************************)
EXTENDS Naturals, Sequences, FiniteSets

CONSTANTS
    Migrations,   \* sequences of schema statements (SchemaMigrations)
    Callers,      \* threads and processes
    Bases,        \* bound: versions that a file may start from
    Ahead,        \* bound: migrations of a release that the database lacks
    MaxCalls,     \* bound
    MaxStops      \* bound

Top == Len(Migrations)

ASSUME MigrationConstants ==
    /\ Top \in Nat /\ \A v \in 1 .. Top : Len(Migrations[v]) \in Nat
    /\ Bases \subseteq 0 .. Top /\ Ahead \in Nat /\ MaxCalls \in Nat /\ MaxStops \in Nat

-----------------------------------------------------------------------------
(* One statement.                                                          *)

(* IF NOT EXISTS, IF EXISTS                                                *)
Skipped(s, schema) ==
    \/ s.op = "create" /\ s.object \in schema /\ s.on \subseteq schema
    \/ s.op = "drop" /\ s.object \notin schema

Refused(s, schema) ==
    /\ ~Skipped(s, schema)
    /\ ~(s.needs \subseteq schema) \/ (s.op # "drop" /\ s.object \in schema)

Effect(s, schema) ==
    IF Skipped(s, schema) THEN schema ELSE (schema \ s.gone) \cup s.made

Earlier(q, r) == q[1] < r[1] \/ (q[1] = r[1] /\ q[2] < r[2])

(* The schema when the first v migrations have been executed once, in      *)
(* order: what each statement made and no later one has taken away.        *)
Taken(v, q) ==
    UNION {UNION {Migrations[w][k].gone : k \in {j \in 1 .. Len(Migrations[w]) :
                                                  Earlier(q, <<w, j>>)}} : w \in 1 .. v}

MadeBy(v) ==
    UNION {UNION {Migrations[w][k].made \ Taken(v, <<w, k>>) :
                    k \in 1 .. Len(Migrations[w])} : w \in 1 .. v}

Repeatable(v) ==
    \A k \in 1 .. Len(Migrations[v]) : Migrations[v][k].op \in {"create", "drop"}

(* No statement makes what another one makes too, or what an earlier one   *)
(* has taken away: IF NOT EXISTS finds the work of the same statement, and *)
(* a slow caller takes away nothing that a later migration has made.       *)
ASSUME MigrationsMakeOnce ==
    \A v \in 1 .. Top : \A k \in 1 .. Len(Migrations[v]) :
      /\ Migrations[v][k].op # "drop" => Migrations[v][k].object \in Migrations[v][k].made
      /\ Migrations[v][k].op = "drop" => Migrations[v][k].made = {}
      /\ \A w \in 1 .. Top : \A j \in 1 .. Len(Migrations[w]) :
           /\ Migrations[v][k].made \cap Migrations[w][j].made # {} => v = w /\ k = j
           /\ Migrations[v][k].made \cap Migrations[w][j].gone # {} =>
                Earlier(<<v, k>>, <<w, j>>)

(* What a statement needs is made by an earlier one, and is not taken away *)
(* before it, nor by its own migration if that can be repeated.            *)
ASSUME MigrationsFollow ==
    \A v \in 1 .. Top : \A k \in 1 .. Len(Migrations[v]) :
      \A o \in Migrations[v][k].needs \cup Migrations[v][k].on :
        /\ \E w \in 1 .. Top : \E j \in 1 .. Len(Migrations[w]) :
             Earlier(<<w, j>>, <<v, k>>) /\ o \in Migrations[w][j].made
        /\ \A w \in 1 .. Top : \A j \in 1 .. Len(Migrations[w]) :
             o \in Migrations[w][j].gone =>
               ~Earlier(<<w, j>>, <<v, k>>) /\ (Repeatable(v) => w # v)

-----------------------------------------------------------------------------
VARIABLES
    schema,        \* tables, columns and indices of the file
    recorded,      \* the rows of schema_versions
    release,       \* the migrations that the running release knows
    caller,        \* each caller and its local variables
    cut,           \* history: migrations that were stopped half way
    calls, stops

vars == <<schema, recorded, release, caller, cut, calls, stops>>

(* at: the migration; step: its statement; alone: no other caller has been *)
(* at work at the same time.                                               *)
Caller == [pc : {"idle", "apply", "done", "raised", "stopped"}, at : 1 .. Top + 1,
           step : Nat \ {0}, alone : BOOLEAN]

(* SELECT MAX(version)                                                     *)
Version == IF recorded = {} THEN 0
           ELSE CHOOSE v \in recorded : \A w \in recorded : w <= v

(* A file of some earlier release, or no file.                             *)
Init ==
    \E v \in Bases :
      /\ schema = MadeBy(v) /\ recorded = 1 .. v
      /\ release = IF v + Ahead <= Top THEN v + Ahead ELSE Top
      /\ caller = [p \in Callers |-> [pc |-> "idle", at |-> 1, step |-> 1, alone |-> TRUE]]
      /\ cut = {} /\ calls = 0 /\ stops = 0

AtWork == {p \in Callers : caller[p].pc = "apply"}

(* Defect: the recorded version is not asked for.                          *)
BeginAgain(p) ==
    /\ p \notin AtWork /\ calls < MaxCalls
    /\ calls' = calls + 1
    /\ caller' = [q \in Callers |->
         IF q = p THEN [pc |-> "apply", at |-> 1, step |-> 1, alone |-> AtWork = {}]
         ELSE IF q \in AtWork THEN [caller[q] EXCEPT !.alone = FALSE] ELSE caller[q]]
    /\ UNCHANGED <<schema, recorded, release, cut, stops>>

(* The call, up to the query of the version.                               *)
Begin(p) ==
    /\ p \notin AtWork /\ calls < MaxCalls
    /\ calls' = calls + 1
    /\ caller' = [q \in Callers |->
         IF q = p THEN [pc |-> "apply", at |-> Version + 1, step |-> 1,
                        alone |-> AtWork = {}]
         ELSE IF q \in AtWork THEN [caller[q] EXCEPT !.alone = FALSE] ELSE caller[q]]
    /\ UNCHANGED <<schema, recorded, release, cut, stops>>

Pending(p) == caller[p].pc = "apply" /\ caller[p].at <= release

Statements(p) == Migrations[caller[p].at]

Raised(p) == caller' = [caller EXCEPT ![p].pc = "raised"]

(* conn.execute(statement)                                                 *)
Execute(p) ==
    /\ Pending(p) /\ caller[p].step <= Len(Statements(p))
    /\ LET s == Statements(p)[caller[p].step]
       IN IF Refused(s, schema) THEN Raised(p) /\ UNCHANGED schema
          ELSE /\ schema' = Effect(s, schema)
               /\ caller' = [caller EXCEPT ![p].step = @ + 1]
    /\ UNCHANGED <<recorded, release, cut, calls, stops>>

(* Defect: the version is recorded before the statements are executed.     *)
RecordEarly(p) ==
    /\ Pending(p) /\ caller[p].step = 1
    /\ IF caller[p].at \in recorded THEN Raised(p) /\ UNCHANGED recorded
       ELSE /\ recorded' = recorded \cup {caller[p].at}
            /\ caller' = [caller EXCEPT ![p].at = @ + 1, ![p].step = 1]
    /\ UNCHANGED <<schema, release, cut, calls, stops>>

(* The rows a migration changes, and its version: one transaction.  A      *)
(* version that another caller has recorded breaks the primary key.        *)
Record(p) ==
    /\ Pending(p) /\ caller[p].step > Len(Statements(p))
    /\ IF caller[p].at \in recorded THEN Raised(p) /\ UNCHANGED recorded
       ELSE /\ recorded' = recorded \cup {caller[p].at}
            /\ caller' = [caller EXCEPT ![p].at = @ + 1, ![p].step = 1]
    /\ UNCHANGED <<schema, release, cut, calls, stops>>

(* Defect: the last migration is left out.                                 *)
FinishEarly(p) ==
    /\ caller[p].pc = "apply" /\ caller[p].at >= release
    /\ caller' = [caller EXCEPT ![p].pc = "done"]
    /\ UNCHANGED <<schema, recorded, release, cut, calls, stops>>

Finish(p) ==
    /\ caller[p].pc = "apply" /\ caller[p].at > release
    /\ caller' = [caller EXCEPT ![p].pc = "done"]
    /\ UNCHANGED <<schema, recorded, release, cut, calls, stops>>

(* The process ends, or a statement raises for another reason: the file is *)
(* locked for too long, the disk is full.                                  *)
Stop(p) ==
    /\ Pending(p) /\ stops < MaxStops
    /\ stops' = stops + 1
    /\ caller' = [caller EXCEPT ![p].pc = "stopped"]
    /\ cut' = IF caller[p].step > 1 THEN cut \cup {caller[p].at} ELSE cut
    /\ UNCHANGED <<schema, recorded, release, calls>>

Next == \E p \in Callers : Begin(p) \/ Execute(p) \/ Record(p) \/ Finish(p) \/ Stop(p)

Spec == Init /\ [][Next]_vars

-----------------------------------------------------------------------------
Parts == UNION {UNION {Migrations[v][k].made : k \in 1 .. Len(Migrations[v])} : v \in 1 .. Top}

TypeOK ==
    /\ schema \subseteq Parts
    /\ recorded \subseteq 1 .. Top /\ release \in 0 .. Top
    /\ caller \in [Callers -> Caller]
    /\ cut \subseteq 1 .. Top /\ calls \in 0 .. MaxCalls /\ stops \in 0 .. MaxStops

Begun(v) == v \in cut \/ \E p \in Callers : caller[p].pc # "idle" /\ caller[p].at = v

NoGaps == recorded = 1 .. Cardinality(recorded)

(* The recorded versions have no gap, and all that their migrations make   *)
(* is in the file, but for what a later one has renamed or begun to rename: *)
(* whoever made it, whoever was stopped half way, and also when a slow     *)
(* caller repeats what a fast one did long ago.                            *)
RecordedIsApplied ==
    /\ NoGaps
    /\ \A v \in recorded : \A k \in 1 .. Len(Migrations[v]) :
         \A o \in Migrations[v][k].made \ schema :
           \E w \in {u \in v .. Top : u \in recorded \/ Begun(u)} :
             \E j \in 1 .. Len(Migrations[w]) :
               Earlier(<<v, k>>, <<w, j>>) /\ o \in Migrations[w][j].gone

(* A call that returns leaves every migration of its release recorded.     *)
ReadyIsComplete ==
    \A p \in Callers : caller[p].pc = "done" => 1 .. release \subseteq recorded

(* A call raises only if another one was at work at the same time, or at a *)
(* migration that cannot be repeated and in which an earlier call was      *)
(* stopped: the next start repairs a stop at any other point.              *)
RaisesForCause ==
    \A p \in Callers :
      caller[p].pc = "raised" /\ caller[p].alone =>
        caller[p].at \in cut /\ ~Repeatable(caller[p].at)
=============================================================================
