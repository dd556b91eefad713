-------------------------- MODULE AnalysisWorkflow --------------------------
(***************************************************************************)
(* Analyses of one repository, one after another, that share an output     *)
(* directory, as analyses do by default (<repo>/output): the stages of the *)
(* three workflows, the capability calls of a stage in their bounded pool, *)
(* and the files a call writes or, when its file is there, reads instead   *)
(* of computing.  A step is one access to the directory or the sources.    *)
(* A call may raise, the process may stop and the sources may change at    *)
(* any point.                                                              *)
(***************************************************************************)
EXTENDS Integers, Sequences, FiniteSets

CONSTANTS
    Files,        \* the Python files of the repository
    NoFile,       \* the item of a call that is not about one file
    Sights,       \* bound: the files that each analysis in turn may see
    Requests,     \* bound: values of extractor_workers and ai_file_workers
    MaxUpsets     \* bound: stops, exceptions and edits together, in a history
                  \* with an analysis of the kind

Kind == {"base", "ai", "layered"}

ASSUME AnalysisConstants ==
    /\ IsFiniteSet(Files) /\ NoFile \notin Files
    /\ Sights \in Seq(SUBSET Files)
    /\ Requests \subseteq Int
    /\ MaxUpsets \in [Kind -> Nat]

-----------------------------------------------------------------------------
(* The workflows: stages one after the other, the calls of one stage in a  *)
(* pool.                                                                   *)

Base ==
    << {"scan"}, {"extract"}, {"inventory"}, {"relations"}, {"breakdowns"},
       {"enrich", "clusters"}, {"flows"}, {"dossier", "validate", "unknowns"} >>

Narration ==
    << {"context"}, {"explain"}, {"fileText"}, {"summarize"}, {"clusterText"},
       {"explainFlow"}, {"flowText"}, {"repoText"} >>

Meaning ==
    << {"abilities"}, {"actions"}, {"functions"},
       {"purpose", "behavior", "paths"}, {"modules"}, {"subsystems"},
       {"system"}, {"compose"} >>

Plan(k) ==
    CASE k = "base"    -> Base
      [] k = "ai"      -> Base \o Narration
      [] k = "layered" -> Base \o Meaning

(* What a call is given of the results of earlier ones.                    *)
BaseNeeds ==
    [relations  |-> {"inventory"},
     breakdowns |-> {"inventory", "relations"},
     enrich     |-> {"breakdowns"},
     clusters   |-> {"inventory", "relations"},
     flows      |-> {"inventory", "relations", "clusters"}]

ReportNeeds ==
    [dossier  |-> {"inventory", "relations", "breakdowns", "clusters", "flows"},
     validate |-> {"inventory", "relations", "breakdowns", "flows"},
     unknowns |-> {"inventory", "relations", "clusters", "flows", "enrich"}]

NarrationNeeds ==
    [context     |-> {"clusters", "flows"},
     explain     |-> {"enrich", "context"},
     fileText    |-> {},
     summarize   |-> {"clusters", "flows", "enrich"},
     clusterText |-> {},
     explainFlow |-> {"clusters", "flows"},
     flowText    |-> {},
     repoText    |-> {"dossier", "clusterText"}]

MeaningNeeds ==
    [abilities  |-> {"enrich", "relations"},
     actions    |-> {"abilities", "enrich"},
     functions  |-> {"actions", "enrich", "relations"},
     purpose    |-> {"abilities", "enrich", "functions"},
     behavior   |-> {"functions", "actions", "enrich"},
     paths      |-> {"actions", "flows", "enrich"},
     modules    |-> {"purpose", "behavior", "clusters"},
     subsystems |-> {"modules", "clusters"},
     system     |-> {"subsystems"},
     compose    |-> {"abilities", "actions", "functions", "purpose", "behavior",
                     "paths", "modules", "subsystems", "system"}]

Needs(cap) ==
    IF cap \in DOMAIN BaseNeeds THEN BaseNeeds[cap]
    ELSE IF cap \in DOMAIN ReportNeeds THEN ReportNeeds[cap]
    ELSE IF cap \in DOMAIN NarrationNeeds THEN NarrationNeeds[cap]
    ELSE IF cap \in DOMAIN MeaningNeeds THEN MeaningNeeds[cap]
    ELSE {}

(* A fan-out, and the call that puts its results together; a workflow goes *)
(* straight to the latter, with an empty list, when its file is there.     *)
Gathered == [extract |-> "inventory", explain |-> "fileText",
             summarize |-> "clusterText", explainFlow |-> "flowText"]
FanOut == DOMAIN Gathered

Caps == {"scan", "extract", "inventory"} \cup DOMAIN BaseNeeds \cup DOMAIN ReportNeeds
          \cup DOMAIN NarrationNeeds \cup DOMAIN MeaningNeeds

Stored == Caps \ (FanOut \cup {"scan", "context"})   \* has a file
Cached == Stored \ {"compose"}                       \* and reads it again

Products(k) == Stored \cap UNION {Plan(k)[i] : i \in DOMAIN Plan(k)}

(* bounded_worker_count *)
Least(a, b) == IF a <= b THEN a ELSE b

(* Defect: no lower bound.                                                 *)
WorkersUnbounded(requested, n) ==
    IF n = 0 THEN 0 ELSE Least(Least(IF requested = 0 THEN n ELSE requested, n), 8)

Workers(requested, n) ==
    LET most == Least(Least(IF requested = 0 THEN n ELSE requested, n), 8)
    IN IF n = 0 THEN 0 ELSE IF most < 1 THEN 1 ELSE most

-----------------------------------------------------------------------------
(* An inventory says which version of which files it was made from.  The   *)
(* value of any later result is the set of inventories that went into it.  *)
Versions  == UNION {0 .. MaxUpsets[k] : k \in Kind}
Inventory == SUBSET (Files \X Versions)
Value     == SUBSET Inventory

Absent  == [state |-> "absent", of |-> {}]
Empty   == [state |-> "empty",  of |-> {}]    \* opened, nothing written yet
Cut     == [state |-> "cut",    of |-> {}]    \* not a whole JSON text
Full(v) == [state |-> "full",   of |-> v]

Call == Caps \X (Files \cup {NoFile})
Pc   == {"todo", "load", "compute", "write", "view", "ok", "raised", "unreadable"}

VARIABLES
    version,       \* of the sources
    disk,          \* the JSON file of each capability that has one
    views,         \* those whose Markdown and details are there too
    run,           \* the analysis
    kinds,         \* history: of the analyses so far
    hurt,          \* history: files whose writer was interrupted
    upsets

vars == <<version, disk, views, run, kinds, hurt, upsets>>

(* at: the stage; width: threads of its pool; pc: its calls; val: results  *)
(* in memory.                                                              *)
NoRun == [state |-> "none", kind |-> "base", at |-> 0, width |-> 0,
          sees |-> {}, pc |-> <<>>, val |-> <<>>]

Init ==
    /\ version = 0
    /\ disk = [o \in Stored |-> Absent] /\ views = {}
    /\ run = NoRun
    /\ kinds = <<>> /\ hurt = {} /\ upsets = 0

Upset ==
    /\ kinds # <<>> /\ \A i \in DOMAIN kinds : upsets < MaxUpsets[kinds[i]]
    /\ upsets' = upsets + 1

(* Defect: the size of the file does not matter.                           *)
ReadyIfThere(f) == f.state # "absent"

(* ExistsAndNonEmptyCachePolicy.is_ready *)
Ready(f) == f.state \in {"cut", "full"}

-----------------------------------------------------------------------------
Running  == run.state = "running"
Over(c)  == run.pc[c] \in {"ok", "raised", "unreadable"}
Failed   == {c \in DOMAIN run.pc : run.pc[c] \in {"raised", "unreadable"}}
InFlight == {c \in DOMAIN run.pc : run.pc[c] # "todo" /\ ~Over(c)}

(* A handler submits an analysis and the run engine executes it.           *)
Submit(k) ==
    /\ ~Running /\ Len(kinds) < Len(Sights) /\ upsets <= MaxUpsets[k]
    /\ kinds' = Append(kinds, k)
    /\ run' = [NoRun EXCEPT !.state = "running", !.kind = k, !.sees = Sights[Len(kinds')]]
    /\ UNCHANGED <<version, disk, views, hurt, upsets>>

(* The files of the scan, or those the enriched breakdowns tell of.        *)
ItemsOf(cap) ==
    CASE cap = "extract" -> run.sees
      [] cap = "explain" -> {p[1] : p \in UNION run.val["enrich"]}
      [] OTHER -> {NoFile}

CallsOf(caps) == UNION {{cap} \X ItemsOf(cap) : cap \in caps}

Enter(i, requested) ==
    LET calls == CallsOf(Plan(run.kind)[i])
        asked == IF Plan(run.kind)[i] \subseteq {"extract", "explain"}
                 THEN requested ELSE Cardinality(calls)
    IN run' = [run EXCEPT !.at = i, !.width = Workers(asked, Cardinality(calls)),
                          !.pc = [c \in calls |-> "todo"]]

(* The stage a workflow goes to after stage i: past a fan-out when the     *)
(* file of what it would be gathered in is ready.                          *)
After(i) ==
    IF \E cap \in Plan(run.kind)[i + 1] : cap \in FanOut /\ Ready(disk[Gathered[cap]])
    THEN i + 2 ELSE i + 1

Proceed ==
    IF Failed # {} THEN run' = [run EXCEPT !.state = "error", !.val = <<>>]
    ELSE IF run.at = Len(Plan(run.kind)) THEN run' = [run EXCEPT !.state = "ok", !.pc = <<>>]
    ELSE \E n \in Requests : Enter(After(run.at), n)

(* invoke_parallel returns when every call of the stage is over, and       *)
(* raises if one of them raised.                                           *)
Advance ==
    /\ Running
    /\ \A c \in DOMAIN run.pc : Over(c)
    /\ Proceed
    /\ UNCHANGED <<version, disk, views, kinds, hurt, upsets>>

-----------------------------------------------------------------------------
(* One call, in a thread of the stage's pool.                              *)
Goto(c, p) == run' = [run EXCEPT !.pc[c] = p]

Result(c, v) ==
    run' = [run EXCEPT !.pc[c] = "ok",
              !.val = [d \in DOMAIN @ \cup {c[1]} |-> IF d = c[1] THEN v ELSE @[d]]]

(* Defect: the inventory is made anew each time.                           *)
BeginFresh(c) ==
    /\ run.pc[c] = "todo" /\ Cardinality(InFlight) < run.width
    /\ Goto(c, IF c[1] \in Cached \ {"inventory"} /\ Ready(disk[c[1]])
               THEN "load" ELSE "compute")
    /\ UNCHANGED <<version, disk, views, kinds, hurt, upsets>>

(* A thread takes a call up, and its handler looks for the file.           *)
Begin(c) ==
    /\ run.pc[c] = "todo" /\ Cardinality(InFlight) < run.width
    /\ Goto(c, IF c[1] \in Cached /\ Ready(disk[c[1]]) THEN "load" ELSE "compute")
    /\ UNCHANGED <<version, disk, views, kinds, hurt, upsets>>

Known(cap) == IF cap \in DOMAIN run.val THEN run.val[cap] ELSE {}

(* What a call makes of its inputs.                                        *)
Computed(c) ==
    CASE c[1] = "extract"   -> {(UNION Known("extract")) \cup {<<c[2], version>>}}
      [] c[1] = "inventory" -> {UNION Known("extract")}
      [] c[1] \in {"fileText", "clusterText", "flowText"} ->
           UNION {Known(d) : d \in {e \in FanOut : Gathered[e] = c[1]}}
      [] OTHER -> UNION {Known(d) : d \in Needs(c[1])}

(* A call without a file: scan, context and the members of a fan-out.      *)
Answer(c) ==
    /\ run.pc[c] = "compute" /\ c[1] \notin Stored
    /\ Result(c, Computed(c))
    /\ UNCHANGED <<version, disk, views, kinds, hurt, upsets>>

(* Defect: a text that cannot be read counts as an empty result.           *)
LoadLeniently(c) ==
    /\ run.pc[c] = "load"
    /\ Result(c, disk[c[1]].of)
    /\ UNCHANGED <<version, disk, views, kinds, hurt, upsets>>

(* load_cached_json_artifact: a text that is cut off raises.               *)
Load(c) ==
    /\ run.pc[c] = "load"
    /\ IF disk[c[1]].state = "full" THEN Result(c, disk[c[1]].of)
       ELSE Goto(c, "unreadable")
    /\ UNCHANGED <<version, disk, views, kinds, hurt, upsets>>

(* write_text truncates the file (compose writes its Markdown earlier), ...*)
Open(c) ==
    /\ run.pc[c] = "compute" /\ c[1] \in Stored
    /\ disk' = [disk EXCEPT ![c[1]] = Empty]
    /\ Goto(c, "write")
    /\ UNCHANGED <<version, views, kinds, hurt, upsets>>

(* ... may write it in several pieces, ...                                 *)
Spill(c) ==
    /\ run.pc[c] = "write" /\ disk[c[1]] = Empty
    /\ disk' = [disk EXCEPT ![c[1]] = Cut]
    /\ UNCHANGED <<version, views, run, kinds, hurt, upsets>>

(* ... and ends.                                                           *)
Finish(c) ==
    /\ run.pc[c] = "write"
    /\ disk' = [disk EXCEPT ![c[1]] = Full(Computed(c))]
    /\ Goto(c, "view")
    /\ UNCHANGED <<version, views, kinds, hurt, upsets>>

(* The Markdown and the files of details; then the artifact is recorded.   *)
View(c) ==
    /\ run.pc[c] = "view"
    /\ views' = views \cup {c[1]}
    /\ Result(c, Computed(c))
    /\ UNCHANGED <<version, disk, kinds, hurt, upsets>>

-----------------------------------------------------------------------------
Writing == {c \in DOMAIN run.pc : run.pc[c] \in {"write", "view"}}

(* A call raises: permission denied, no provider, disk full, a fault.      *)
Raise(c) ==
    /\ Running /\ ~Over(c) /\ Upset
    /\ Goto(c, "raised")
    /\ hurt' = hurt \cup {d[1] : d \in Writing \cap {c}}
    /\ UNCHANGED <<version, disk, views, kinds>>

(* Somebody edits the sources.                                             *)
Edit ==
    /\ Upset /\ version' = version + 1
    /\ UNCHANGED <<disk, views, run, kinds, hurt>>

(* The process stops in the middle of an analysis.                         *)
Stop ==
    /\ Running /\ Upset
    /\ run' = [run EXCEPT !.state = "lost", !.pc = <<>>, !.val = <<>>]
    /\ hurt' = hurt \cup {c[1] : c \in Writing}
    /\ UNCHANGED <<version, disk, views, kinds>>

RunStep ==
    \/ Advance
    \/ \E c \in DOMAIN run.pc :
         Begin(c) \/ Answer(c) \/ Load(c) \/ Open(c) \/ Spill(c) \/ Finish(c) \/ View(c)

Next ==
    \/ \E k \in Kind : Submit(k)
    \/ RunStep
    \/ \E c \in DOMAIN run.pc : Raise(c)
    \/ Edit \/ Stop

Spec == Init /\ [][Next]_vars

(* The threads of an analysis keep running.                                *)
FairSpec == Spec /\ WF_vars(RunStep)

-----------------------------------------------------------------------------
TypeOK ==
    /\ version \in Versions
    /\ disk \in [Stored -> [state : {"absent", "empty", "cut", "full"}, of : Value]]
    /\ views \subseteq Stored /\ hurt \subseteq Stored
    /\ run.state \in {"none", "running", "ok", "error", "lost"}
    /\ run.kind \in Kind /\ run.sees \subseteq Files
    /\ run.at \in 0 .. 16 /\ run.width \in 0 .. 8
    /\ DOMAIN run.pc \subseteq Call /\ DOMAIN run.val \subseteq Caps
    /\ \A c \in DOMAIN run.pc : run.pc[c] \in Pc
    /\ \A d \in DOMAIN run.val : run.val[d] \in Value
    /\ kinds \in Seq(Kind) /\ Len(kinds) <= Len(Sights)
    /\ upsets \in Versions

(* All results of an analysis that ends well are about one inventory, and  *)
(* a whole one: every file that it, or the earlier one whose inventory it  *)
(* took over, has seen, in one version each; whatever earlier analyses      *)
(* left behind, however they ended, and whenever the sources changed.      *)
Coherent ==
    run.state = "ok" =>
      \E S \in {Sights[i] : i \in DOMAIN kinds} :
        \E inv \in [S -> Versions] :
          \A o \in Products(run.kind) :
            run.val[o] = {{<<f, inv[f]>> : f \in S}}

(* ... and they are what the directory holds when it has ended, with their *)
(* Markdown, unless a writer was interrupted between the two.              *)
Delivered ==
    run.state = "ok" =>
      \A o \in Products(run.kind) :
        disk[o] = Full(run.val[o]) /\ o \in views \cup hurt

(* An analysis fails only if one of its own calls raises, or if a writer   *)
(* was interrupted in the middle of a text: a stop at any other point, the *)
(* moment after a file is opened included, does no harm to the analyses    *)
(* after it.                                                               *)
FailsForCause ==
    run.state = "error" =>
      \E c \in Failed :
        run.pc[c] = "raised" \/ (c[1] \in hurt /\ disk[c[1]] = Cut)

(* A whole result stays as it is: no analysis writes it again, whatever    *)
(* the analysis that made it came to.                                      *)
ResultsStay ==
    [][\A o \in Cached : disk[o].state = "full" => disk'[o] = disk[o]]_vars

(* An analysis that has ended has no thread left that writes: only calls   *)
(* of running analyses change files.                                       *)
NoLateWrite ==
    [][disk' # disk => Running]_vars

(* Every analysis ends, also with a pool size of zero or less asked for.   *)
EveryAnalysisEnds == Running ~> ~Running
=============================================================================
