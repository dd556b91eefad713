----------------------- MODULE AnalysisWorkflowProofs -----------------------
(* Proofs about AnalysisWorkflow, for every set of files, every pool size  *)
(* asked for, and any number of analyses, exceptions, edits and stops.     *)
EXTENDS AnalysisWorkflow, SequenceTheorems, TLAPS

-----------------------------------------------------------------------------
(* The inductive invariant.                                                *)

(* The analysis is a record, and its calls a function.                     *)
Shape ==
    /\ run = [state |-> run.state, kind |-> run.kind, at |-> run.at, width |-> run.width,
              sees |-> run.sees, pc |-> run.pc, val |-> run.val]
    /\ run.pc = [c \in DOMAIN run.pc |-> run.pc[c]]
    /\ disk = [o \in Stored |-> disk[o]]

(* A file has one writer among the calls of a stage.                       *)
OneWriter ==
    \A c, d \in DOMAIN run.pc : c[1] = d[1] /\ c[1] \in Stored => c = d

(* When an analysis is not running, its calls are over.                    *)
RestIsOver == ~Running => \A c \in DOMAIN run.pc : Over(c)

(* A call that computes does so because there is no whole result.          *)
NotThere(c) ==
    /\ run.pc[c] = "write" => c[1] \in Stored /\ disk[c[1]] \in {Empty, Cut}
    /\ run.pc[c] = "compute" /\ c[1] \in Cached => disk[c[1]].state # "full"

IInv == Shape /\ OneWriter /\ RestIsOver /\ \A c \in DOMAIN run.pc : NotThere(c)

-----------------------------------------------------------------------------
LEMMA NamesOfCalls ==
    /\ "extract" \notin Stored /\ "explain" \notin Stored /\ Cached \subseteq Stored
BY DEF Stored, Cached, FanOut, Gathered

LEMMA InitInv == Init => IInv
BY DEF Init, IInv, Shape, OneWriter, RestIsOver, NotThere, NoRun, Running, Over

(* A step of a call that is not over leaves the rest of the analysis as it *)
(* was, and p where the call stands.                                       *)
Moves(c, p) ==
    /\ run' = [state |-> run.state, kind |-> run.kind, at |-> run.at,
               width |-> run.width, sees |-> run.sees,
               pc |-> [run.pc EXCEPT ![c] = p], val |-> run'.val]

LEMMA GotoMoves ==
    ASSUME Shape, NEW c \in DOMAIN run.pc, NEW p, Goto(c, p)
    PROVE  Moves(c, p)
<1>1. run' = [state |-> run.state, kind |-> run.kind, at |-> run.at,
              width |-> run.width, sees |-> run.sees,
              pc |-> [run.pc EXCEPT ![c] = p], val |-> run.val]
    BY DEF Goto, Shape
<1> QED BY <1>1 DEF Moves

LEMMA ResultMoves ==
    ASSUME Shape, NEW c \in DOMAIN run.pc, NEW v, Result(c, v)
    PROVE  Moves(c, "ok")
<1> DEFINE w == [d \in DOMAIN run.val \cup {c[1]} |-> IF d = c[1] THEN v ELSE run.val[d]]
<1>1. run' = [run EXCEPT !.pc[c] = "ok", !.val = w]
    BY DEF Result
<1> HIDE DEF w
<1>2. run' = [state |-> run.state, kind |-> run.kind, at |-> run.at,
              width |-> run.width, sees |-> run.sees,
              pc |-> [run.pc EXCEPT ![c] = "ok"], val |-> w]
    BY <1>1 DEF Shape
<1> QED BY <1>2 DEF Moves

LEMMA Moved ==
    ASSUME Shape, NEW c \in DOMAIN run.pc, NEW p, Moves(c, p)
    PROVE  /\ run' = [state |-> run'.state, kind |-> run'.kind, at |-> run'.at,
                      width |-> run'.width, sees |-> run'.sees, pc |-> run'.pc,
                      val |-> run'.val]
           /\ run'.state = run.state /\ DOMAIN run'.pc = DOMAIN run.pc
           /\ run'.pc = [d \in DOMAIN run'.pc |-> run'.pc[d]]
           /\ run'.pc[c] = p
           /\ \A d \in DOMAIN run.pc : d # c => run'.pc[d] = run.pc[d]
<1>1. run'.pc = [run.pc EXCEPT ![c] = p] /\ run'.state = run.state
    BY DEF Moves
<1>2. run'.pc = [d \in DOMAIN run.pc |-> IF d = c THEN p ELSE run.pc[d]]
    BY <1>1 DEF Shape
<1>3. run' = [state |-> run'.state, kind |-> run'.kind, at |-> run'.at,
              width |-> run'.width, sees |-> run'.sees, pc |-> run'.pc,
              val |-> run'.val]
    BY DEF Moves
<1> QED BY <1>1, <1>2, <1>3

(* The files it may have written.                                          *)
Touches(c) ==
    /\ disk' = [o \in Stored |-> disk'[o]]
    /\ \A o \in Stored : o # c[1] => disk'[o] = disk[o]

LEMMA UntouchedTouches ==
    ASSUME Shape, NEW c, disk' = disk
    PROVE  Touches(c)
BY DEF Shape, Touches

LEMMA WriteTouches ==
    ASSUME Shape, NEW c, NEW f, c[1] \in Stored, disk' = [disk EXCEPT ![c[1]] = f]
    PROVE  Touches(c) /\ disk'[c[1]] = f
BY DEF Shape, Touches

LEMMA CallStep ==
    ASSUME IInv, NEW c \in DOMAIN run.pc, NEW p, ~Over(c), Moves(c, p), Touches(c),
           p = "write" => c[1] \in Stored /\ disk'[c[1]] \in {Empty, Cut},
           p = "compute" /\ c[1] \in Cached => disk'[c[1]].state # "full"
    PROVE  IInv'
<1>0. Shape BY DEF IInv
<1>1. Shape' BY <1>0, Moved DEF Shape, Touches
<1>a. DOMAIN run'.pc = DOMAIN run.pc /\ run'.state = run.state /\ run'.pc[c] = p
    BY <1>0, Moved
<1>b. \A d \in DOMAIN run.pc : d # c => run'.pc[d] = run.pc[d]
    BY <1>0, Moved
<1>2. OneWriter' BY <1>a DEF IInv, OneWriter
<1>3. Running /\ Running' BY <1>a DEF IInv, RestIsOver, Running
<1>4. RestIsOver' BY <1>3 DEF RestIsOver
<1>5. \A d \in DOMAIN run'.pc : NotThere(d)'
  <2>1. NotThere(c)' BY <1>a DEF NotThere
  <2>2. ASSUME NEW d \in DOMAIN run.pc, d # c PROVE NotThere(d)'
    <3>1. run'.pc[d] = run.pc[d] BY <1>b, <2>2
    <3>2. d[1] \in Stored => disk'[d[1]] = disk[d[1]]
        BY <2>2, NamesOfCalls DEF IInv, OneWriter, Touches
    <3>3. NotThere(d) BY DEF IInv
    <3> QED BY <3>1, <3>2, <3>3, NamesOfCalls DEF NotThere
  <2> QED BY <1>a, <2>1, <2>2
<1> QED BY <1>1, <1>2, <1>4, <1>5 DEF IInv

-----------------------------------------------------------------------------
(* The steps of a call.                                                    *)

LEMMA BeginInv ==
    ASSUME IInv, NEW c \in DOMAIN run.pc, Begin(c)
    PROVE  IInv'
<1>0. Shape BY DEF IInv
<1>1. ~Over(c) /\ disk' = disk BY DEF Begin, Over
<1>2. Touches(c) BY <1>0, <1>1, UntouchedTouches
<1>3. CASE Goto(c, "load")
  <2>1. Moves(c, "load") BY <1>0, <1>3, GotoMoves
  <2> QED BY <1>1, <1>2, <2>1, CallStep
<1>4. CASE Goto(c, "compute") /\ ~(c[1] \in Cached /\ Ready(disk[c[1]]))
  <2>1. Moves(c, "compute") BY <1>0, <1>4, GotoMoves
  <2>2. c[1] \in Cached => disk'[c[1]].state # "full" BY <1>1, <1>4 DEF Ready
  <2> QED BY <1>1, <1>2, <2>1, <2>2, CallStep
<1> QED BY <1>3, <1>4 DEF Begin

LEMMA AnswerInv ==
    ASSUME IInv, NEW c \in DOMAIN run.pc, Answer(c)
    PROVE  IInv'
<1>0. Shape BY DEF IInv
<1>1. ~Over(c) /\ disk' = disk /\ Result(c, Computed(c)) BY DEF Answer, Over
<1>2. Touches(c) BY <1>0, <1>1, UntouchedTouches
<1>3. Moves(c, "ok") BY <1>0, <1>1, ResultMoves
<1> QED BY <1>1, <1>2, <1>3, CallStep

LEMMA LoadInv ==
    ASSUME IInv, NEW c \in DOMAIN run.pc, Load(c)
    PROVE  IInv'
<1>0. Shape BY DEF IInv
<1>1. ~Over(c) /\ disk' = disk BY DEF Load, Over
<1>2. Touches(c) BY <1>0, <1>1, UntouchedTouches
<1>3. CASE Goto(c, "unreadable")
  <2>1. Moves(c, "unreadable") BY <1>0, <1>3, GotoMoves
  <2> QED BY <1>1, <1>2, <2>1, CallStep
<1>4. CASE Result(c, disk[c[1]].of)
  <2>1. Moves(c, "ok") BY <1>0, <1>4, ResultMoves
  <2> QED BY <1>1, <1>2, <2>1, CallStep
<1> QED BY <1>3, <1>4 DEF Load

LEMMA OpenInv ==
    ASSUME IInv, NEW c \in DOMAIN run.pc, Open(c)
    PROVE  IInv'
<1>0. Shape BY DEF IInv
<1>1. ~Over(c) /\ Goto(c, "write") /\ c[1] \in Stored BY DEF Open, Over
<1>2. Moves(c, "write") BY <1>0, <1>1, GotoMoves
<1>3. Touches(c) /\ disk'[c[1]] = Empty BY <1>0, WriteTouches DEF Open
<1> QED BY <1>1, <1>2, <1>3, CallStep

LEMMA FinishInv ==
    ASSUME IInv, NEW c \in DOMAIN run.pc, Finish(c)
    PROVE  IInv'
<1>0. Shape /\ c[1] \in Stored BY DEF IInv, NotThere, Finish
<1>1. ~Over(c) /\ Goto(c, "view") BY DEF Finish, Over
<1>2. Moves(c, "view") BY <1>0, <1>1, GotoMoves
<1>3. Touches(c) BY <1>0, WriteTouches DEF Finish
<1> QED BY <1>1, <1>2, <1>3, CallStep

LEMMA ViewInv ==
    ASSUME IInv, NEW c \in DOMAIN run.pc, View(c)
    PROVE  IInv'
<1>0. Shape BY DEF IInv
<1>1. ~Over(c) /\ disk' = disk /\ Result(c, Computed(c)) BY DEF View, Over
<1>2. Touches(c) BY <1>0, <1>1, UntouchedTouches
<1>3. Moves(c, "ok") BY <1>0, <1>1, ResultMoves
<1> QED BY <1>1, <1>2, <1>3, CallStep

LEMMA RaiseInv ==
    ASSUME IInv, NEW c \in DOMAIN run.pc, Raise(c)
    PROVE  IInv'
<1>0. Shape BY DEF IInv
<1>1. ~Over(c) /\ disk' = disk /\ Goto(c, "raised") BY DEF Raise
<1>2. Touches(c) BY <1>0, <1>1, UntouchedTouches
<1>3. Moves(c, "raised") BY <1>0, <1>1, GotoMoves
<1> QED BY <1>1, <1>2, <1>3, CallStep

LEMMA SpillInv ==
    ASSUME IInv, NEW c \in DOMAIN run.pc, Spill(c)
    PROVE  IInv'
<1>0. Shape /\ c[1] \in Stored BY DEF IInv, NotThere, Spill
<1>1. run' = run /\ run.pc[c] = "write" BY DEF Spill
<1>2. Touches(c) /\ disk'[c[1]] = Cut BY <1>0, WriteTouches DEF Spill
<1>3. Shape' BY <1>0, <1>1, <1>2 DEF Shape, Touches
<1>4. OneWriter' /\ RestIsOver' BY <1>1 DEF IInv, OneWriter, RestIsOver, Running, Over
<1>5. ASSUME NEW d \in DOMAIN run.pc PROVE NotThere(d)'
  <2>1. NotThere(d) BY DEF IInv
  <2>2. CASE d = c BY <1>0, <1>1, <1>2, <2>2 DEF NotThere
  <2>3. CASE d # c
    <3>1. d[1] \in Stored => disk'[d[1]] = disk[d[1]]
        BY <1>2, <2>3 DEF IInv, OneWriter, Touches
    <3> QED BY <1>1, <2>1, <3>1, NamesOfCalls DEF NotThere
  <2> QED BY <2>2, <2>3
<1> QED BY <1>1, <1>3, <1>4, <1>5 DEF IInv

-----------------------------------------------------------------------------
(* The steps of an analysis as a whole.                                    *)

(* A new pc that has nothing under way, and one call to a stored result.   *)
LEMMA FreshInv ==
    ASSUME Shape', OneWriter', RestIsOver',
           \A c \in DOMAIN run'.pc : run'.pc[c] \notin {"write", "compute"}
    PROVE  IInv'
BY DEF IInv, NotThere

LEMMA EnterInv ==
    ASSUME IInv, Running, disk' = disk, NEW i, NEW n, Enter(i, n)
    PROVE  IInv'
<1> DEFINE calls == CallsOf(Plan(run.kind)[i])
<1>1. PICK w : run' = [run EXCEPT !.at = i, !.width = w, !.pc = [c \in calls |-> "todo"]]
    BY DEF Enter
<1>2. \A c, d \in calls : c[1] = d[1] /\ c[1] \in Stored => c = d
    BY NamesOfCalls DEF CallsOf, ItemsOf
<1> HIDE DEF calls
<1>3. run' = [state |-> run.state, kind |-> run.kind, at |-> i, width |-> w,
              sees |-> run.sees, pc |-> [c \in calls |-> "todo"], val |-> run.val]
    BY <1>1 DEF IInv, Shape
<1>4. Shape' BY <1>3 DEF IInv, Shape
<1>5. OneWriter' BY <1>2, <1>3 DEF OneWriter
<1>6. RestIsOver' BY <1>3 DEF RestIsOver, Running
<1>7. \A c \in DOMAIN run'.pc : run'.pc[c] \notin {"write", "compute"} BY <1>3
<1> QED BY <1>4, <1>5, <1>6, <1>7, FreshInv

LEMMA AdvanceInv ==
    ASSUME IInv, Advance
    PROVE  IInv'
<1>0. Running /\ disk' = disk /\ \A c \in DOMAIN run.pc : Over(c) BY DEF Advance
<1>1. CASE run' = [run EXCEPT !.state = "error", !.val = <<>>]
  <2>1. run' = [state |-> "error", kind |-> run.kind, at |-> run.at, width |-> run.width,
                sees |-> run.sees, pc |-> run.pc, val |-> <<>>]
      BY <1>1 DEF IInv, Shape
  <2>2. Shape' BY <1>0, <2>1 DEF IInv, Shape
  <2>3. OneWriter' /\ RestIsOver' BY <1>0, <2>1 DEF IInv, OneWriter, RestIsOver, Over
  <2>4. \A c \in DOMAIN run'.pc : run'.pc[c] \notin {"write", "compute"}
      BY <1>0, <2>1 DEF Over
  <2> QED BY <2>2, <2>3, <2>4, FreshInv
<1>2. CASE run' = [run EXCEPT !.state = "ok", !.pc = <<>>]
  <2>1. run' = [state |-> "ok", kind |-> run.kind, at |-> run.at, width |-> run.width,
                sees |-> run.sees, pc |-> <<>>, val |-> run.val]
      BY <1>2 DEF IInv, Shape
  <2>2. Shape' BY <1>0, <2>1 DEF IInv, Shape
  <2>3. OneWriter' /\ RestIsOver' BY <2>1 DEF OneWriter, RestIsOver, Over
  <2> QED BY <2>1, <2>2, <2>3, FreshInv
<1>3. CASE \E n \in Requests : Enter(After(run.at), n)
    BY <1>0, <1>3, EnterInv
<1> QED BY <1>1, <1>2, <1>3 DEF Advance, Proceed

LEMMA SubmitInv ==
    ASSUME IInv, NEW k \in Kind, Submit(k)
    PROVE  IInv'
<1>1. PICK S : run' = [state |-> "running", kind |-> k, at |-> 0, width |-> 0,
                       sees |-> S, pc |-> <<>>, val |-> <<>>]
    BY DEF Submit, NoRun
<1>a. disk' = disk BY DEF Submit
<1>2. Shape' BY <1>1, <1>a DEF IInv, Shape
<1>3. OneWriter' /\ RestIsOver' BY <1>1 DEF OneWriter, RestIsOver, Running
<1> QED BY <1>1, <1>2, <1>3, FreshInv

LEMMA StopInv ==
    ASSUME IInv, Stop
    PROVE  IInv'
<1>1. run' = [state |-> "lost", kind |-> run.kind, at |-> run.at, width |-> run.width,
              sees |-> run.sees, pc |-> <<>>, val |-> <<>>]
    BY DEF Stop, IInv, Shape
<1>a. disk' = disk BY DEF Stop
<1>2. Shape' BY <1>1, <1>a DEF IInv, Shape
<1>3. OneWriter' /\ RestIsOver' BY <1>1 DEF OneWriter, RestIsOver
<1> QED BY <1>1, <1>2, <1>3, FreshInv

LEMMA UnchangedInv ==
    ASSUME IInv, run' = run, disk' = disk
    PROVE  IInv'
BY DEF IInv, Shape, OneWriter, RestIsOver, Running, Over, NotThere

LEMMA NextInv == IInv /\ [Next]_vars => IInv'
<1> SUFFICES ASSUME IInv, [Next]_vars PROVE IInv'
    OBVIOUS
<1>1. ASSUME NEW k \in Kind, Submit(k) PROVE IInv' BY <1>1, SubmitInv
<1>2. CASE Advance BY <1>2, AdvanceInv
<1>3. ASSUME NEW c \in DOMAIN run.pc,
             \/ Begin(c) \/ Answer(c) \/ Load(c) \/ Open(c)
             \/ Spill(c) \/ Finish(c) \/ View(c) \/ Raise(c)
      PROVE  IInv'
    BY <1>3, BeginInv, AnswerInv, LoadInv, OpenInv, SpillInv, FinishInv, ViewInv, RaiseInv
<1>4. CASE Edit BY <1>4, UnchangedInv DEF Edit
<1>5. CASE Stop BY <1>5, StopInv
<1>6. CASE UNCHANGED vars BY <1>6, UnchangedInv DEF vars
<1> QED BY <1>1, <1>2, <1>3, <1>4, <1>5, <1>6 DEF Next, RunStep

LEMMA Inductive == Spec => []IInv
BY InitInv, NextInv, PTL DEF Spec

-----------------------------------------------------------------------------
(* Which steps change a file, and how.                                     *)

LEMMA FileSteps ==
    ASSUME IInv, [Next]_vars, disk' # disk
    PROVE  \E c \in DOMAIN run.pc :
             /\ c[1] \in Stored /\ run.pc[c] \in {"compute", "write"} /\ Touches(c)
             /\ c[1] \in Cached => disk[c[1]].state # "full"
<1>1. PICK c \in DOMAIN run.pc : Open(c) \/ Spill(c) \/ Finish(c)
    BY DEF Next, RunStep, vars, Submit, Advance, Begin, Answer, Load, View, Raise,
           Edit, Stop
<1>2. NotThere(c) /\ Shape BY DEF IInv
<1>3. c[1] \in Stored /\ run.pc[c] \in {"compute", "write"}
    BY <1>1, <1>2 DEF Open, Spill, Finish, NotThere
<1>4. Touches(c) BY <1>1, <1>2, <1>3, WriteTouches DEF Open, Spill, Finish
<1>5. c[1] \in Cached => disk[c[1]].state # "full"
    BY <1>2, <1>3 DEF NotThere, Empty, Cut
<1> QED BY <1>3, <1>4, <1>5

(* A file that holds a whole result keeps it: no step of any analysis,     *)
(* exception, edit or stop writes it again (the handlers' look at the file *)
(* before they compute).                                                   *)
THEOREM ResultsAreKept == Spec => ResultsStay
<1>1. ASSUME IInv, [Next]_vars, NEW o \in Cached, disk[o].state = "full"
      PROVE  disk'[o] = disk[o]
  <2>1. CASE disk' = disk BY <2>1
  <2>2. CASE disk' # disk
    <3>1. PICK c \in DOMAIN run.pc :
            Touches(c) /\ (c[1] \in Cached => disk[c[1]].state # "full")
        BY <1>1, <2>2, FileSteps
    <3> QED BY <1>1, <3>1, NamesOfCalls DEF Touches
  <2> QED BY <2>1, <2>2
<1>2. IInv /\ [Next]_vars =>
        [\A o \in Cached : disk[o].state = "full" => disk'[o] = disk[o]]_vars
    BY <1>1
<1> QED BY <1>2, Inductive, PTL DEF Spec, ResultsStay

(* Files change only while an analysis is running: when one has ended, by  *)
(* an exception of one of its calls too, the pool has no call left         *)
(* (AgenticExecutor.invoke_parallel).                                      *)
THEOREM WritersEnd == Spec => NoLateWrite
<1>1. ASSUME IInv, [Next]_vars, disk' # disk PROVE Running
  <2>1. PICK c \in DOMAIN run.pc : run.pc[c] \in {"compute", "write"}
      BY <1>1, FileSteps
  <2>2. ~Over(c) BY <2>1 DEF Over
  <2> QED BY <1>1, <2>2 DEF IInv, RestIsOver
<1>2. IInv /\ [Next]_vars => [disk' # disk => Running]_vars
    BY <1>1
<1> QED BY <1>2, Inductive, PTL DEF Spec, NoLateWrite

-----------------------------------------------------------------------------
(* Why an analysis fails.                                                  *)

(* A text is cut off while a call writes it, or was so when it was hurt.   *)
CutIsHurt ==
    \A o \in Stored :
      disk[o].state \in {"empty", "cut"} =>
        o \in hurt \/ \E c \in DOMAIN run.pc : c[1] = o /\ run.pc[c] = "write"

CutIsCut == \A o \in Stored : disk[o].state = "cut" => disk[o] = Cut

(* A call reads a file that is there, and fails to only if it is cut off.  *)
ReadsTheFile(c) ==
    /\ run.pc[c] = "load" => c[1] \in Stored /\ disk[c[1]].state \in {"cut", "full"}
    /\ run.pc[c] = "unreadable" => c[1] \in Stored \cap hurt /\ disk[c[1]] = Cut

ErrorHasCause == run.state = "error" => Failed # {}

CInv ==
    /\ IInv /\ CutIsHurt /\ CutIsCut /\ ErrorHasCause
    /\ \A c \in DOMAIN run.pc : ReadsTheFile(c)

LEMMA InitCause == Init => CInv
<1> SUFFICES ASSUME Init PROVE CInv
    OBVIOUS
<1>1. run.pc = <<>> /\ run.state = "none" /\ disk = [o \in Stored |-> Absent]
    BY DEF Init, NoRun
<1> QED BY <1>1, InitInv DEF CInv, CutIsHurt, CutIsCut, ErrorHasCause, Absent

LEMMA HurtUnlessWriting ==
    ASSUME CInv, NEW c \in DOMAIN run.pc, c[1] \in Stored, run.pc[c] # "write",
           disk[c[1]].state \in {"empty", "cut"}
    PROVE  c[1] \in hurt
BY DEF CInv, CutIsHurt, IInv, OneWriter

(* What the file of a call is after its step.                              *)
Sound(c, p) ==
    c[1] \in Stored =>
      /\ disk'[c[1]].state \in {"empty", "cut"} => c[1] \in hurt' \/ p = "write"
      /\ disk'[c[1]].state = "cut" => disk'[c[1]] = Cut

LEMMA CauseStep ==
    ASSUME CInv, IInv', NEW c \in DOMAIN run.pc, NEW p, ~Over(c), Moves(c, p),
           Touches(c), hurt \subseteq hurt', Sound(c, p),
           p = "load" => c[1] \in Stored /\ disk'[c[1]].state \in {"cut", "full"},
           p = "unreadable" => c[1] \in Stored \cap hurt' /\ disk'[c[1]] = Cut
    PROVE  CInv'
<1>0. IInv /\ Shape BY DEF CInv, IInv
<1>1. DOMAIN run'.pc = DOMAIN run.pc /\ run'.state = run.state /\ run'.pc[c] = p
    BY <1>0, Moved
<1>2. \A d \in DOMAIN run.pc : d # c => run'.pc[d] = run.pc[d]
    BY <1>0, Moved
<1>3. run.state = "running" BY <1>0 DEF IInv, RestIsOver, Running
<1>4. ErrorHasCause' BY <1>1, <1>3 DEF ErrorHasCause
<1>5. ASSUME NEW o \in Stored
      PROVE  /\ disk'[o].state \in {"empty", "cut"} =>
                  o \in hurt' \/ \E d \in DOMAIN run'.pc : d[1] = o /\ run'.pc[d] = "write"
             /\ disk'[o].state = "cut" => disk'[o] = Cut
  <2>1. CASE o = c[1] BY <1>1, <2>1 DEF Sound
  <2>2. CASE o # c[1]
    <3>1. disk'[o] = disk[o] BY <2>2 DEF Touches
    <3> QED BY <1>1, <1>2, <2>2, <3>1 DEF CInv, CutIsHurt, CutIsCut
  <2> QED BY <2>1, <2>2
<1>6. CutIsHurt' /\ CutIsCut' BY <1>5 DEF CutIsHurt, CutIsCut
<1>7. \A d \in DOMAIN run'.pc : ReadsTheFile(d)'
  <2>1. ReadsTheFile(c)' BY <1>1 DEF ReadsTheFile
  <2>2. ASSUME NEW d \in DOMAIN run.pc, d # c PROVE ReadsTheFile(d)'
    <3>1. run'.pc[d] = run.pc[d] BY <1>2, <2>2
    <3>2. d[1] \in Stored => disk'[d[1]] = disk[d[1]]
        BY <1>0, <2>2 DEF IInv, OneWriter, Touches
    <3>3. ReadsTheFile(d) BY DEF CInv
    <3> QED BY <3>1, <3>2, <3>3 DEF ReadsTheFile
  <2> QED BY <1>1, <2>1, <2>2
<1> QED BY <1>4, <1>6, <1>7 DEF CInv

(* A step of a call that does not write: its file is hurt if it is cut     *)
(* off, and if it becomes so only by being given up.                       *)
LEMMA SoundUnwritten ==
    ASSUME CInv, NEW c \in DOMAIN run.pc, NEW p, disk' = disk, hurt \subseteq hurt',
           run.pc[c] = "write" => c[1] \in hurt'
    PROVE  Sound(c, p)
<1>1. c[1] \in Stored /\ disk[c[1]].state \in {"empty", "cut"} => c[1] \in hurt'
    BY HurtUnlessWriting
<1> QED BY <1>1 DEF Sound, CInv, CutIsCut

LEMMA BeginCause ==
    ASSUME CInv, IInv', NEW c \in DOMAIN run.pc, Begin(c)
    PROVE  CInv'
<1>0. Shape BY DEF CInv, IInv
<1>1. ~Over(c) /\ disk' = disk /\ hurt' = hurt /\ run.pc[c] # "write" BY DEF Begin, Over
<1>2. Touches(c) BY <1>0, <1>1, UntouchedTouches
<1>3. CASE Goto(c, "load") /\ c[1] \in Cached /\ Ready(disk[c[1]])
  <2>1. Moves(c, "load") /\ Sound(c, "load") BY <1>0, <1>1, <1>3, GotoMoves, SoundUnwritten
  <2>2. c[1] \in Stored /\ disk'[c[1]].state \in {"cut", "full"}
      BY <1>1, <1>3, NamesOfCalls DEF Ready
  <2> QED BY <1>1, <1>2, <2>1, <2>2, CauseStep
<1>4. CASE Goto(c, "compute")
  <2>1. Moves(c, "compute") /\ Sound(c, "compute")
      BY <1>0, <1>1, <1>4, GotoMoves, SoundUnwritten
  <2> QED BY <1>1, <1>2, <2>1, CauseStep
<1> QED BY <1>3, <1>4 DEF Begin

LEMMA LoadCause ==
    ASSUME CInv, IInv', NEW c \in DOMAIN run.pc, Load(c)
    PROVE  CInv'
<1>0. Shape BY DEF CInv, IInv
<1>1. ~Over(c) /\ disk' = disk /\ hurt' = hurt /\ run.pc[c] = "load" BY DEF Load, Over
<1>2. Touches(c) BY <1>0, <1>1, UntouchedTouches
<1>3. CASE Goto(c, "unreadable") /\ disk[c[1]].state # "full"
  <2>1. Moves(c, "unreadable") /\ Sound(c, "unreadable")
      BY <1>0, <1>1, <1>3, GotoMoves, SoundUnwritten
  <2>2. c[1] \in Stored /\ disk[c[1]].state = "cut" BY <1>1, <1>3 DEF CInv, ReadsTheFile
  <2>3. c[1] \in hurt /\ disk[c[1]] = Cut
      BY <1>1, <2>2, HurtUnlessWriting DEF CInv, CutIsCut
  <2> QED BY <1>1, <1>2, <2>1, <2>2, <2>3, CauseStep
<1>4. CASE Result(c, disk[c[1]].of)
  <2>1. Moves(c, "ok") /\ Sound(c, "ok") BY <1>0, <1>1, <1>4, ResultMoves, SoundUnwritten
  <2> QED BY <1>1, <1>2, <2>1, CauseStep
<1> QED BY <1>3, <1>4 DEF Load

LEMMA AnswerOrViewCause ==
    ASSUME CInv, IInv', NEW c \in DOMAIN run.pc, Answer(c) \/ View(c)
    PROVE  CInv'
<1>0. Shape BY DEF CInv, IInv
<1>1. /\ ~Over(c) /\ disk' = disk /\ hurt' = hurt /\ run.pc[c] # "write"
      /\ Result(c, Computed(c))
    BY DEF Answer, View, Over
<1>2. Touches(c) BY <1>0, <1>1, UntouchedTouches
<1>3. Moves(c, "ok") /\ Sound(c, "ok") BY <1>0, <1>1, ResultMoves, SoundUnwritten
<1> QED BY <1>1, <1>2, <1>3, CauseStep

LEMMA RaiseCause ==
    ASSUME CInv, IInv', NEW c \in DOMAIN run.pc, Raise(c)
    PROVE  CInv'
<1>0. Shape BY DEF CInv, IInv
<1>1. /\ ~Over(c) /\ disk' = disk /\ Goto(c, "raised")
      /\ hurt' = hurt \cup {d[1] : d \in Writing \cap {c}}
    BY DEF Raise
<1>2. hurt \subseteq hurt' /\ (run.pc[c] = "write" => c[1] \in hurt')
    BY <1>1 DEF Writing
<1>3. Touches(c) BY <1>0, <1>1, UntouchedTouches
<1>4. Moves(c, "raised") /\ Sound(c, "raised")
    BY <1>0, <1>1, <1>2, GotoMoves, SoundUnwritten
<1> QED BY <1>1, <1>2, <1>3, <1>4, CauseStep

LEMMA OpenCause ==
    ASSUME CInv, IInv', NEW c \in DOMAIN run.pc, Open(c)
    PROVE  CInv'
<1>0. Shape BY DEF CInv, IInv
<1>1. ~Over(c) /\ Goto(c, "write") /\ hurt' = hurt BY DEF Open, Over
<1>2. Moves(c, "write") BY <1>0, <1>1, GotoMoves
<1>3. Touches(c) /\ disk'[c[1]] = Empty BY <1>0, WriteTouches DEF Open
<1>4. Sound(c, "write") BY <1>3 DEF Sound, Empty
<1> QED BY <1>1, <1>2, <1>3, <1>4, CauseStep

LEMMA FinishCause ==
    ASSUME CInv, IInv', NEW c \in DOMAIN run.pc, Finish(c)
    PROVE  CInv'
<1>0. Shape /\ c[1] \in Stored BY DEF CInv, IInv, NotThere, Finish
<1>1. ~Over(c) /\ Goto(c, "view") /\ hurt' = hurt BY DEF Finish, Over
<1>2. Moves(c, "view") BY <1>0, <1>1, GotoMoves
<1>3. Touches(c) /\ disk'[c[1]] = Full(Computed(c)) BY <1>0, WriteTouches DEF Finish
<1>4. Sound(c, "view") BY <1>3 DEF Sound, Full
<1> QED BY <1>1, <1>2, <1>3, <1>4, CauseStep

LEMMA SpillCause ==
    ASSUME CInv, IInv', NEW c \in DOMAIN run.pc, Spill(c)
    PROVE  CInv'
<1>0. Shape /\ c[1] \in Stored BY DEF CInv, IInv, NotThere, Spill
<1>1. run' = run /\ hurt' = hurt /\ run.pc[c] = "write" BY DEF Spill
<1>2. Touches(c) /\ disk'[c[1]] = Cut BY <1>0, WriteTouches DEF Spill
<1>3. ErrorHasCause' BY <1>1 DEF CInv, ErrorHasCause, Failed
<1>4. ASSUME NEW o \in Stored
      PROVE  /\ disk'[o].state \in {"empty", "cut"} =>
                  o \in hurt' \/ \E d \in DOMAIN run'.pc : d[1] = o /\ run'.pc[d] = "write"
             /\ disk'[o].state = "cut" => disk'[o] = Cut
  <2>1. CASE o = c[1] BY <1>1, <1>2, <2>1
  <2>2. CASE o # c[1]
    <3>1. disk'[o] = disk[o] BY <1>2, <2>2 DEF Touches
    <3> QED BY <1>1, <3>1 DEF CInv, CutIsHurt, CutIsCut
  <2> QED BY <2>1, <2>2
<1>5. CutIsHurt' /\ CutIsCut' BY <1>4 DEF CutIsHurt, CutIsCut
<1>6. ASSUME NEW d \in DOMAIN run.pc PROVE ReadsTheFile(d)'
  <2>1. ReadsTheFile(d) BY DEF CInv
  <2>2. CASE d = c BY <1>1, <2>2 DEF ReadsTheFile
  <2>3. CASE d # c
    <3>1. d[1] \in Stored => disk'[d[1]] = disk[d[1]]
        BY <1>2, <2>3 DEF CInv, IInv, OneWriter, Touches
    <3> QED BY <1>1, <2>1, <3>1 DEF ReadsTheFile
  <2> QED BY <2>2, <2>3
<1> QED BY <1>1, <1>3, <1>5, <1>6 DEF CInv

(* The steps of an analysis as a whole take no file away from its writer.  *)
LEMMA WholeCause ==
    ASSUME CInv, IInv', disk' = disk, hurt \subseteq hurt', ErrorHasCause',
           \A c \in DOMAIN run.pc : run.pc[c] = "write" => c[1] \in hurt',
           \A c \in DOMAIN run'.pc : ReadsTheFile(c)'
    PROVE  CInv'
<1>1. CutIsHurt' BY DEF CInv, CutIsHurt
<1>2. CutIsCut' BY DEF CInv, CutIsCut
<1> QED BY <1>1, <1>2 DEF CInv

LEMMA AdvanceCause ==
    ASSUME CInv, IInv', Advance
    PROVE  CInv'
<1>0. /\ Running /\ disk' = disk /\ hurt' = hurt
      /\ \A c \in DOMAIN run.pc : run.pc[c] # "write"
    BY DEF Advance, Over
<1>1. CASE Failed # {} /\ run' = [run EXCEPT !.state = "error", !.val = <<>>]
  <2>1. run'.pc = run.pc /\ run'.state = "error"
      BY <1>1 DEF CInv, IInv, Shape
  <2>2. ErrorHasCause' BY <1>1, <2>1 DEF ErrorHasCause, Failed
  <2>3. \A c \in DOMAIN run'.pc : ReadsTheFile(c)'
      BY <1>0, <2>1 DEF CInv, ReadsTheFile
  <2> QED BY <1>0, <2>2, <2>3, WholeCause
<1>2. CASE run' = [run EXCEPT !.state = "ok", !.pc = <<>>]
  <2>1. run'.pc = <<>> /\ run'.state = "ok" BY <1>2 DEF CInv, IInv, Shape
  <2> QED BY <1>0, <2>1, WholeCause DEF ErrorHasCause
<1>3. CASE \E n \in Requests : Enter(After(run.at), n)
  <2>1. PICK calls, w : run' = [run EXCEPT !.at = After(run.at), !.width = w,
                                           !.pc = [c \in calls |-> "todo"]]
      BY <1>3 DEF Enter
  <2>2. run'.pc = [c \in calls |-> "todo"] /\ run'.state = run.state
      BY <2>1 DEF CInv, IInv, Shape
  <2>3. ErrorHasCause' BY <1>0, <2>2 DEF ErrorHasCause, Running
  <2>4. \A c \in DOMAIN run'.pc : ReadsTheFile(c)' BY <2>2 DEF ReadsTheFile
  <2> QED BY <1>0, <2>3, <2>4, WholeCause
<1> QED BY <1>1, <1>2, <1>3 DEF Advance, Proceed

LEMMA SubmitCause ==
    ASSUME CInv, IInv', NEW k \in Kind, Submit(k)
    PROVE  CInv'
<1>1. run'.pc = <<>> /\ run'.state = "running" /\ disk' = disk /\ hurt' = hurt
    BY DEF Submit, NoRun
<1>2. \A c \in DOMAIN run.pc : run.pc[c] # "write"
    BY DEF Submit, CInv, IInv, RestIsOver, Over
<1> QED BY <1>1, <1>2, WholeCause DEF ErrorHasCause

LEMMA StopCause ==
    ASSUME CInv, IInv', Stop
    PROVE  CInv'
<1>1. run'.pc = <<>> /\ run'.state = "lost" /\ disk' = disk
    BY DEF Stop, CInv, IInv, Shape
<1>2. hurt' = hurt \cup {c[1] : c \in Writing} BY DEF Stop
<1>3. \A c \in DOMAIN run.pc : run.pc[c] = "write" => c[1] \in hurt' BY <1>2 DEF Writing
<1> QED BY <1>1, <1>2, <1>3, WholeCause DEF ErrorHasCause

LEMMA UnchangedCause ==
    ASSUME CInv, IInv', run' = run, disk' = disk, hurt' = hurt
    PROVE  CInv'
BY DEF CInv, CutIsHurt, CutIsCut, ErrorHasCause, Failed, ReadsTheFile

LEMMA NextCause == CInv /\ [Next]_vars => CInv'
<1> SUFFICES ASSUME CInv, [Next]_vars PROVE CInv'
    OBVIOUS
<1>0. IInv' BY NextInv DEF CInv
<1>1. ASSUME NEW k \in Kind, Submit(k) PROVE CInv' BY <1>0, <1>1, SubmitCause
<1>2. CASE Advance BY <1>0, <1>2, AdvanceCause
<1>3. ASSUME NEW c \in DOMAIN run.pc,
             \/ Begin(c) \/ Answer(c) \/ Load(c) \/ Open(c)
             \/ Spill(c) \/ Finish(c) \/ View(c) \/ Raise(c)
      PROVE  CInv'
    BY <1>0, <1>3, BeginCause, AnswerOrViewCause, LoadCause, OpenCause, SpillCause,
       FinishCause, RaiseCause
<1>4. CASE Edit BY <1>0, <1>4, UnchangedCause DEF Edit
<1>5. CASE Stop BY <1>0, <1>5, StopCause
<1>6. CASE UNCHANGED vars BY <1>0, <1>6, UnchangedCause DEF vars
<1> QED BY <1>1, <1>2, <1>3, <1>4, <1>5, <1>6 DEF Next, RunStep

(* An analysis fails only because one of its calls raised, or because the  *)
(* writer of a file was interrupted in the middle of the text: whatever    *)
(* else was stopped or went wrong before leaves nothing that stands in its *)
(* way (load_cached_json_artifact, the handlers' look at the file).        *)
THEOREM FailuresHaveCauses == Spec => []FailsForCause
<1>1. CInv => FailsForCause
  <2> SUFFICES ASSUME CInv, run.state = "error"
               PROVE  \E c \in Failed :
                        run.pc[c] = "raised" \/ (c[1] \in hurt /\ disk[c[1]] = Cut)
      BY DEF FailsForCause
  <2>1. PICK c : c \in Failed BY DEF CInv, ErrorHasCause
  <2> QED BY <2>1 DEF Failed, CInv, ReadsTheFile
<1> QED BY <1>1, InitCause, NextCause, PTL DEF Spec

-----------------------------------------------------------------------------
(* What an analysis holds in memory is what the directory holds.           *)

(* The results that a call's own is made of.                               *)
Inputs(cap) ==
    IF cap = "inventory" THEN {"extract"}
    ELSE IF cap \in {"fileText", "clusterText", "flowText"}
         THEN {e \in FanOut : Gathered[e] = cap}
         ELSE Needs(cap)

(* A stage: no call's result is made of that of another, and a fan-out is  *)
(* alone.                                                                  *)
StageOK(S) ==
    /\ \A a \in S \cap Stored : Inputs(a) \cap S = {}
    /\ S \cap FanOut # {} => S \cap Stored = {}

Stages == Plan(run.kind)

Placed ==
    /\ run.kind \in Kind /\ run.at \in 0 .. Len(Stages)
    /\ run.state = "running" =>
         /\ \A c \in DOMAIN run.pc : run.at > 0 /\ c[1] \in Stages[run.at]
         /\ run.at > 0 => \A o \in Stages[run.at] \cap Stored :
                            \E c \in DOMAIN run.pc : c[1] = o

(* The results that are in memory: those of the stages behind, and of the  *)
(* calls of this one that have ended well.                                 *)
Remembered ==
    /\ \A c \in DOMAIN run.pc : run.pc[c] = "ok" /\ Running => c[1] \in DOMAIN run.val
    /\ Running => \A i \in 1 .. run.at - 1 : Stages[i] \cap Stored \subseteq DOMAIN run.val
    /\ run.state = "ok" => Products(run.kind) \subseteq DOMAIN run.val

SameAsFile ==
    \A o \in Stored \cap DOMAIN run.val : disk[o] = Full(run.val[o])

(* The report is the last result, and the only one made anew each time.    *)
ReportLast ==
    "compose" \in DOMAIN run.val =>
      /\ run.at = Len(Stages)
      /\ \A c \in DOMAIN run.pc : c[1] = "compose" => run.pc[c] = "ok"

(* A result that is there has its Markdown, or will have.                  *)
Shown(o) ==
    disk[o].state = "full" =>
      /\ disk[o] = Full(disk[o].of)
      /\ o \in views \cup hurt \/ \E c \in DOMAIN run.pc : c[1] = o /\ run.pc[c] = "view"

Viewing(c) ==
    run.pc[c] = "view" => c[1] \in Stored /\ disk[c[1]] = Full(Computed(c))

DInv ==
    /\ IInv /\ Placed /\ Remembered /\ SameAsFile /\ ReportLast
    /\ \A o \in Stored : Shown(o)
    /\ \A c \in DOMAIN run.pc : Viewing(c)

-----------------------------------------------------------------------------
(* The plans of the three kinds.                                           *)

LEMMA BaseStages ==
    /\ Len(Base) = 8 /\ Base[8] \cap FanOut = {}
    /\ \A i \in 1 .. 8 : StageOK(Base[i]) /\ "compose" \notin Base[i]

<1> USE DEF StageOK, Inputs, Stored, Needs, FanOut, Gathered, Caps, BaseNeeds, ReportNeeds
<1>1. StageOK({"scan"}) /\ StageOK({"extract"}) /\ StageOK({"inventory"})
    OBVIOUS
<1>2. StageOK({"relations"}) /\ StageOK({"breakdowns"}) /\ StageOK({"flows"})
    OBVIOUS
<1>3. StageOK({"enrich", "clusters"})
    OBVIOUS
<1>4. StageOK({"dossier", "validate", "unknowns"})
    OBVIOUS
<1> HIDE DEF StageOK
<1>5. Len(Base) = 8 BY DEF Base
<1>6. /\ Base[1] = {"scan"} /\ Base[2] = {"extract"} /\ Base[3] = {"inventory"}
      /\ Base[4] = {"relations"} /\ Base[5] = {"breakdowns"}
      /\ Base[6] = {"enrich", "clusters"} /\ Base[7] = {"flows"}
      /\ Base[8] = {"dossier", "validate", "unknowns"}
    BY DEF Base
<1>7. \A i \in 1 .. 8 : i = 1 \/ i = 2 \/ i = 3 \/ i = 4 \/ i = 5 \/ i = 6 \/ i = 7 \/ i = 8
    OBVIOUS
<1>8. Base[8] \cap FanOut = {} BY <1>6 DEF FanOut, Gathered
<1> HIDE DEF FanOut
<1> QED BY <1>1, <1>2, <1>3, <1>4, <1>5, <1>6, <1>7, <1>8

LEMMA NarrationStages ==
    /\ Len(Narration) = 8 /\ Narration[8] \cap FanOut = {}
    /\ \A i \in 1 .. 8 : StageOK(Narration[i]) /\ "compose" \notin Narration[i]
<1> USE DEF StageOK, Inputs, Stored, Needs, FanOut, Gathered, Caps, BaseNeeds,
            ReportNeeds, NarrationNeeds
<1>1. StageOK({"context"}) /\ StageOK({"explain"}) /\ StageOK({"fileText"})
    OBVIOUS
<1>2. StageOK({"summarize"}) /\ StageOK({"clusterText"}) /\ StageOK({"explainFlow"})
    OBVIOUS
<1>3. StageOK({"flowText"}) /\ StageOK({"repoText"})
    OBVIOUS
<1> HIDE DEF StageOK
<1>5. Len(Narration) = 8 BY DEF Narration
<1>6. /\ Narration[1] = {"context"} /\ Narration[2] = {"explain"}
      /\ Narration[3] = {"fileText"} /\ Narration[4] = {"summarize"}
      /\ Narration[5] = {"clusterText"} /\ Narration[6] = {"explainFlow"}
      /\ Narration[7] = {"flowText"} /\ Narration[8] = {"repoText"}
    BY DEF Narration
<1>7. \A i \in 1 .. 8 : i = 1 \/ i = 2 \/ i = 3 \/ i = 4 \/ i = 5 \/ i = 6 \/ i = 7 \/ i = 8
    OBVIOUS
<1>8. Narration[8] \cap FanOut = {} BY <1>6 DEF FanOut, Gathered
<1> HIDE DEF FanOut
<1> QED BY <1>1, <1>2, <1>3, <1>5, <1>6, <1>7, <1>8, SMTT(30)

LEMMA MeaningStages ==
    /\ Len(Meaning) = 8 /\ Meaning[8] \cap FanOut = {}
    /\ \A i \in 1 .. 8 : StageOK(Meaning[i]) /\ ("compose" \in Meaning[i] => i = 8)
<1> USE DEF StageOK, Inputs, Stored, Needs, FanOut, Gathered, Caps, BaseNeeds,
            ReportNeeds, NarrationNeeds, MeaningNeeds
<1>1. StageOK({"abilities"}) /\ StageOK({"actions"}) /\ StageOK({"functions"})
    OBVIOUS
<1>2. StageOK({"purpose", "behavior", "paths"})
    OBVIOUS
<1>3. StageOK({"modules"}) /\ StageOK({"subsystems"}) /\ StageOK({"system"})
    OBVIOUS
<1>4. StageOK({"compose"})
    OBVIOUS
<1> HIDE DEF StageOK
<1>5. Len(Meaning) = 8 BY DEF Meaning
<1>6. /\ Meaning[1] = {"abilities"} /\ Meaning[2] = {"actions"}
      /\ Meaning[3] = {"functions"} /\ Meaning[4] = {"purpose", "behavior", "paths"}
      /\ Meaning[5] = {"modules"} /\ Meaning[6] = {"subsystems"}
      /\ Meaning[7] = {"system"} /\ Meaning[8] = {"compose"}
    BY DEF Meaning
<1>7. \A i \in 1 .. 8 : i = 1 \/ i = 2 \/ i = 3 \/ i = 4 \/ i = 5 \/ i = 6 \/ i = 7 \/ i = 8
    OBVIOUS
<1>8. Meaning[8] \cap FanOut = {} BY <1>6 DEF FanOut, Gathered
<1> HIDE DEF FanOut, Inputs, Stored, Needs, Gathered, Caps, BaseNeeds, ReportNeeds,
            NarrationNeeds, MeaningNeeds
<1>9. ASSUME NEW i \in 1 .. 8 PROVE StageOK(Meaning[i])
  <2>1. /\ StageOK(Meaning[1]) /\ StageOK(Meaning[2]) /\ StageOK(Meaning[3])
        /\ StageOK(Meaning[4]) /\ StageOK(Meaning[5]) /\ StageOK(Meaning[6])
        /\ StageOK(Meaning[7]) /\ StageOK(Meaning[8])
    BY ONLY <1>1, <1>2, <1>3, <1>4, <1>6, Zenon
  <2> QED BY ONLY <1>7, <2>1, i \in 1 .. 8, Zenon
<1>10. \A i \in 1 .. 8 : "compose" \in Meaning[i] => i = 8 BY <1>6, <1>7
<1> QED BY <1>5, <1>8, <1>9, <1>10

LEMMA EightStages ==
    ASSUME NEW s, s = [i \in 1 .. 8 |-> s[i]], NEW T, \A i \in 1 .. 8 : s[i] \in T
    PROVE  s \in Seq(T)
OBVIOUS

LEMMA EightAndEight ==
    ASSUME NEW T, NEW a \in Seq(T), NEW b \in Seq(T), Len(a) = 8, Len(b) = 8
    PROVE  /\ Len(a \o b) = 16 /\ DOMAIN (a \o b) = 1 .. 16
           /\ \A i \in 1 .. 8 : (a \o b)[i] = a[i]
           /\ \A i \in 9 .. 16 : (a \o b)[i] = b[i - 8]
<1> DEFINE c == a \o b
<1>1. /\ c \in Seq(T) /\ Len(c) = Len(a) + Len(b)
      /\ \A i \in 1 .. Len(a) + Len(b) : c[i] = IF i <= Len(a) THEN a[i] ELSE b[i - Len(a)]
    BY ConcatProperties
<1> HIDE DEF c
<1>2. Len(c) = 16 /\ \A i \in 1 .. 16 : c[i] = IF i <= 8 THEN a[i] ELSE b[i - 8]
    BY <1>1
<1>3. DOMAIN c = 1 .. 16
    BY <1>1, <1>2
<1>4. ASSUME NEW i \in 9 .. 16 PROVE c[i] = b[i - 8]
    BY <1>2, SMTT(30)
<1>5. ASSUME NEW i \in 1 .. 8 PROVE c[i] = a[i]
    BY <1>2
<1>6. /\ Len(c) = 16 /\ DOMAIN c = 1 .. 16
      /\ \A i \in 1 .. 8 : c[i] = a[i]
      /\ \A i \in 9 .. 16 : c[i] = b[i - 8]
    BY <1>2, <1>3, <1>4, <1>5
<1> QED BY <1>6 DEF c

(* The stages of a plan are those of the two workflows, one after the other.*)
LEMMA PlanParts ==
    ASSUME NEW k \in Kind
    PROVE  /\ Len(Plan(k)) = IF k = "base" THEN 8 ELSE 16
           /\ DOMAIN Plan(k) = 1 .. Len(Plan(k))
           /\ \A i \in 1 .. 8 : Plan(k)[i] = Base[i]
           /\ k = "ai" => \A i \in 9 .. 16 : Plan(k)[i] = Narration[i - 8]
           /\ k = "layered" => \A i \in 9 .. 16 : Plan(k)[i] = Meaning[i - 8]
<1> DEFINE T == {Base[i] : i \in 1 .. 8} \cup {Narration[i] : i \in 1 .. 8}
                  \cup {Meaning[i] : i \in 1 .. 8}
<1>0. /\ Base = [i \in 1 .. 8 |-> Base[i]]
      /\ Narration = [i \in 1 .. 8 |-> Narration[i]]
      /\ Meaning = [i \in 1 .. 8 |-> Meaning[i]]
    BY DEF Base, Narration, Meaning
<1>1. Base \in Seq(T) /\ Narration \in Seq(T) /\ Meaning \in Seq(T)
    BY <1>0, EightStages
<1>2. Len(Base) = 8 /\ Len(Narration) = 8 /\ Len(Meaning) = 8
    BY BaseStages, NarrationStages, MeaningStages
<1> HIDE DEF T
<1>3. CASE k = "base"
  <2>1. Plan(k) = Base BY <1>3 DEF Plan
  <2> QED BY <1>1, <1>2, <1>3, <2>1
<1>4. CASE k = "ai"
  <2>1. Plan(k) = Base \o Narration BY <1>4 DEF Plan
  <2>2. /\ Len(Base \o Narration) = 16 /\ DOMAIN (Base \o Narration) = 1 .. 16
        /\ \A i \in 1 .. 8 : (Base \o Narration)[i] = Base[i]
        /\ \A i \in 9 .. 16 : (Base \o Narration)[i] = Narration[i - 8]
    <3>1. Base \in Seq(T) /\ Len(Base) = 8 /\ Narration \in Seq(T) /\ Len(Narration) = 8
        BY ONLY <1>1, <1>2, Zenon
    <3> QED BY ONLY <3>1, EightAndEight, SMTT(60)
  <2> QED BY <1>4, <2>1, <2>2
<1>5. CASE k = "layered"
  <2>1. Plan(k) = Base \o Meaning BY <1>5 DEF Plan
  <2>2. /\ Len(Base \o Meaning) = 16 /\ DOMAIN (Base \o Meaning) = 1 .. 16
        /\ \A i \in 1 .. 8 : (Base \o Meaning)[i] = Base[i]
        /\ \A i \in 9 .. 16 : (Base \o Meaning)[i] = Meaning[i - 8]
    <3>1. Base \in Seq(T) /\ Len(Base) = 8 /\ Meaning \in Seq(T) /\ Len(Meaning) = 8
        BY ONLY <1>1, <1>2, Zenon
    <3> QED BY ONLY <3>1, EightAndEight, SMTT(60)
  <2> QED BY <1>5, <2>1, <2>2
<1> QED BY <1>3, <1>4, <1>5 DEF Kind

LEMMA PlanStages ==
    ASSUME NEW k \in Kind
    PROVE  /\ Len(Plan(k)) \in {8, 16} /\ DOMAIN Plan(k) = 1 .. Len(Plan(k))
           /\ \A i \in 1 .. Len(Plan(k)) :
                /\ StageOK(Plan(k)[i])
                /\ "compose" \in Plan(k)[i] => i = Len(Plan(k))
                /\ Plan(k)[i] \cap FanOut # {} => i + 1 \in 1 .. Len(Plan(k))
<1>1. Len(Plan(k)) \in {8, 16} /\ DOMAIN Plan(k) = 1 .. Len(Plan(k))
    BY PlanParts
<1>2. ASSUME NEW i \in 1 .. 8
      PROVE  /\ StageOK(Plan(k)[i]) /\ "compose" \notin Plan(k)[i]
             /\ Plan(k)[i] \cap FanOut # {} => i < 8
  <2>1. Plan(k)[i] = Base[i] BY PlanParts
  <2> QED BY <2>1, BaseStages
<1>3. ASSUME NEW i \in 9 .. 16, k # "base"
      PROVE  /\ StageOK(Plan(k)[i]) /\ ("compose" \in Plan(k)[i] => i = 16)
             /\ Plan(k)[i] \cap FanOut # {} => i < 16
  <2>1. i - 8 \in 1 .. 8 /\ (i < 16 \/ i - 8 = 8) OBVIOUS
  <2>2. Plan(k)[i] = Narration[i - 8] \/ Plan(k)[i] = Meaning[i - 8]
      BY <1>3, PlanParts DEF Kind
  <2> QED BY <2>1, <2>2, NarrationStages, MeaningStages
<1>4. CASE k = "base"
  <2>1. Len(Plan(k)) = 8 BY <1>4, PlanParts
  <2> QED BY <1>1, <1>2, <2>1
<1>5. CASE k # "base"
  <2>1. Len(Plan(k)) = 16 BY <1>5, PlanParts
  <2>2. \A i \in 1 .. 16 : i \in 1 .. 8 \/ i \in 9 .. 16 OBVIOUS
  <2> QED BY <1>1, <1>2, <1>3, <1>5, <2>1, <2>2
<1> QED BY <1>4, <1>5

-----------------------------------------------------------------------------
LEMMA InitDelivery == Init => DInv
<1> SUFFICES ASSUME Init PROVE DInv
    OBVIOUS
<1>1. /\ run.pc = <<>> /\ run.val = <<>> /\ run.state = "none" /\ run.kind = "base"
      /\ run.at = 0 /\ disk = [o \in Stored |-> Absent]
    BY DEF Init, NoRun
<1>2. IInv BY InitInv
<1>3. Placed BY <1>1, PlanStages DEF Placed, Kind
<1>4. Remembered /\ SameAsFile /\ ReportLast
    BY <1>1 DEF Remembered, SameAsFile, ReportLast, Running
<1>5. \A o \in Stored : Shown(o) BY <1>1 DEF Shown, Absent
<1> QED BY <1>1, <1>2, <1>3, <1>4, <1>5 DEF DInv

(* A result stays what it is as long as its inputs do.                     *)
LEMMA SameInputs ==
    ASSUME NEW c, c[1] \in Stored,
           \A d \in Inputs(c[1]) :
             /\ d \in DOMAIN run.val <=> d \in DOMAIN run'.val
             /\ d \in DOMAIN run.val => run'.val[d] = run.val[d]
    PROVE  Computed(c)' = Computed(c)
<1>1. \A d \in Inputs(c[1]) : Known(d)' = Known(d) BY DEF Known
<1>2. c[1] # "extract" BY NamesOfCalls
<1>3. CASE c[1] = "inventory"
  <2>1. Known("extract")' = Known("extract") BY <1>1, <1>3 DEF Inputs
  <2> HIDE DEF Known
  <2> QED BY <1>3, <2>1 DEF Computed
<1>4. CASE c[1] \in {"fileText", "clusterText", "flowText"}
  <2>1. \A d \in {e \in FanOut : Gathered[e] = c[1]} : Known(d)' = Known(d)
      BY <1>1, <1>4 DEF Inputs
  <2> HIDE DEF Known
  <2>2. /\ Computed(c) = UNION {Known(d) : d \in {e \in FanOut : Gathered[e] = c[1]}}
        /\ Computed(c)' = UNION {Known(d)' : d \in {e \in FanOut : Gathered[e] = c[1]}}
      BY <1>2, <1>4 DEF Computed
  <2> QED BY <2>1, <2>2
<1>5. CASE c[1] \notin {"inventory", "fileText", "clusterText", "flowText"}
  <2>1. \A d \in Needs(c[1]) : Known(d)' = Known(d)
      BY <1>1, <1>5 DEF Inputs
  <2>2. /\ Computed(c) = UNION {Known(d) : d \in Needs(c[1])}
        /\ Computed(c)' = UNION {Known(d)' : d \in Needs(c[1])}
      BY <1>2, <1>5 DEF Computed
  <2> QED BY <2>1, <2>2
<1> QED BY <1>3, <1>4, <1>5

(* What a step of a call does to the results in memory.                    *)
Holds(c, v) ==
    run'.val = [d \in DOMAIN run.val \cup {c[1]} |-> IF d = c[1] THEN v ELSE run.val[d]]

LEMMA GotoKeeps ==
    ASSUME Shape, NEW c, NEW p, Goto(c, p)
    PROVE  run'.val = run.val
BY DEF Goto, Shape

LEMMA ResultHolds ==
    ASSUME Shape, NEW c, NEW v, Result(c, v)
    PROVE  Holds(c, v)
<1> DEFINE w == [d \in DOMAIN run.val \cup {c[1]} |-> IF d = c[1] THEN v ELSE run.val[d]]
<1>1. run' = [run EXCEPT !.pc[c] = "ok", !.val = w]
    BY DEF Result
<1> HIDE DEF w
<1>2. run'.val = w BY <1>1 DEF Shape
<1> QED BY <1>2 DEF w, Holds

(* A step of a call changes a file only when there is no result of it in   *)
(* memory, leaves one that is whole to be shown, and holds what it has.    *)
Delivers(c, p) ==
    /\ views \subseteq views' /\ hurt \subseteq hurt'
    /\ \/ p # "ok" /\ run'.val = run.val
       \/ p = "ok" /\ \E v : Holds(c, v) /\ (c[1] \in Stored => disk'[c[1]] = Full(v))
    /\ c[1] \in Stored =>
         /\ disk'[c[1]] = disk[c[1]] \/ c[1] \notin DOMAIN run.val
         /\ disk'[c[1]].state = "full" =>
              /\ disk'[c[1]] = Full(disk'[c[1]].of)
              /\ c[1] \in views' \cup hurt' \/ p = "view"
    /\ p = "view" => c[1] \in Stored /\ disk'[c[1]] = Full(Computed(c))

(* What a step adds to the results is the result of its call.              *)
LEMMA ResultAppears ==
    ASSUME NEW c, NEW p, Delivers(c, p), NEW o, o \in DOMAIN run'.val,
           o \notin DOMAIN run.val
    PROVE  c[1] = o /\ p = "ok"
<1>1. run'.val # run.val OBVIOUS
<1>2. p = "ok" /\ \E v : Holds(c, v) BY <1>1 DEF Delivers
<1>3. PICK v : Holds(c, v) BY <1>2
<1>4. DOMAIN run'.val = DOMAIN run.val \cup {c[1]} BY <1>3 DEF Holds
<1> QED BY <1>2, <1>4

(* The results of the other capabilities stay.                             *)
LEMMA OthersStay ==
    ASSUME NEW c, NEW p, Delivers(c, p), NEW o, o # c[1]
    PROVE  /\ o \in DOMAIN run.val <=> o \in DOMAIN run'.val
           /\ o \in DOMAIN run.val => run'.val[o] = run.val[o]
<1>1. CASE run'.val = run.val BY <1>1
<1>2. CASE \E v : Holds(c, v)
  <2>1. PICK v : Holds(c, v) BY <1>2
  <2>2. DOMAIN run'.val = DOMAIN run.val \cup {c[1]} BY <2>1 DEF Holds
  <2>3. o \in DOMAIN run.val => run'.val[o] = run.val[o] BY <2>1 DEF Holds
  <2> QED BY <2>2, <2>3
<1>3. run'.val = run.val \/ \E v : Holds(c, v) BY DEF Delivers
<1> QED BY <1>1, <1>2, <1>3

LEMMA DeliveryStep ==
    ASSUME DInv, IInv', NEW c \in DOMAIN run.pc, NEW p, ~Over(c), Moves(c, p),
           Touches(c), Delivers(c, p)
    PROVE  DInv'
<1>0. IInv /\ Shape /\ Placed BY DEF DInv, IInv
<1>1. DOMAIN run'.pc = DOMAIN run.pc /\ run'.state = run.state /\ run'.pc[c] = p
    BY <1>0, Moved
<1>2. \A d \in DOMAIN run.pc : d # c => run'.pc[d] = run.pc[d]
    BY <1>0, Moved
<1>3. run'.kind = run.kind /\ run'.at = run.at BY DEF Moves
<1>4. run.state = "running" /\ Running BY <1>0 DEF IInv, RestIsOver, Running
<1>5. run.at > 0 /\ run.at \in 1 .. Len(Stages) /\ run.kind \in Kind
    BY <1>0, <1>4 DEF Placed
<1>6. StageOK(Stages[run.at]) /\ ("compose" \in Stages[run.at] => run.at = Len(Stages))
    BY <1>5, PlanStages DEF Stages
<1>7. \A d \in DOMAIN run.pc : d[1] \in Stages[run.at] BY <1>0, <1>4 DEF Placed
<1>8. DOMAIN run.val \subseteq DOMAIN run'.val BY DEF Delivers, Holds
<1>9. Placed' BY <1>0, <1>1, <1>3, <1>4 DEF Placed, Stages
<1>10. Remembered'
  <2>1. ASSUME NEW d \in DOMAIN run.pc, run'.pc[d] = "ok" PROVE d[1] \in DOMAIN run'.val
    <3>1. CASE d = c BY <1>1, <2>1, <3>1 DEF Delivers, Holds
    <3>2. CASE d # c BY <1>2, <1>4, <1>8, <2>1, <3>2 DEF DInv, Remembered
    <3> QED BY <3>1, <3>2
  <2>2. \A i \in 1 .. run.at - 1 : Stages[i] \cap Stored \subseteq DOMAIN run'.val
      BY <1>4, <1>8 DEF DInv, Remembered
  <2> QED BY <1>1, <1>3, <1>4, <2>1, <2>2 DEF Remembered, Stages
<1>11. SameAsFile'
  <2> SUFFICES ASSUME NEW o \in Stored, o \in DOMAIN run'.val
               PROVE  disk'[o] = Full(run'.val[o])
      BY DEF SameAsFile, Full
  <2>1. CASE o # c[1]
    <3>1. disk'[o] = disk[o] BY <2>1 DEF Touches
    <3>2. o \in DOMAIN run.val /\ run'.val[o] = run.val[o] BY <2>1, OthersStay
    <3> QED BY <3>1, <3>2 DEF DInv, SameAsFile
  <2>2. CASE o = c[1] /\ p # "ok"
    <3>1. run'.val = run.val BY <2>2 DEF Delivers
    <3> QED BY <2>2, <3>1 DEF Delivers, DInv, SameAsFile
  <2>3. CASE o = c[1] /\ p = "ok" BY <2>3 DEF Delivers, Holds
  <2> QED BY <2>1, <2>2, <2>3
<1>12. ReportLast'
  <2> SUFFICES ASSUME "compose" \in DOMAIN run'.val
               PROVE  /\ run.at = Len(Stages)
                      /\ \A d \in DOMAIN run.pc : d[1] = "compose" => run'.pc[d] = "ok"
      BY <1>1, <1>3 DEF ReportLast, Stages
  <2>1. CASE "compose" \in DOMAIN run.val
    <3>1. \A d \in DOMAIN run.pc : d[1] = "compose" => run.pc[d] = "ok"
        BY <2>1 DEF DInv, ReportLast
    <3>2. c[1] # "compose" BY <3>1 DEF Over
    <3> QED BY <1>2, <2>1, <3>1, <3>2 DEF DInv, ReportLast
  <2>2. CASE "compose" \notin DOMAIN run.val
    <3>1. c[1] = "compose" /\ p = "ok" BY <2>2, ResultAppears
    <3>2. "compose" \in Stored
        BY DEF Stored, Caps, FanOut, Gathered, MeaningNeeds
    <3>3. \A d \in DOMAIN run.pc : d[1] = "compose" => d = c
        BY <1>0, <3>1, <3>2 DEF IInv, OneWriter
    <3> QED BY <1>1, <1>6, <1>7, <3>1, <3>3
  <2> QED BY <2>1, <2>2
<1>13. ASSUME NEW o \in Stored PROVE Shown(o)'
  <2>1. CASE o = c[1] BY <1>1, <2>1 DEF Delivers, Shown, Full
  <2>2. CASE o # c[1]
    <3>1. disk'[o] = disk[o] BY <2>2 DEF Touches
    <3>2. Shown(o) BY DEF DInv
    <3> QED BY <1>1, <1>2, <2>2, <3>1, <3>2 DEF Shown, Delivers, Full
  <2> QED BY <2>1, <2>2
<1>14. ASSUME NEW d \in DOMAIN run.pc, run'.pc[d] = "view"
       PROVE  d[1] \in Stored /\ disk'[d[1]] = Full(Computed(d)')
  <2>1. CASE d = c
    <3>1. p = "view" BY <1>1, <1>14, <2>1
    <3>2. c[1] \in Stored /\ disk'[c[1]] = Full(Computed(c)) /\ run'.val = run.val
        BY <3>1 DEF Delivers
    <3>3. Computed(c)' = Computed(c) BY <3>2, SameInputs
    <3> QED BY <2>1, <3>2, <3>3
  <2>2. CASE d # c
    <3>1. run.pc[d] = "view" BY <1>2, <1>14, <2>2
    <3>2. d[1] \in Stored /\ disk[d[1]] = Full(Computed(d)) BY <3>1 DEF DInv, Viewing
    <3>3. d[1] # c[1] BY <1>0, <2>2, <3>2 DEF IInv, OneWriter
    <3>4. disk'[d[1]] = disk[d[1]] BY <3>2, <3>3 DEF Touches
    <3>5. c[1] \notin Inputs(d[1])
        BY <1>6, <1>7, <3>2 DEF StageOK
    <3>6. \A e \in Inputs(d[1]) :
             /\ e \in DOMAIN run.val <=> e \in DOMAIN run'.val
             /\ e \in DOMAIN run.val => run'.val[e] = run.val[e]
      <4> TAKE e \in Inputs(d[1])
      <4>1. e # c[1] BY <3>5
      <4> QED BY <4>1, OthersStay
    <3>7. Computed(d)' = Computed(d) BY <3>2, <3>6, SameInputs
    <3> QED BY <3>2, <3>4, <3>7
  <2> QED BY <2>1, <2>2
<1>15. \A d \in DOMAIN run'.pc : Viewing(d)' BY <1>1, <1>14 DEF Viewing, Full
<1> QED BY <1>9, <1>10, <1>11, <1>12, <1>13, <1>15 DEF DInv

LEMMA ShownBefore ==
    ASSUME DInv, NEW c \in DOMAIN run.pc, c[1] \in Stored, disk[c[1]].state = "full"
    PROVE  /\ disk[c[1]] = Full(disk[c[1]].of)
           /\ c[1] \in views \cup hurt \/ run.pc[c] = "view"
<1>1. Shown(c[1]) BY DEF DInv
<1> QED BY <1>1 DEF Shown, DInv, IInv, OneWriter

LEMMA NotInMemory ==
    ASSUME DInv, NEW c \in DOMAIN run.pc, run.pc[c] \in {"compute", "write"}, c[1] \in Stored
    PROVE  c[1] \notin DOMAIN run.val
<1>1. NotThere(c) BY DEF DInv, IInv
<1>2. CASE disk[c[1]].state # "full"
  <2>1. c[1] \in DOMAIN run.val => disk[c[1]] = Full(run.val[c[1]])
      BY DEF DInv, SameAsFile
  <2>2. Full(run.val[c[1]]).state = "full" BY DEF Full
  <2> QED BY <1>2, <2>1, <2>2
<1>3. CASE disk[c[1]].state = "full"
  <2>1. c[1] = "compose" BY <1>1, <1>3 DEF NotThere, Empty, Cut, Cached
  <2> QED BY <2>1 DEF DInv, ReportLast
<1> QED BY <1>2, <1>3

LEMMA UnwrittenDelivers ==
    ASSUME DInv, NEW c \in DOMAIN run.pc, NEW p, p \notin {"ok", "view"}, Goto(c, p),
           disk' = disk, views' = views, hurt \subseteq hurt',
           run.pc[c] = "view" => c[1] \in hurt'
    PROVE  Delivers(c, p)
<1>1. run'.val = run.val BY GotoKeeps DEF DInv, IInv
<1>2. c[1] \in Stored /\ disk[c[1]].state = "full" =>
        /\ disk[c[1]] = Full(disk[c[1]].of)
        /\ c[1] \in views \cup hurt \/ run.pc[c] = "view"
    BY ShownBefore
<1> QED BY <1>1, <1>2 DEF Delivers

LEMMA BeginDelivery ==
    ASSUME DInv, IInv', NEW c \in DOMAIN run.pc, Begin(c)
    PROVE  DInv'
<1>0. Shape BY DEF DInv, IInv
<1>1. /\ ~Over(c) /\ disk' = disk /\ views' = views /\ hurt' = hurt
      /\ run.pc[c] # "view" /\ \E p \in {"load", "compute"} : Goto(c, p)
    BY DEF Begin, Over
<1>2. Touches(c) BY <1>0, <1>1, UntouchedTouches
<1>3. PICK p \in {"load", "compute"} : Goto(c, p) BY <1>1
<1>4. Moves(c, p) BY <1>0, <1>3, GotoMoves
<1>5. Delivers(c, p) BY <1>1, <1>3, UnwrittenDelivers
<1> QED BY <1>1, <1>2, <1>4, <1>5, DeliveryStep

LEMMA RaiseDelivery ==
    ASSUME DInv, IInv', NEW c \in DOMAIN run.pc, Raise(c)
    PROVE  DInv'
<1>0. Shape BY DEF DInv, IInv
<1>1. /\ ~Over(c) /\ disk' = disk /\ views' = views /\ Goto(c, "raised")
      /\ hurt' = hurt \cup {d[1] : d \in Writing \cap {c}}
    BY DEF Raise
<1>2. hurt \subseteq hurt' /\ (run.pc[c] = "view" => c[1] \in hurt')
    BY <1>1 DEF Writing
<1>3. Touches(c) BY <1>0, <1>1, UntouchedTouches
<1>4. Moves(c, "raised") BY <1>0, <1>1, GotoMoves
<1>5. Delivers(c, "raised") BY <1>1, <1>2, UnwrittenDelivers
<1> QED BY <1>1, <1>3, <1>4, <1>5, DeliveryStep

LEMMA AnswerDelivery ==
    ASSUME DInv, IInv', NEW c \in DOMAIN run.pc, Answer(c)
    PROVE  DInv'
<1>0. Shape BY DEF DInv, IInv
<1>1. /\ ~Over(c) /\ UNCHANGED <<disk, views, hurt>> /\ Result(c, Computed(c))
      /\ c[1] \notin Stored
    BY DEF Answer, Over
<1>2. Touches(c) /\ Moves(c, "ok") BY <1>0, <1>1, UntouchedTouches, ResultMoves
<1>3. Holds(c, Computed(c)) BY <1>0, <1>1, ResultHolds
<1>4. Delivers(c, "ok") BY <1>1, <1>3 DEF Delivers
<1> QED BY <1>1, <1>2, <1>4, DeliveryStep

LEMMA LoadDelivery ==
    ASSUME DInv, IInv', NEW c \in DOMAIN run.pc, Load(c)
    PROVE  DInv'
<1>0. Shape BY DEF DInv, IInv
<1>1. ~Over(c) /\ UNCHANGED <<disk, views, hurt>> /\ run.pc[c] = "load"
    BY DEF Load, Over
<1>2. Touches(c) BY <1>0, <1>1, UntouchedTouches
<1>3. CASE Goto(c, "unreadable")
  <2>1. Moves(c, "unreadable") BY <1>0, <1>3, GotoMoves
  <2>2. Delivers(c, "unreadable") BY <1>1, <1>3, UnwrittenDelivers
  <2> QED BY <1>1, <1>2, <2>1, <2>2, DeliveryStep
<1>4. CASE Result(c, disk[c[1]].of) /\ disk[c[1]].state = "full"
  <2>1. Moves(c, "ok") /\ Holds(c, disk[c[1]].of) BY <1>0, <1>4, ResultMoves, ResultHolds
  <2>2. c[1] \in Stored =>
          /\ disk[c[1]] = Full(disk[c[1]].of)
          /\ c[1] \in views \cup hurt
      BY <1>1, <1>4, ShownBefore
  <2>3. Delivers(c, "ok") BY <1>1, <2>1, <2>2 DEF Delivers
  <2> QED BY <1>1, <1>2, <2>1, <2>3, DeliveryStep
<1> QED BY <1>3, <1>4 DEF Load

LEMMA ViewDelivery ==
    ASSUME DInv, IInv', NEW c \in DOMAIN run.pc, View(c)
    PROVE  DInv'
<1>0. Shape BY DEF DInv, IInv
<1>1. /\ ~Over(c) /\ disk' = disk /\ hurt' = hurt /\ views' = views \cup {c[1]}
      /\ Result(c, Computed(c)) /\ run.pc[c] = "view"
    BY DEF View, Over
<1>2. Touches(c) /\ Moves(c, "ok") BY <1>0, <1>1, UntouchedTouches, ResultMoves
<1>3. Holds(c, Computed(c)) BY <1>0, <1>1, ResultHolds
<1>4. c[1] \in Stored /\ disk[c[1]] = Full(Computed(c)) BY <1>1 DEF DInv, Viewing
<1>5. disk[c[1]] = Full(disk[c[1]].of) BY <1>4 DEF Full
<1>6. Delivers(c, "ok") BY <1>1, <1>3, <1>4, <1>5 DEF Delivers
<1> QED BY <1>1, <1>2, <1>6, DeliveryStep

LEMMA OpenDelivery ==
    ASSUME DInv, IInv', NEW c \in DOMAIN run.pc, Open(c)
    PROVE  DInv'
<1>0. Shape BY DEF DInv, IInv
<1>1. /\ ~Over(c) /\ Goto(c, "write") /\ UNCHANGED <<views, hurt>> /\ c[1] \in Stored
      /\ run.pc[c] = "compute"
    BY DEF Open, Over
<1>2. Moves(c, "write") /\ run'.val = run.val BY <1>0, <1>1, GotoMoves, GotoKeeps
<1>3. Touches(c) /\ disk'[c[1]] = Empty BY <1>0, <1>1, WriteTouches DEF Open
<1>4. c[1] \notin DOMAIN run.val BY <1>1, NotInMemory
<1>5. Delivers(c, "write") BY <1>1, <1>2, <1>3, <1>4 DEF Delivers, Empty
<1> QED BY <1>1, <1>2, <1>3, <1>5, DeliveryStep

LEMMA SpillDelivery ==
    ASSUME DInv, IInv', NEW c \in DOMAIN run.pc, Spill(c)
    PROVE  DInv'
<1>0. Shape /\ c[1] \in Stored BY DEF DInv, IInv, NotThere, Spill
<1>1. ~Over(c) /\ run' = run /\ UNCHANGED <<views, hurt>> /\ run.pc[c] = "write"
    BY DEF Spill, Over
<1>2. run.pc = [run.pc EXCEPT ![c] = "write"] BY <1>0, <1>1 DEF Shape
<1>3. Moves(c, "write") BY <1>0, <1>1, <1>2 DEF Moves, Shape
<1>4. Touches(c) /\ disk'[c[1]] = Cut BY <1>0, WriteTouches DEF Spill
<1>5. c[1] \notin DOMAIN run.val BY <1>0, <1>1, NotInMemory
<1>6. Delivers(c, "write") BY <1>1, <1>4, <1>5 DEF Delivers, Cut
<1> QED BY <1>1, <1>3, <1>4, <1>6, DeliveryStep

LEMMA FinishDelivery ==
    ASSUME DInv, IInv', NEW c \in DOMAIN run.pc, Finish(c)
    PROVE  DInv'
<1>0. Shape /\ c[1] \in Stored BY DEF DInv, IInv, NotThere, Finish
<1>1. /\ ~Over(c) /\ Goto(c, "view") /\ UNCHANGED <<views, hurt>>
      /\ run.pc[c] = "write"
    BY DEF Finish, Over
<1>2. Moves(c, "view") /\ run'.val = run.val BY <1>0, <1>1, GotoMoves, GotoKeeps
<1>3. Touches(c) /\ disk'[c[1]] = Full(Computed(c)) BY <1>0, WriteTouches DEF Finish
<1>4. c[1] \notin DOMAIN run.val BY <1>0, <1>1, NotInMemory
<1>5. disk'[c[1]] = Full(disk'[c[1]].of) BY <1>3 DEF Full
<1>6. Delivers(c, "view") BY <1>0, <1>1, <1>2, <1>3, <1>4, <1>5 DEF Delivers
<1> QED BY <1>1, <1>2, <1>3, <1>6, DeliveryStep

(* The steps of an analysis as a whole leave no result without Markdown,   *)
(* except those of a process that stops.                                   *)
LEMMA WholeDelivery ==
    ASSUME DInv, IInv', disk' = disk, views' = views, hurt \subseteq hurt',
           \A c \in DOMAIN run.pc : run.pc[c] = "view" => c[1] \in hurt',
           \A c \in DOMAIN run'.pc : run'.pc[c] # "view",
           Placed', Remembered', SameAsFile', ReportLast'
    PROVE  DInv'
<1>1. \A o \in Stored : Shown(o)' BY DEF DInv, Shown, Full
<1>2. \A c \in DOMAIN run'.pc : Viewing(c)' BY DEF Viewing
<1> QED BY <1>1, <1>2 DEF DInv

LEMMA StageDone ==
    ASSUME DInv, Running, \A c \in DOMAIN run.pc : Over(c), Failed = {},
           NEW i \in 1 .. run.at
    PROVE  Stages[i] \cap Stored \subseteq DOMAIN run.val
<1>0. run.at \in Nat BY DEF DInv, Placed
<1>1. CASE i < run.at BY <1>0, <1>1 DEF DInv, Remembered
<1>2. CASE i = run.at
  <2>1. ASSUME NEW o \in Stages[run.at] \cap Stored PROVE o \in DOMAIN run.val
    <3>1. PICK c \in DOMAIN run.pc : c[1] = o
        BY <1>0, <1>2, <2>1 DEF DInv, Placed, Running
    <3>2. run.pc[c] = "ok" BY DEF Failed, Over
    <3> QED BY <3>1, <3>2 DEF DInv, Remembered
  <2> QED BY <1>2, <2>1
<1> QED BY <1>0, <1>1, <1>2

LEMMA EnterDelivery ==
    ASSUME DInv, IInv', Running, \A c \in DOMAIN run.pc : Over(c), Failed = {},
           run.at # Len(Stages), UNCHANGED <<disk, views, hurt>>,
           NEW n, Enter(After(run.at), n)
    PROVE  DInv'
<1> DEFINE i == After(run.at)
           calls == CallsOf(Stages[i])
<1>1. PICK w : run' = [run EXCEPT !.at = i, !.width = w, !.pc = [c \in calls |-> "todo"]]
    BY DEF Enter, Stages
<1>2. run.kind \in Kind /\ run.at + 1 \in 1 .. Len(Stages) /\ run.at \in Nat
      /\ Len(Stages) \in Nat
    BY PlanStages DEF DInv, Placed, Stages
<1>3. i \in 1 .. Len(Stages) /\ \A j \in 1 .. i - 1 : Stages[j] \cap Stored \subseteq DOMAIN run.val
  <2>1. CASE i = run.at + 1 BY <1>2, <2>1, StageDone
  <2>2. CASE i = run.at + 2 /\ Stages[run.at + 1] \cap FanOut # {}
    <3>1. StageOK(Stages[run.at + 1]) /\ run.at + 2 \in 1 .. Len(Stages)
        BY <1>2, <2>2, PlanStages DEF Stages
    <3>2. Stages[run.at + 1] \cap Stored = {} BY <2>2, <3>1 DEF StageOK
    <3>3. \A j \in 1 .. i - 1 : j \in 1 .. run.at \/ j = run.at + 1 BY <1>2, <2>2
    <3> QED BY <2>2, <3>1, <3>2, <3>3, StageDone
  <2> QED BY <2>1, <2>2 DEF After, Stages
<1>4. \A c \in calls : c[1] \in Stages[i] BY DEF CallsOf
<1>5. ASSUME NEW o \in Stages[i] \cap Stored PROVE \E c \in calls : c[1] = o
  <2>1. ItemsOf(o) = {NoFile} BY NamesOfCalls DEF ItemsOf
  <2>2. <<o, NoFile>> \in {o} \X ItemsOf(o) BY <2>1
  <2>3. <<o, NoFile>> \in calls BY <2>2 DEF CallsOf
  <2> QED BY <2>3
<1>6. "compose" \notin DOMAIN run.val BY DEF DInv, ReportLast
<1> HIDE DEF calls, i
<1>7. /\ run'.state = run.state /\ run'.kind = run.kind /\ run'.at = i
      /\ run'.pc = [c \in calls |-> "todo"] /\ run'.val = run.val
    BY <1>1 DEF DInv, IInv, Shape
<1>8. Placed'
    BY <1>2, <1>3, <1>4, <1>5, <1>7 DEF Placed, Stages
<1>9. Remembered' BY <1>3, <1>7 DEF Remembered, Stages, Running
<1>10. SameAsFile' BY <1>7 DEF DInv, SameAsFile
<1>11. ReportLast' BY <1>6, <1>7 DEF ReportLast
<1>12. \A c \in DOMAIN run.pc : run.pc[c] # "view" BY DEF Over
<1>13. \A c \in DOMAIN run'.pc : run'.pc[c] # "view" BY <1>7
<1> QED BY <1>8, <1>9, <1>10, <1>11, <1>12, <1>13, WholeDelivery

LEMMA AdvanceDelivery ==
    ASSUME DInv, IInv', Advance
    PROVE  DInv'
<1>0. /\ Running /\ UNCHANGED <<disk, views, hurt>> /\ \A c \in DOMAIN run.pc : Over(c)
      /\ \A c \in DOMAIN run.pc : run.pc[c] # "view"
    BY DEF Advance, Over
<1>1. CASE run' = [run EXCEPT !.state = "error", !.val = <<>>]
  <2>1. /\ run'.pc = run.pc /\ run'.state = "error" /\ run'.val = <<>>
        /\ run'.at = run.at /\ run'.kind = run.kind
      BY <1>1 DEF DInv, IInv, Shape
  <2>2. Placed' /\ Remembered' BY <2>1 DEF DInv, Placed, Remembered, Stages, Running
  <2>3. SameAsFile' /\ ReportLast' BY <2>1 DEF SameAsFile, ReportLast
  <2> QED BY <1>0, <2>1, <2>2, <2>3, WholeDelivery
<1>2. CASE Failed = {} /\ run.at = Len(Stages)
           /\ run' = [run EXCEPT !.state = "ok", !.pc = <<>>]
  <2>1. /\ run'.pc = <<>> /\ run'.state = "ok" /\ run'.val = run.val
        /\ run'.at = run.at /\ run'.kind = run.kind
      BY <1>2 DEF DInv, IInv, Shape
  <2>2. Products(run.kind) \subseteq DOMAIN run.val
    <3>1. DOMAIN Stages = 1 .. run.at BY <1>2, PlanStages DEF DInv, Placed, Stages
    <3>2. \A j \in 1 .. run.at : Stages[j] \cap Stored \subseteq DOMAIN run.val
        BY <1>0, <1>2, StageDone
    <3> QED BY <3>1, <3>2 DEF Products, Stages
  <2>3. Placed' BY <2>1 DEF DInv, Placed, Stages
  <2>4. Remembered' BY <2>1, <2>2 DEF Remembered, Running
  <2>5. SameAsFile' BY <1>0, <2>1 DEF DInv, SameAsFile
  <2>6. ReportLast' BY <2>1 DEF DInv, ReportLast, Stages
  <2> QED BY <1>0, <2>1, <2>3, <2>4, <2>5, <2>6, WholeDelivery
<1>3. CASE Failed = {} /\ run.at # Len(Stages) /\ \E n \in Requests : Enter(After(run.at), n)
    BY <1>0, <1>3, EnterDelivery
<1> QED BY <1>1, <1>2, <1>3 DEF Advance, Proceed, Stages

LEMMA SubmitDelivery ==
    ASSUME DInv, IInv', NEW k \in Kind, Submit(k)
    PROVE  DInv'
<1>1. /\ run'.pc = <<>> /\ run'.state = "running" /\ run'.val = <<>> /\ run'.at = 0
      /\ run'.kind = k /\ UNCHANGED <<disk, views, hurt>>
    BY DEF Submit, NoRun
<1>2. \A c \in DOMAIN run.pc : run.pc[c] # "view"
    BY DEF Submit, DInv, IInv, RestIsOver, Over
<1>3. Placed' BY <1>1, PlanStages DEF Placed, Stages
<1>4. Remembered' /\ SameAsFile' /\ ReportLast'
    BY <1>1 DEF Remembered, SameAsFile, ReportLast
<1> QED BY <1>1, <1>2, <1>3, <1>4, WholeDelivery

LEMMA StopDelivery ==
    ASSUME DInv, IInv', Stop
    PROVE  DInv'
<1>1. /\ run'.pc = <<>> /\ run'.state = "lost" /\ run'.val = <<>> /\ run'.at = run.at
      /\ run'.kind = run.kind /\ UNCHANGED <<disk, views>>
    BY DEF Stop, DInv, IInv, Shape
<1>2. hurt' = hurt \cup {c[1] : c \in Writing} BY DEF Stop
<1>3. \A c \in DOMAIN run.pc : run.pc[c] = "view" => c[1] \in hurt' BY <1>2 DEF Writing
<1>4. Placed' BY <1>1 DEF DInv, Placed, Stages
<1>5. Remembered' /\ SameAsFile' /\ ReportLast'
    BY <1>1 DEF Remembered, SameAsFile, ReportLast, Running
<1> QED BY <1>1, <1>2, <1>3, <1>4, <1>5, WholeDelivery

(* Edits do not matter to a result that is being written: only the members *)
(* of the first fan-out look at the sources.                               *)
LEMMA UnchangedDelivery ==
    ASSUME DInv, IInv', UNCHANGED <<disk, views, run, hurt>>
    PROVE  DInv'
<1>1. Placed' /\ Remembered' /\ SameAsFile' /\ ReportLast'
    BY DEF DInv, Placed, Remembered, SameAsFile, ReportLast, Stages, Running
<1>2. \A o \in Stored : Shown(o)' BY DEF DInv, Shown
<1>3. ASSUME NEW c \in DOMAIN run.pc, run.pc[c] = "view" PROVE Viewing(c)'
  <2>1. c[1] \in Stored /\ disk[c[1]] = Full(Computed(c)) BY <1>3 DEF DInv, Viewing
  <2>2. Computed(c)' = Computed(c) BY <2>1, SameInputs
  <2> QED BY <2>1, <2>2 DEF Viewing
<1>4. \A c \in DOMAIN run'.pc : Viewing(c)' BY <1>3 DEF Viewing
<1> QED BY <1>1, <1>2, <1>4 DEF DInv

LEMMA NextDelivery == DInv /\ [Next]_vars => DInv'
<1> SUFFICES ASSUME DInv, [Next]_vars PROVE DInv'
    OBVIOUS
<1>0. IInv' BY NextInv DEF DInv
<1>1. ASSUME NEW k \in Kind, Submit(k) PROVE DInv' BY <1>0, <1>1, SubmitDelivery
<1>2. CASE Advance BY <1>0, <1>2, AdvanceDelivery
<1>3. ASSUME NEW c \in DOMAIN run.pc,
             \/ Begin(c) \/ Answer(c) \/ Load(c) \/ Open(c)
             \/ Spill(c) \/ Finish(c) \/ View(c) \/ Raise(c)
      PROVE  DInv'
    BY <1>0, <1>3, BeginDelivery, AnswerDelivery, LoadDelivery, OpenDelivery,
       SpillDelivery, FinishDelivery, ViewDelivery, RaiseDelivery
<1>4. CASE Edit BY <1>0, <1>4, UnchangedDelivery DEF Edit
<1>5. CASE Stop BY <1>0, <1>5, StopDelivery
<1>6. CASE UNCHANGED vars BY <1>0, <1>6, UnchangedDelivery DEF vars
<1> QED BY <1>1, <1>2, <1>3, <1>4, <1>5, <1>6 DEF Next, RunStep

(* An analysis that ends well has every result of its kind, each is what   *)
(* the directory holds, whether this analysis made it or an earlier one,   *)
(* and has its Markdown unless its writer was once interrupted between the *)
(* two (the handlers' write_json_artifact and Markdown writers).           *)
THEOREM ResultsAreDelivered == Spec => []Delivered
<1>1. DInv => Delivered
  <2> SUFFICES ASSUME DInv, run.state = "ok", NEW o \in Products(run.kind)
               PROVE  disk[o] = Full(run.val[o]) /\ o \in views \cup hurt
      BY DEF Delivered
  <2>1. o \in Stored /\ o \in DOMAIN run.val BY DEF DInv, Remembered, Products
  <2>2. disk[o] = Full(run.val[o]) BY <2>1 DEF DInv, SameAsFile
  <2>3. Shown(o) /\ disk[o].state = "full" BY <2>1, <2>2 DEF DInv, Full
  <2>4. \A c \in DOMAIN run.pc : run.pc[c] # "view"
      BY DEF DInv, IInv, RestIsOver, Running, Over
  <2> QED BY <2>2, <2>3, <2>4 DEF Shown
<1> QED BY <1>1, InitDelivery, NextDelivery, PTL DEF Spec

-----------------------------------------------------------------------------
(* All results are about one inventory: the one that is there, from the    *)
(* moment it is whole.                                                     *)

Sighted == \A i \in DOMAIN Sights : Sights[i] # {}

Seen == {Sights[i] : i \in DOMAIN kinds}

(* One version of each file.                                               *)
Pairs(X, S) == \E inv \in [S -> Versions] : X = {<<f, inv[f]>> : f \in S}

Inv   == disk["inventory"].of
Whole == disk["inventory"].state = "full"

OneInventory ==
    /\ Whole => \E S \in Seen : \E X \in Inv : Inv = {X} /\ Pairs(X, S)
    /\ \A o \in Stored : disk[o].state = "full" => Whole /\ disk[o].of = Inv

SeesSights == Running => run.sees \in Seen

VersionInRange ==
    /\ version \in Nat /\ upsets \in Nat /\ version <= upsets /\ version \in Versions
    /\ kinds \in Seq(Kind) /\ Len(kinds) <= Len(Sights)

(* The results in memory, but for what the members of the first fan-out    *)
(* have found so far.                                                      *)
ValuesAgree ==
    \A d \in DOMAIN run.val \ {"scan", "extract"} : Whole /\ run.val[d] = Inv

ExtractLate == "extract" \in DOMAIN run.val => run.at >= 2

Extracting ==
    Running /\ run.at > 0 /\ Stages[run.at] = {"extract"} =>
      /\ DOMAIN run.pc = {"extract"} \X run.sees
      /\ Pairs(UNION Known("extract"),
               {f \in run.sees : run.pc[<<"extract", f>>] = "ok"})

Manned ==
    Running /\ run.at > 0 =>
      \A e \in FanOut \ {"extract"} :
        Stages[run.at] = {e} => \E c \in DOMAIN run.pc : c[1] = e

(* A call that puts the results of a fan-out together has them.            *)
Supplied(cap) ==
    /\ cap = "inventory" => Pairs(UNION Known("extract"), run.sees)
    /\ \A e \in FanOut \ {"extract"} : Gathered[e] = cap => e \in DOMAIN run.val

Gathering(c) ==
    /\ c[1] \in Stored
    /\ \/ run.pc[c] \in {"compute", "write", "view"}
       \/ run.pc[c] = "todo" /\ ~Ready(disk[c[1]])
    => Supplied(c[1])

VInv ==
    /\ DInv /\ OneInventory /\ SeesSights /\ VersionInRange /\ ValuesAgree
    /\ ExtractLate /\ Extracting /\ Manned
    /\ \A c \in DOMAIN run.pc : Gathering(c)

-----------------------------------------------------------------------------
(* The order of the stages: what a call needs comes earlier, a fan-out is  *)
(* alone in its stage, and is followed by the call that gathers it.        *)

Made == {"scan", "extract", "inventory", "fileText", "clusterText", "flowText"}

Has(cap, S) == Needs(cap) \cap Stored \cap S # {}

LEMMA WhatIsNeeded ==
    /\ \A cap \in {"relations", "breakdowns", "clusters", "flows", "dossier", "validate",
                   "unknowns"} : "inventory" \in Needs(cap) \cap Stored
    /\ "breakdowns" \in Needs("enrich") \cap Stored
    /\ \A cap \in {"context", "summarize", "explainFlow", "modules", "subsystems"} :
         "clusters" \in Needs(cap) \cap Stored
    /\ \A cap \in {"explain", "abilities", "actions", "functions", "purpose", "behavior",
                   "paths"} : "enrich" \in Needs(cap) \cap Stored
    /\ "dossier" \in Needs("repoText") \cap Stored
    /\ "subsystems" \in Needs("system") \cap Stored
    /\ "system" \in Needs("compose") \cap Stored
<1> USE DEF Needs, Stored, FanOut, Gathered, Caps, BaseNeeds, ReportNeeds,
            NarrationNeeds, MeaningNeeds
<1>1. \A cap \in {"relations", "breakdowns", "clusters", "flows", "dossier", "validate",
                  "unknowns"} : "inventory" \in Needs(cap) \cap Stored
    OBVIOUS
<1>2. "breakdowns" \in Needs("enrich") \cap Stored
    OBVIOUS
<1>3. \A cap \in {"context", "summarize", "explainFlow", "modules", "subsystems"} :
        "clusters" \in Needs(cap) \cap Stored
    OBVIOUS
<1>4. \A cap \in {"explain", "abilities", "actions", "functions", "purpose", "behavior",
                  "paths"} : "enrich" \in Needs(cap) \cap Stored
    OBVIOUS
<1>5. "dossier" \in Needs("repoText") \cap Stored
    OBVIOUS
<1>6. "subsystems" \in Needs("system") \cap Stored /\ "system" \in Needs("compose") \cap Stored
    OBVIOUS
<1> HIDE DEF Needs, Stored, FanOut, Gathered, Caps, BaseNeeds, ReportNeeds,
             NarrationNeeds, MeaningNeeds
<1> QED BY <1>1, <1>2, <1>3, <1>4, <1>5, <1>6

(* No call is made of the scan, or of the members of the first fan-out but *)
(* the one that gathers them.                                              *)
LEMMA NeedsAreResults ==
    \A cap : Needs(cap) \cap {"scan", "extract"} = {}
<1>1. ASSUME NEW cap \in DOMAIN BaseNeeds PROVE BaseNeeds[cap] \cap {"scan", "extract"} = {}
    BY DEF BaseNeeds
<1>2. ASSUME NEW cap \in DOMAIN ReportNeeds
      PROVE  ReportNeeds[cap] \cap {"scan", "extract"} = {}
    BY DEF ReportNeeds
<1>3. ASSUME NEW cap \in DOMAIN NarrationNeeds
      PROVE  NarrationNeeds[cap] \cap {"scan", "extract"} = {}
    BY DEF NarrationNeeds
<1>4. ASSUME NEW cap \in DOMAIN MeaningNeeds
      PROVE  MeaningNeeds[cap] \cap {"scan", "extract"} = {}
    BY DEF MeaningNeeds
<1> QED BY <1>1, <1>2, <1>3, <1>4 DEF Needs

LEMMA GatheredIs ==
    /\ FanOut = {"extract", "explain", "summarize", "explainFlow"}
    /\ Gathered["extract"] = "inventory" /\ Gathered["explain"] = "fileText"
    /\ Gathered["summarize"] = "clusterText" /\ Gathered["explainFlow"] = "flowText"
BY DEF FanOut, Gathered

(* What is said of each capability of a stage, given the stage before it   *)
(* and those that are behind.                                              *)
OrderOf(cap, S, before, behind) ==
    /\ cap \in FanOut => S = {cap}
    /\ \A e \in FanOut : Gathered[e] = cap => before = {e}
    /\ cap \notin Made => \E B \in behind : Has(cap, B)

LEMMA OrderIn ==
    ASSUME NEW cap, NEW S, NEW before, NEW behind,
           cap \notin FanOut, cap \notin Made, NEW B \in behind, Has(cap, B)
    PROVE  OrderOf(cap, S, before, behind)
BY GatheredIs DEF OrderOf, Made

LEMMA BaseOrder ==
    ASSUME NEW i \in 1 .. 8, NEW cap \in Base[i]
    PROVE  /\ OrderOf(cap, Base[i], Base[i - 1], {Base[j] : j \in 1 .. i - 1})
           /\ cap = "extract" => i = 2
           /\ cap = "inventory" => i = 3
           /\ cap # "explain"
           /\ \A e \in FanOut : Gathered[e] = cap => i > 1
<1>0. /\ Base[1] = {"scan"} /\ Base[2] = {"extract"} /\ Base[3] = {"inventory"}
      /\ Base[4] = {"relations"} /\ Base[5] = {"breakdowns"}
      /\ Base[6] = {"enrich", "clusters"} /\ Base[7] = {"flows"}
      /\ Base[8] = {"dossier", "validate", "unknowns"}
    BY DEF Base
<1>1. CASE i = 1 BY <1>0, <1>1, GatheredIs DEF OrderOf, Made
<1>2. CASE i = 2 BY <1>0, <1>2, GatheredIs DEF OrderOf, Made
<1>3. CASE i = 3 BY <1>0, <1>3, GatheredIs DEF OrderOf, Made
<1>4. CASE i > 3
  <2>1. /\ cap \notin FanOut /\ cap \notin Made /\ cap # "extract" /\ cap # "inventory"
        /\ cap # "explain" /\ \A e \in FanOut : Gathered[e] # cap
    <3>1. cap \in {"relations", "breakdowns", "enrich", "clusters", "flows", "dossier",
                   "validate", "unknowns"}
      <4>1. i = 4 \/ i = 5 \/ i = 6 \/ i = 7 \/ i = 8 BY <1>4
      <4> QED BY <1>0, <4>1
    <3> QED BY <3>1, GatheredIs DEF Made
  <2>2. Base[3] \in {Base[j] : j \in 1 .. i - 1} BY <1>4
  <2>3. CASE cap = "enrich"
    <3>1. i = 6
      <4>1. i = 4 \/ i = 5 \/ i = 6 \/ i = 7 \/ i = 8 BY <1>4
      <4> QED BY <1>0, <2>3, <4>1
    <3>2. Base[5] \in {Base[j] : j \in 1 .. i - 1} BY <3>1
    <3>3. Has(cap, Base[5]) BY <1>0, <2>3, WhatIsNeeded DEF Has
    <3> QED BY <2>1, <3>2, <3>3, OrderIn
  <2>4. CASE cap # "enrich"
    <3>1. cap \in {"relations", "breakdowns", "clusters", "flows", "dossier",
                   "validate", "unknowns"}
      <4>1. i = 4 \/ i = 5 \/ i = 6 \/ i = 7 \/ i = 8 BY <1>4
      <4> QED BY <1>0, <2>4, <4>1
    <3>2. Has(cap, Base[3]) BY <1>0, <3>1, WhatIsNeeded DEF Has
    <3> QED BY <2>1, <2>2, <3>2, OrderIn
  <2> QED BY <2>3, <2>4
<1> QED BY <1>1, <1>2, <1>3, <1>4

LEMMA NarrationOrder ==
    ASSUME NEW i \in 1 .. 8, NEW cap \in Narration[i]
    PROVE  /\ OrderOf(cap, Narration[i], Narration[i - 1], {Base[6], Base[8]})
           /\ cap # "extract" /\ cap # "inventory"
           /\ \A e \in FanOut : Gathered[e] = cap => i > 1
           /\ cap = "explain" => "enrich" \in Base[6]
<1>0. /\ Narration[1] = {"context"} /\ Narration[2] = {"explain"}
      /\ Narration[3] = {"fileText"} /\ Narration[4] = {"summarize"}
      /\ Narration[5] = {"clusterText"} /\ Narration[6] = {"explainFlow"}
      /\ Narration[7] = {"flowText"} /\ Narration[8] = {"repoText"}
    BY DEF Narration
<1>a. "clusters" \in Base[6] /\ "enrich" \in Base[6] /\ "dossier" \in Base[8]
    BY DEF Base
<1>b. /\ Has("context", Base[6]) /\ Has("summarize", Base[6]) /\ Has("explainFlow", Base[6])
      /\ Has("explain", Base[6]) /\ Has("repoText", Base[8])
    BY <1>a, WhatIsNeeded DEF Has
<1>1. CASE i = 1 BY <1>0, <1>a, <1>b, <1>1, GatheredIs DEF OrderOf, Made
<1>2. CASE i = 2 BY <1>0, <1>a, <1>b, <1>2, GatheredIs DEF OrderOf, Made
<1>3. CASE i = 3 BY <1>0, <1>3, GatheredIs DEF OrderOf, Made
<1>4. CASE i = 4 BY <1>0, <1>b, <1>4, GatheredIs DEF OrderOf, Made
<1>5. CASE i = 5 BY <1>0, <1>5, GatheredIs DEF OrderOf, Made
<1>6. CASE i = 6 BY <1>0, <1>b, <1>6, GatheredIs DEF OrderOf, Made
<1>7. CASE i = 7 BY <1>0, <1>7, GatheredIs DEF OrderOf, Made
<1>8. CASE i = 8 BY <1>0, <1>b, <1>8, GatheredIs DEF OrderOf, Made
<1> QED BY <1>1, <1>2, <1>3, <1>4, <1>5, <1>6, <1>7, <1>8

LEMMA MeaningOrder ==
    ASSUME NEW i \in 1 .. 8, NEW cap \in Meaning[i]
    PROVE  /\ cap \notin FanOut /\ cap \notin Made
           /\ Has(cap, Base[6]) \/ (i > 1 /\ Has(cap, Meaning[i - 1]))
<1>0. /\ Meaning[1] = {"abilities"} /\ Meaning[2] = {"actions"}
      /\ Meaning[3] = {"functions"} /\ Meaning[4] = {"purpose", "behavior", "paths"}
      /\ Meaning[5] = {"modules"} /\ Meaning[6] = {"subsystems"}
      /\ Meaning[7] = {"system"} /\ Meaning[8] = {"compose"}
    BY DEF Meaning
<1>a. "clusters" \in Base[6] /\ "enrich" \in Base[6]
    BY DEF Base
<1>1. \/ i \in 1 .. 6 /\ cap \in {"abilities", "actions", "functions", "purpose", "behavior",
                                  "paths", "modules", "subsystems"}
      \/ i = 7 /\ cap = "system"
      \/ i = 8 /\ cap = "compose"
  <2>1. i = 1 \/ i = 2 \/ i = 3 \/ i = 4 \/ i = 5 \/ i = 6 \/ i = 7 \/ i = 8 OBVIOUS
  <2> QED BY <1>0, <2>1
<1>2. cap \notin FanOut /\ cap \notin Made
  <2>1. cap \in {"abilities", "actions", "functions", "purpose", "behavior", "paths",
                 "modules", "subsystems", "system", "compose"}
      BY <1>1
  <2> QED BY <2>1, GatheredIs DEF Made
<1>b. /\ \A c \in {"modules", "subsystems"} : Has(c, Base[6])
      /\ \A c \in {"abilities", "actions", "functions", "purpose", "behavior", "paths"} :
           Has(c, Base[6])
    BY <1>a, WhatIsNeeded DEF Has
<1>c. Has("system", Meaning[6]) /\ Has("compose", Meaning[7])
    BY <1>0, WhatIsNeeded DEF Has
<1>3. CASE i = 7 /\ cap = "system" BY <1>c, <1>2, <1>3
<1>4. CASE i = 8 /\ cap = "compose" BY <1>c, <1>2, <1>4
<1>5. CASE cap \in {"modules", "subsystems"} BY <1>b, <1>2, <1>5
<1>6. CASE cap \in {"abilities", "actions", "functions", "purpose", "behavior", "paths"}
    BY <1>b, <1>2, <1>6
<1>7. \/ cap \in {"modules", "subsystems"}
      \/ cap \in {"abilities", "actions", "functions", "purpose", "behavior", "paths"}
      \/ i = 7 /\ cap = "system"
      \/ i = 8 /\ cap = "compose"
    BY <1>1
<1> QED BY <1>3, <1>4, <1>5, <1>6, <1>7

LEMMA PlanOrder ==
    ASSUME NEW k \in Kind, NEW i \in 1 .. Len(Plan(k)), NEW cap \in Plan(k)[i]
    PROVE  /\ cap \in FanOut => Plan(k)[i] = {cap}
           /\ \A e \in FanOut : Gathered[e] = cap => i > 1 /\ Plan(k)[i - 1] = {e}
           /\ cap = "extract" => i = 2
           /\ cap \notin Made => \E j \in 1 .. i - 1 : Has(cap, Plan(k)[j])
           /\ cap = "explain" => \E j \in 1 .. i - 1 : "enrich" \in Plan(k)[j]
<1>0. 6 \in 1 .. 8 /\ 8 \in 1 .. 8 OBVIOUS
<1>a. Len(Plan(k)) = IF k = "base" THEN 8 ELSE 16
    BY PlanParts
<1>b. \A j \in 1 .. 8 : Plan(k)[j] = Base[j]
    BY PlanParts
<1>c. k = "ai" => \A j \in 9 .. 16 : Plan(k)[j] = Narration[j - 8]
    BY PlanParts
<1>d. k = "layered" => \A j \in 9 .. 16 : Plan(k)[j] = Meaning[j - 8]
    BY PlanParts
<1>1. CASE i \in 1 .. 8
  <2>1. Plan(k)[i] = Base[i] BY <1>1, PlanParts
  <2>2. cap \in Base[i] BY <2>1
  <2>3. /\ OrderOf(cap, Base[i], Base[i - 1], {Base[j] : j \in 1 .. i - 1})
        /\ cap = "extract" => i = 2
        /\ cap = "inventory" => i = 3
        /\ cap # "explain"
        /\ \A e \in FanOut : Gathered[e] = cap => i > 1
      BY <1>1, <2>2, BaseOrder
  <2>4. ASSUME NEW e \in FanOut, Gathered[e] = cap PROVE i > 1 /\ Plan(k)[i - 1] = {e}
    <3>1. i > 1 /\ i - 1 \in 1 .. 8 BY <1>1, <2>3, <2>4
    <3>2. Plan(k)[i - 1] = Base[i - 1] BY <3>1, PlanParts
    <3> QED BY <2>3, <2>4, <3>1, <3>2 DEF OrderOf
  <2>5. ASSUME cap \notin Made PROVE \E j \in 1 .. i - 1 : Has(cap, Plan(k)[j])
    <3>1. PICK j \in 1 .. i - 1 : Has(cap, Base[j]) BY <2>3, <2>5 DEF OrderOf
    <3>2. j \in 1 .. 8 BY <1>1
    <3>3. Plan(k)[j] = Base[j] BY <3>2, PlanParts
    <3> QED BY <3>1, <3>3
  <2> QED BY <2>1, <2>3, <2>4, <2>5 DEF OrderOf
<1>2. CASE i \in 9 .. 16 /\ k = "ai"
  <2>0. Plan(k)[i] = Narration[i - 8] BY <1>2, <1>c
  <2>1. Plan(k)[i] = Narration[i - 8] /\ i - 8 \in 1 .. 8 BY <1>2, <2>0
  <2>2. cap \in Narration[i - 8] BY <2>1
  <2>3. /\ OrderOf(cap, Narration[i - 8], Narration[i - 8 - 1], {Base[6], Base[8]})
        /\ cap # "extract" /\ cap # "inventory"
        /\ \A e \in FanOut : Gathered[e] = cap => i - 8 > 1
        /\ cap = "explain" => "enrich" \in Base[6]
      BY <2>1, <2>2, NarrationOrder
  <2>4. ASSUME NEW e \in FanOut, Gathered[e] = cap PROVE i > 1 /\ Plan(k)[i - 1] = {e}
    <3>1. i - 1 \in 9 .. 16 /\ i - 8 - 1 = i - 1 - 8 BY <1>2, <2>3, <2>4
    <3>2. Plan(k)[i - 1] = Narration[i - 8 - 1] BY <1>2, <1>c, <3>1
    <3>3. i > 1 BY <1>2
    <3>4. Narration[i - 8 - 1] = {e} BY <2>3, <2>4 DEF OrderOf
    <3> QED BY <3>2, <3>3, <3>4
  <2>5. Plan(k)[6] = Base[6] /\ Plan(k)[8] = Base[8] /\ 6 \in 1 .. i - 1 /\ 8 \in 1 .. i - 1
    <3>1. 6 \in 1 .. i - 1 /\ 8 \in 1 .. i - 1 BY <1>2
    <3>2. Plan(k)[6] = Base[6] BY ONLY <1>0, <1>b
    <3>3. Plan(k)[8] = Base[8] BY ONLY <1>0, <1>b
    <3> QED BY <3>1, <3>2, <3>3
  <2> QED BY <2>1, <2>3, <2>4, <2>5 DEF OrderOf
<1>3. CASE i \in 9 .. 16 /\ k = "layered"
  <2>0. Plan(k)[i] = Meaning[i - 8] BY <1>3, <1>d
  <2>1. Plan(k)[i] = Meaning[i - 8] /\ i - 8 \in 1 .. 8 BY <1>3, <2>0
  <2>2. cap \in Meaning[i - 8] BY <2>1
  <2>3. /\ cap \notin FanOut /\ cap \notin Made
        /\ Has(cap, Base[6]) \/ (i - 8 > 1 /\ Has(cap, Meaning[i - 8 - 1]))
      BY <2>1, <2>2, MeaningOrder
  <2>4. cap # "extract" /\ cap # "explain" /\ \A e \in FanOut : Gathered[e] # cap
      BY <2>3, GatheredIs DEF Made
  <2>5. CASE Has(cap, Base[6])
    <3>1. Plan(k)[6] = Base[6] /\ 6 \in 1 .. i - 1 BY <1>0, <1>3, <1>b
    <3> QED BY <2>3, <2>4, <2>5, <3>1
  <2>6. CASE i - 8 > 1 /\ Has(cap, Meaning[i - 8 - 1])
    <3>1. i - 1 \in 9 .. 16 /\ i - 8 - 1 = i - 1 - 8 /\ i - 1 \in 1 .. i - 1 BY <1>3, <2>6
    <3>2. Plan(k)[i - 1] = Meaning[i - 8 - 1] BY <1>3, <1>d, <3>1
    <3> QED BY <2>3, <2>4, <2>6, <3>1, <3>2
  <2> QED BY <2>3, <2>5, <2>6
<1>4. i \in 1 .. 8 \/ (i \in 9 .. 16 /\ k # "base")
  <2>1. CASE k = "base" BY <1>a, <2>1
  <2>2. CASE k # "base"
    <3>1. i \in 1 .. 16 BY <1>a, <2>2
    <3> QED BY <2>2, <3>1
  <2> QED BY <2>1, <2>2
<1> QED BY <1>1, <1>2, <1>3, <1>4 DEF Kind

-----------------------------------------------------------------------------
LEMMA InitAgreement == Init => VInv
<1> SUFFICES ASSUME Init PROVE VInv
    OBVIOUS
<1>1. /\ run.pc = <<>> /\ run.val = <<>> /\ run.state = "none" /\ run.at = 0
      /\ disk = [o \in Stored |-> Absent]
    BY DEF Init, NoRun
<1>2. DInv BY InitDelivery
<1>3. "inventory" \in Stored BY DEF Stored, Caps, FanOut, Gathered
<1>4. OneInventory BY <1>1, <1>3 DEF OneInventory, Whole, Absent
<1>5. VersionInRange
  <2>1. "base" \in Kind /\ MaxUpsets["base"] \in Nat BY AnalysisConstants DEF Kind
  <2>2. 0 \in 0 .. MaxUpsets["base"] BY <2>1
  <2>3. 0 \in Versions BY <2>1, <2>2 DEF Versions
  <2>4. kinds = <<>> /\ Len(Sights) \in Nat BY AnalysisConstants DEF Init
  <2> QED BY <2>3, <2>4 DEF VersionInRange, Init
<1>6. SeesSights /\ ValuesAgree /\ ExtractLate /\ Extracting /\ Manned
    BY <1>1 DEF SeesSights, ValuesAgree, ExtractLate, Extracting, Manned, Running
<1> QED BY <1>1, <1>2, <1>4, <1>5, <1>6 DEF VInv

LEMMA InventoryStored ==
    "inventory" \in Cached /\ "inventory" \in Stored
BY DEF Cached, Stored, Caps, FanOut, Gathered

LEMMA StagesOfCalls ==
    ASSUME VInv, NEW c \in DOMAIN run.pc, ~Over(c)
    PROVE  /\ Running /\ run.kind \in Kind /\ run.at \in 1 .. Len(Stages)
           /\ run.at \in Nat /\ c[1] \in Stages[run.at]
<1>1. Running BY DEF VInv, DInv, IInv, RestIsOver
<1>2. Placed /\ run.at \in Nat BY <1>1 DEF VInv, DInv, Placed
<1> QED BY <1>1, <1>2 DEF Placed, Running

(* A call other than the inventory makes the inventory of what it is given,*)
(* which is never nothing.                                                 *)
LEMMA MakesInventory ==
    ASSUME VInv, NEW c \in DOMAIN run.pc, run.pc[c] \in {"compute", "write"},
           c[1] \notin {"scan", "extract", "inventory"}
    PROVE  Whole /\ Computed(c) = Inv
<1>0. ~Over(c) BY DEF Over
<1>1. /\ Running /\ run.kind \in Kind /\ run.at \in 1 .. Len(Stages)
      /\ run.at \in Nat /\ c[1] \in Stages[run.at]
    BY <1>0, StagesOfCalls
<1>2. \A d \in DOMAIN run.val \ {"scan", "extract"} : Whole /\ run.val[d] = Inv
    BY DEF VInv, ValuesAgree
<1>3. CASE c[1] \in {"fileText", "clusterText", "flowText"}
  <2>1. PICK e \in FanOut \ {"extract"} :
          Gathered[e] = c[1] /\ {d \in FanOut : Gathered[d] = c[1]} = {e}
    <3>1. CASE c[1] = "fileText"
      <4>1. {d \in FanOut : Gathered[d] = "fileText"} = {"explain"} BY GatheredIs
      <4> QED BY <3>1, <4>1, GatheredIs
    <3>2. CASE c[1] = "clusterText"
      <4>1. {d \in FanOut : Gathered[d] = "clusterText"} = {"summarize"} BY GatheredIs
      <4> QED BY <3>2, <4>1, GatheredIs
    <3>3. CASE c[1] = "flowText"
      <4>1. {d \in FanOut : Gathered[d] = "flowText"} = {"explainFlow"} BY GatheredIs
      <4> QED BY <3>3, <4>1, GatheredIs
    <3> QED BY <1>3, <3>1, <3>2, <3>3
  <2>2. c[1] \in Stored
    <3>1. {"fileText", "clusterText", "flowText"} \subseteq Stored
        BY DEF Stored, Caps, FanOut, Gathered, NarrationNeeds
    <3> QED BY <1>3, <3>1
  <2>3. Supplied(c[1]) BY <2>2 DEF VInv, Gathering
  <2>4. e \in DOMAIN run.val BY <2>1, <2>3 DEF Supplied
  <2>5. e # "scan" /\ e # "extract" BY <2>1, GatheredIs
  <2>6. Whole /\ Known(e) = Inv BY <1>2, <2>4, <2>5 DEF Known
  <2>7. Computed(c) = UNION {Known(d) : d \in {e}}
    <3>1. Computed(c) = UNION {Known(d) : d \in {x \in FanOut : Gathered[x] = c[1]}}
        BY <1>3 DEF Computed
    <3> QED BY <2>1, <3>1
  <2> QED BY <2>6, <2>7
<1>4. CASE c[1] \notin {"fileText", "clusterText", "flowText"}
  <2>1. c[1] \notin Made BY <1>4 DEF Made
  <2>2. PICK j \in 1 .. run.at - 1 : Has(c[1], Stages[j])
      BY <1>1, <2>1, PlanOrder DEF Stages
  <2>3. PICK d : d \in Needs(c[1]) /\ d \in Stored /\ d \in Stages[j] BY <2>2 DEF Has
  <2>4. d \in DOMAIN run.val BY <1>1, <2>3 DEF VInv, DInv, Remembered
  <2>5. \A e \in Needs(c[1]) : e # "scan" /\ e # "extract" BY NeedsAreResults
  <2>6. Whole /\ Known(d) = Inv BY <1>2, <2>3, <2>4, <2>5 DEF Known
  <2>7. \A e \in Needs(c[1]) : Known(e) = Inv \/ Known(e) = {} BY <1>2, <2>5 DEF Known
  <2>8. Computed(c) = UNION {Known(e) : e \in Needs(c[1])} BY <1>4 DEF Computed
  <2> HIDE DEF Known, Inv
  <2>9. UNION {Known(e) : e \in Needs(c[1])} = Inv BY <2>3, <2>6, <2>7
  <2> QED BY <2>6, <2>8, <2>9
<1> QED BY <1>3, <1>4

(* What a step of a call may do to the results in memory and in its file.  *)
Agrees(c, p) ==
    /\ kinds' = kinds /\ p # "todo"
    /\ \/ p # "ok" /\ run'.val = run.val
       \/ /\ p = "ok"
          /\ \E v : /\ Holds(c, v)
                    /\ c[1] \notin {"scan", "extract"} => Whole /\ v = Inv
                    /\ c[1] = "extract" => v = {(UNION Known("extract")) \cup {<<c[2], version>>}}
    /\ c[1] \in Stored /\ c[1] # "inventory" =>
         (disk'[c[1]].state = "full" => Whole /\ disk'[c[1]].of = Inv)
    /\ c[1] = "inventory" =>
         \/ disk'[c[1]] = disk[c[1]]
         \/ /\ ~Whole
            /\ Whole' => \E X \in Inv' : Inv' = {X} /\ Pairs(X, run.sees)
    /\ p \in {"compute", "write", "view"} /\ c[1] \in Stored => Supplied(c[1])

(* One more file in a set of versions.                                     *)
LEMMA PairsExtend ==
    ASSUME NEW X, NEW S, NEW f, Pairs(X, S), f \notin S, version \in Versions
    PROVE  Pairs(X \cup {<<f, version>>}, S \cup {f})
<1>1. PICK inv \in [S -> Versions] : X = {<<g, inv[g]>> : g \in S} BY DEF Pairs
<1> DEFINE new == [g \in S \cup {f} |-> IF g = f THEN version ELSE inv[g]]
<1>2. new \in [S \cup {f} -> Versions] BY <1>1
<1>3. \A g \in S : new[g] = inv[g] OBVIOUS
<1>4. new[f] = version OBVIOUS
<1> HIDE DEF new
<1>5. X \cup {<<f, version>>} = {<<g, new[g]>> : g \in S \cup {f}} BY <1>1, <1>3, <1>4
<1> QED BY <1>2, <1>5 DEF Pairs

LEMMA SuppliedStays ==
    ASSUME NEW cap, Supplied(cap), run'.sees = run.sees,
           DOMAIN run.val \subseteq DOMAIN run'.val,
           cap = "inventory" => Known("extract")' = Known("extract")
    PROVE  Supplied(cap)'
<1> HIDE DEF Known
<1> QED BY DEF Supplied

LEMMA AgreementStep ==
    ASSUME VInv, DInv', VersionInRange', NEW c \in DOMAIN run.pc, NEW p, ~Over(c),
           Moves(c, p), Touches(c), Agrees(c, p)
    PROVE  VInv'
<1>0. DInv /\ IInv /\ Shape BY DEF VInv, DInv, IInv
<1>1. DOMAIN run'.pc = DOMAIN run.pc /\ run'.state = run.state /\ run'.pc[c] = p
    BY <1>0, Moved
<1>2. \A d \in DOMAIN run.pc : d # c => run'.pc[d] = run.pc[d]
    BY <1>0, Moved
<1>3. run'.kind = run.kind /\ run'.at = run.at /\ run'.sees = run.sees BY DEF Moves
<1>4. /\ Running /\ run.kind \in Kind /\ run.at \in 1 .. Len(Stages)
      /\ run.at \in Nat /\ c[1] \in Stages[run.at]
    BY StagesOfCalls
<1>5. Running' /\ Stages' = Stages /\ Seen' = Seen
    BY <1>1, <1>3, <1>4 DEF Running, Stages, Agrees, Seen
<1>6. Whole => Whole' /\ Inv' = Inv
    BY InventoryStored DEF Agrees, Touches, Whole, Inv
<1>7. DOMAIN run.val \subseteq DOMAIN run'.val BY DEF Agrees, Holds
<1>8. c[1] # "extract" => Known("extract")' = Known("extract")
    BY DEF Agrees, Holds, Known
<1>9. OneInventory'
  <2>1. ASSUME Whole' PROVE \E S \in Seen : \E X \in Inv' : Inv' = {X} /\ Pairs(X, S)
    <3>1. CASE Whole BY <1>6, <3>1 DEF VInv, OneInventory
    <3>2. CASE ~Whole
      <4>1. c[1] = "inventory" /\ disk'[c[1]] # disk[c[1]]
          BY <2>1, <3>2, InventoryStored DEF Touches, Whole
      <4>2. \E X \in Inv' : Inv' = {X} /\ Pairs(X, run.sees)
          BY <2>1, <4>1 DEF Agrees
      <4>3. run.sees \in Seen BY <1>4 DEF VInv, SeesSights
      <4> QED BY <4>2, <4>3
    <3> QED BY <3>1, <3>2
  <2>2. ASSUME NEW o \in Stored, disk'[o].state = "full" PROVE Whole' /\ disk'[o].of = Inv'
    <3>1. CASE o = "inventory" BY <2>2, <3>1 DEF Whole, Inv
    <3>2. CASE o # "inventory" /\ o = c[1] BY <1>6, <2>2, <3>2 DEF Agrees
    <3>3. CASE o # c[1]
      <4>1. disk'[o] = disk[o] BY <3>3 DEF Touches
      <4> QED BY <1>6, <2>2, <4>1 DEF VInv, OneInventory
    <3> QED BY <3>1, <3>2, <3>3
  <2> HIDE DEF Inv, Whole
  <2>3. Whole' => \E S \in Seen' : \E X \in Inv' : Inv' = {X} /\ Pairs(X, S)
      BY <1>5, <2>1
  <2>4. Pairs(1, 2)' = Pairs(1, 2) BY DEF Pairs
  <2> QED BY <2>2, <2>3 DEF OneInventory, Pairs
<1>10. SeesSights' BY <1>3, <1>4, <1>5 DEF VInv, SeesSights
<1>11. ValuesAgree'
  <2> SUFFICES ASSUME NEW d \in DOMAIN run'.val, d \notin {"scan", "extract"}
               PROVE  Whole' /\ run'.val[d] = Inv'
      BY DEF ValuesAgree
  <2>1. CASE p = "ok" /\ d = c[1] BY <1>6, <2>1 DEF Agrees, Holds
  <2>2. CASE p # "ok" \/ d # c[1]
    <3>1. d \in DOMAIN run.val /\ run'.val[d] = run.val[d]
      <4>1. CASE run'.val = run.val BY <4>1
      <4>2. CASE d # c[1] /\ \E v : Holds(c, v) BY <4>2 DEF Holds
      <4> QED BY <2>2, <4>1, <4>2 DEF Agrees
    <3>2. Whole /\ run.val[d] = Inv BY <3>1 DEF VInv, ValuesAgree
    <3> QED BY <1>6, <3>1, <3>2
  <2> QED BY <2>1, <2>2
<1>12. ExtractLate'
  <2>1. ASSUME "extract" \in DOMAIN run'.val, "extract" \notin DOMAIN run.val
        PROVE  run.at >= 2
    <3>0. \E v : Holds(c, v) BY <2>1 DEF Agrees
    <3>1. c[1] = "extract" BY <2>1, <3>0 DEF Holds
    <3>2. run.at = 2 BY <1>4, <3>1, PlanOrder DEF Stages
    <3> QED BY <3>2
  <2> QED BY <1>3, <2>1 DEF VInv, ExtractLate
<1>13. Extracting'
  <2> SUFFICES ASSUME Stages[run.at] = {"extract"}
               PROVE  Pairs(UNION Known("extract")',
                            {f \in run.sees : run'.pc[<<"extract", f>>] = "ok"})
                      /\ DOMAIN run.pc = {"extract"} \X run.sees
      BY <1>1, <1>3, <1>5 DEF Extracting, Pairs
  <2> DEFINE done == {f \in run.sees : run.pc[<<"extract", f>>] = "ok"}
             now  == {f \in run.sees : run'.pc[<<"extract", f>>] = "ok"}
  <2>1. DOMAIN run.pc = {"extract"} \X run.sees /\ Pairs(UNION Known("extract"), done)
      BY <1>4 DEF VInv, Extracting
  <2>2. PICK f \in run.sees : c = <<"extract", f>> BY <2>1
  <2>3. f \notin done BY <2>2 DEF Over
  <2>4. \A g \in run.sees : g # f => run'.pc[<<"extract", g>>] = run.pc[<<"extract", g>>]
      BY <1>2, <2>1, <2>2
  <2>5. CASE p # "ok"
    <3>1. Known("extract")' = Known("extract") BY <2>5 DEF Agrees, Known
    <3>2. now = done BY <1>1, <2>2, <2>3, <2>4, <2>5
    <3> QED BY <2>1, <3>1, <3>2
  <2>6. CASE p = "ok"
    <3>1. Known("extract")' = {(UNION Known("extract")) \cup {<<f, version>>}}
        BY <2>2, <2>6 DEF Agrees, Holds, Known
    <3>2. (UNION Known("extract")') = (UNION Known("extract")) \cup {<<f, version>>}
        BY <3>1
    <3>3. now = done \cup {f} BY <1>1, <2>2, <2>4, <2>6
    <3>4. version \in Versions BY DEF VInv, VersionInRange
    <3> HIDE DEF done, now, Known
    <3>5. Pairs((UNION Known("extract")) \cup {<<f, version>>}, done \cup {f})
        BY <2>1, <2>3, <3>4, PairsExtend
    <3> QED BY <2>1, <3>2, <3>3, <3>5 DEF now
  <2> QED BY <2>5, <2>6
<1>14. Manned' BY <1>1, <1>3, <1>4, <1>5 DEF VInv, Manned
<1>15. ASSUME NEW d \in DOMAIN run.pc PROVE Gathering(d)'
  <2>1. ASSUME Supplied(d[1]) PROVE Supplied(d[1])'
    <3>1. d[1] = "inventory" => c[1] # "extract"
      <4>1. d[1] \in Stages[run.at] BY <1>0, <1>4 DEF DInv, Placed, Running
      <4>2. c[1] = "extract" => Stages[run.at] = {"extract"}
          BY <1>4, PlanOrder, GatheredIs DEF Stages
      <4> QED BY <4>1, <4>2
    <3> QED BY <1>3, <1>7, <1>8, <2>1, <3>1, SuppliedStays
  <2>2. CASE d = c BY <1>1, <2>1, <2>2 DEF Agrees, Gathering
  <2>3. CASE d # c
    <3>1. run'.pc[d] = run.pc[d] BY <1>2, <2>3
    <3>2. d[1] \in Stored => disk'[d[1]] = disk[d[1]]
        BY <1>0, <2>3 DEF IInv, OneWriter, Touches
    <3> QED BY <2>1, <3>1, <3>2 DEF VInv, Gathering, Ready
  <2> QED BY <2>2, <2>3
<1>16. \A d \in DOMAIN run'.pc : Gathering(d)' BY <1>1, <1>15
<1> QED BY <1>9, <1>10, <1>11, <1>12, <1>13, <1>14, <1>16 DEF VInv

(* A step of a call that changes no file.                                  *)
LEMMA UnwrittenAgrees ==
    ASSUME VInv, NEW c \in DOMAIN run.pc, NEW p, p \notin {"ok", "todo"}, Goto(c, p),
           disk' = disk, kinds' = kinds,
           p \in {"compute", "write", "view"} /\ c[1] \in Stored => Supplied(c[1])
    PROVE  Agrees(c, p)
<1>1. run'.val = run.val BY GotoKeeps DEF VInv, DInv, IInv
<1>2. c[1] \in Stored /\ disk[c[1]].state = "full" => Whole /\ disk[c[1]].of = Inv
    BY DEF VInv, OneInventory
<1> HIDE DEF Inv, Whole
<1> QED BY <1>1, <1>2 DEF Agrees

(* The sources, and the count of what went wrong.                          *)
LEMMA SameVersion ==
    ASSUME VersionInRange, UNCHANGED <<version, upsets, kinds>>
    PROVE  VersionInRange'
BY DEF VersionInRange

LEMMA UpsetVersion ==
    ASSUME VersionInRange, Upset, kinds' = kinds,
           version' = version \/ version' = version + 1
    PROVE  VersionInRange'
<1>1. 1 \in DOMAIN kinds /\ kinds[1] \in Kind BY DEF VersionInRange, Upset
<1>2. upsets < MaxUpsets[kinds[1]] BY <1>1 DEF Upset
<1>3. MaxUpsets[kinds[1]] \in Nat BY <1>1, AnalysisConstants
<1>4. /\ version' \in Nat /\ upsets' \in Nat /\ version' <= upsets'
      /\ version' \in 0 .. MaxUpsets[kinds[1]]
    BY <1>2, <1>3 DEF VersionInRange, Upset
<1>5. version' \in Versions BY <1>1, <1>4 DEF Versions
<1> QED BY <1>4, <1>5 DEF VersionInRange

LEMMA BeginAgreement ==
    ASSUME VInv, DInv', NEW c \in DOMAIN run.pc, Begin(c)
    PROVE  VInv'
<1>0. Shape /\ VersionInRange BY DEF VInv, DInv, IInv
<1>1. /\ ~Over(c) /\ disk' = disk /\ kinds' = kinds /\ run.pc[c] = "todo"
      /\ UNCHANGED <<version, upsets, kinds>>
    BY DEF Begin, Over
<1>2. Touches(c) /\ VersionInRange' BY <1>0, <1>1, UntouchedTouches, SameVersion
<1>3. PICK p \in {"load", "compute"} :
        Goto(c, p) /\ (p = "compute" => ~(c[1] \in Cached /\ Ready(disk[c[1]])))
    BY DEF Begin
<1>4. p = "compute" /\ c[1] \in Stored => Supplied(c[1])
  <2>1. CASE c[1] \in Cached BY <1>1, <1>3, <2>1 DEF VInv, Gathering
  <2>2. CASE c[1] \in Stored \ Cached
    <3>1. c[1] = "compose" BY <2>2 DEF Cached
    <3> QED BY <3>1, GatheredIs DEF Supplied
  <2> QED BY <2>1, <2>2
<1>5. Moves(c, p) BY <1>0, <1>3, GotoMoves
<1>6. Agrees(c, p) BY <1>1, <1>3, <1>4, UnwrittenAgrees
<1> QED BY <1>1, <1>2, <1>5, <1>6, AgreementStep

LEMMA RaiseAgreement ==
    ASSUME VInv, DInv', NEW c \in DOMAIN run.pc, Raise(c)
    PROVE  VInv'
<1>0. Shape /\ VersionInRange BY DEF VInv, DInv, IInv
<1>1. /\ ~Over(c) /\ disk' = disk /\ kinds' = kinds /\ Goto(c, "raised") /\ Upset
      /\ version' = version
    BY DEF Raise
<1>2. Touches(c) /\ VersionInRange' BY <1>0, <1>1, UntouchedTouches, UpsetVersion
<1>3. Moves(c, "raised") BY <1>0, <1>1, GotoMoves
<1>4. Agrees(c, "raised") BY <1>1, UnwrittenAgrees
<1> QED BY <1>1, <1>2, <1>3, <1>4, AgreementStep

LEMMA AnswerAgreement ==
    ASSUME VInv, DInv', NEW c \in DOMAIN run.pc, Answer(c)
    PROVE  VInv'
<1>0. Shape /\ VersionInRange BY DEF VInv, DInv, IInv
<1>1. /\ ~Over(c) /\ disk' = disk /\ UNCHANGED <<version, upsets, kinds>>
      /\ Result(c, Computed(c)) /\ c[1] \notin Stored /\ run.pc[c] = "compute"
    BY DEF Answer, Over
<1>2. Touches(c) /\ Moves(c, "ok") /\ VersionInRange' /\ Holds(c, Computed(c))
    BY <1>0, <1>1, UntouchedTouches, ResultMoves, ResultHolds, SameVersion
<1>3. c[1] # "inventory" BY <1>1, InventoryStored
<1>4. c[1] \notin {"scan", "extract"} => Whole /\ Computed(c) = Inv
    BY <1>1, <1>3, MakesInventory
<1>5. c[1] = "extract" => Computed(c) = {(UNION Known("extract")) \cup {<<c[2], version>>}}
    BY DEF Computed
<1>6. Agrees(c, "ok")
  <2> HIDE DEF Known, Whole, Inv, Computed, Holds
  <2> QED BY <1>1, <1>2, <1>3, <1>4, <1>5 DEF Agrees
<1> QED BY <1>1, <1>2, <1>6, AgreementStep

LEMMA WholeResultAgrees ==
    ASSUME VInv, NEW c \in DOMAIN run.pc, NEW v, Holds(c, v), c[1] \in Stored,
           disk[c[1]].state = "full", disk[c[1]].of = v, UNCHANGED <<disk, kinds>>
    PROVE  Agrees(c, "ok")
<1>1. Whole /\ v = Inv BY DEF VInv, OneInventory
<1>2. c[1] # "extract" BY NamesOfCalls
<1> HIDE DEF Whole, Inv, Holds
<1> QED BY <1>1, <1>2 DEF Agrees

LEMMA LoadAgreement ==
    ASSUME VInv, CInv, DInv', NEW c \in DOMAIN run.pc, Load(c)
    PROVE  VInv'
<1>0. Shape /\ VersionInRange BY DEF VInv, DInv, IInv
<1>1. ~Over(c) /\ disk' = disk /\ UNCHANGED <<version, upsets, kinds>> /\ run.pc[c] = "load"
    BY DEF Load, Over
<1>2. Touches(c) /\ VersionInRange' BY <1>0, <1>1, UntouchedTouches, SameVersion
<1>3. CASE Goto(c, "unreadable")
  <2>1. Moves(c, "unreadable") BY <1>0, <1>3, GotoMoves
  <2>2. Agrees(c, "unreadable") BY <1>1, <1>3, UnwrittenAgrees
  <2> QED BY <1>1, <1>2, <2>1, <2>2, AgreementStep
<1>4. CASE Result(c, disk[c[1]].of) /\ disk[c[1]].state = "full"
  <2>1. Moves(c, "ok") /\ Holds(c, disk[c[1]].of) BY <1>0, <1>4, ResultMoves, ResultHolds
  <2>2. c[1] \in Stored BY <1>1 DEF CInv, ReadsTheFile
  <2>3. Agrees(c, "ok") BY <1>1, <1>4, <2>1, <2>2, WholeResultAgrees
  <2> QED BY <1>1, <1>2, <2>1, <2>3, AgreementStep
<1> QED BY <1>3, <1>4 DEF Load

LEMMA ViewAgreement ==
    ASSUME VInv, DInv', NEW c \in DOMAIN run.pc, View(c)
    PROVE  VInv'
<1>0. Shape /\ VersionInRange BY DEF VInv, DInv, IInv
<1>1. /\ ~Over(c) /\ disk' = disk /\ UNCHANGED <<version, upsets, kinds>>
      /\ Result(c, Computed(c)) /\ run.pc[c] = "view"
    BY DEF View, Over
<1>2. Touches(c) /\ Moves(c, "ok") /\ VersionInRange' /\ Holds(c, Computed(c))
    BY <1>0, <1>1, UntouchedTouches, ResultMoves, ResultHolds, SameVersion
<1>3. c[1] \in Stored /\ disk[c[1]] = Full(Computed(c)) BY <1>1 DEF VInv, DInv, Viewing
<1>4. disk[c[1]].state = "full" /\ disk[c[1]].of = Computed(c) BY <1>3 DEF Full
<1>5. Agrees(c, "ok") BY <1>1, <1>2, <1>3, <1>4, WholeResultAgrees
<1> QED BY <1>1, <1>2, <1>5, AgreementStep

LEMMA OpenAgreement ==
    ASSUME VInv, DInv', NEW c \in DOMAIN run.pc, Open(c)
    PROVE  VInv'
<1>0. Shape /\ VersionInRange /\ NotThere(c) BY DEF VInv, DInv, IInv
<1>1. /\ ~Over(c) /\ Goto(c, "write") /\ UNCHANGED <<version, upsets, kinds>>
      /\ c[1] \in Stored /\ run.pc[c] = "compute"
    BY DEF Open, Over
<1>2. Moves(c, "write") /\ run'.val = run.val /\ VersionInRange'
    BY <1>0, <1>1, GotoMoves, GotoKeeps, SameVersion
<1>3. Touches(c) /\ disk'[c[1]] = Empty BY <1>0, <1>1, WriteTouches DEF Open
<1>4. Supplied(c[1]) BY <1>1 DEF VInv, Gathering
<1>5. c[1] = "inventory" => ~Whole /\ ~Whole'
    BY <1>0, <1>1, <1>3, InventoryStored DEF NotThere, Whole, Empty
<1>6. disk'[c[1]].state # "full" BY <1>3 DEF Empty
<1>7. Agrees(c, "write") BY <1>1, <1>2, <1>4, <1>5, <1>6 DEF Agrees
<1> QED BY <1>1, <1>2, <1>3, <1>7, AgreementStep

LEMMA SpillAgreement ==
    ASSUME VInv, DInv', NEW c \in DOMAIN run.pc, Spill(c)
    PROVE  VInv'
<1>0. Shape /\ VersionInRange /\ NotThere(c) /\ c[1] \in Stored
    BY DEF VInv, DInv, IInv, NotThere, Spill
<1>1. ~Over(c) /\ run' = run /\ UNCHANGED <<version, upsets, kinds>> /\ run.pc[c] = "write"
    BY DEF Spill, Over
<1>2. run.pc = [run.pc EXCEPT ![c] = "write"] BY <1>0, <1>1 DEF Shape
<1>3. Moves(c, "write") /\ VersionInRange' BY <1>0, <1>1, <1>2, SameVersion DEF Moves, Shape
<1>4. Touches(c) /\ disk'[c[1]] = Cut BY <1>0, WriteTouches DEF Spill
<1>5. Supplied(c[1]) BY <1>0, <1>1 DEF VInv, Gathering
<1>6. c[1] = "inventory" => ~Whole /\ ~Whole'
    BY <1>0, <1>1, <1>4 DEF NotThere, Whole, Empty, Cut
<1>7. disk'[c[1]].state # "full" BY <1>4 DEF Cut
<1>8. Agrees(c, "write") BY <1>1, <1>5, <1>6, <1>7 DEF Agrees
<1> QED BY <1>1, <1>3, <1>4, <1>8, AgreementStep

LEMMA FinishAgreement ==
    ASSUME VInv, DInv', NEW c \in DOMAIN run.pc, Finish(c)
    PROVE  VInv'
<1>0. Shape /\ VersionInRange /\ NotThere(c) /\ c[1] \in Stored
    BY DEF VInv, DInv, IInv, NotThere, Finish
<1>1. /\ ~Over(c) /\ Goto(c, "view") /\ UNCHANGED <<version, upsets, kinds>>
      /\ run.pc[c] = "write"
    BY DEF Finish, Over
<1>2. Moves(c, "view") /\ run'.val = run.val /\ VersionInRange'
    BY <1>0, <1>1, GotoMoves, GotoKeeps, SameVersion
<1>3. Touches(c) /\ disk'[c[1]] = Full(Computed(c)) BY <1>0, WriteTouches DEF Finish
<1>4. disk'[c[1]].of = Computed(c) BY <1>3 DEF Full
<1>5. Supplied(c[1]) BY <1>0, <1>1 DEF VInv, Gathering
<1>6. c[1] = "inventory" =>
        ~Whole /\ \E X \in Inv' : Inv' = {X} /\ Pairs(X, run.sees)
  <2> SUFFICES ASSUME c[1] = "inventory"
               PROVE  ~Whole /\ \E X \in Inv' : Inv' = {X} /\ Pairs(X, run.sees)
      OBVIOUS
  <2>1. ~Whole BY <1>0, <1>1 DEF NotThere, Whole, Empty, Cut
  <2>2. Computed(c) = {UNION Known("extract")} BY DEF Computed
  <2>3. Inv' = {UNION Known("extract")} BY <1>4, <2>2 DEF Inv
  <2>4. Pairs(UNION Known("extract"), run.sees) BY <1>5 DEF Supplied
  <2> QED BY <2>1, <2>3, <2>4
<1>7. c[1] # "inventory" => Whole /\ Computed(c) = Inv
  <2>1. c[1] # "scan" /\ c[1] # "extract" BY <1>0, NamesOfCalls DEF Stored
  <2> QED BY <1>1, <2>1, MakesInventory
<1>8. Agrees(c, "view")
  <2> HIDE DEF Inv, Whole, Computed
  <2> QED BY <1>1, <1>2, <1>4, <1>5, <1>6, <1>7 DEF Agrees
<1> QED BY <1>1, <1>2, <1>3, <1>8, AgreementStep

(* The steps of an analysis as a whole.                                    *)
LEMMA WholeAgreement ==
    ASSUME VInv, DInv', VersionInRange', disk' = disk, Seen \subseteq Seen', SeesSights',
           run'.val = run.val \/ run'.val = <<>>, run'.at >= run.at \/ run'.val = <<>>,
           Extracting', Manned', \A c \in DOMAIN run'.pc : Gathering(c)',
           run.at \in Nat, run'.at \in Nat
    PROVE  VInv'
<1>1. OneInventory'
  <2>1. Whole' = Whole /\ Inv' = Inv BY DEF Whole, Inv
  <2>2. Whole => \E S \in Seen' : \E X \in Inv : Inv = {X} /\ Pairs(X, S)
      BY DEF VInv, OneInventory
  <2>3. \A o \in Stored : disk'[o].state = "full" => Whole /\ disk'[o].of = Inv
      BY DEF VInv, OneInventory
  <2> HIDE DEF Whole, Inv
  <2> QED BY <2>1, <2>2, <2>3 DEF OneInventory, Pairs
<1>2. ValuesAgree' BY DEF VInv, ValuesAgree, Whole, Inv
<1>3. ExtractLate' BY DEF VInv, ExtractLate
<1> QED BY <1>1, <1>2, <1>3 DEF VInv

LEMMA PlaceIs ==
    ASSUME VInv
    PROVE  run.kind \in Kind /\ run.at \in Nat /\ Len(Stages) \in Nat
           /\ run.at \in 0 .. Len(Stages)
BY PlanStages DEF VInv, DInv, Placed, Stages

LEMMA EnterAgreement ==
    ASSUME Sighted, VInv, DInv', Running, \A c \in DOMAIN run.pc : Over(c), Failed = {},
           run.at # Len(Stages), UNCHANGED <<disk, version, kinds, upsets>>,
           NEW n, Enter(After(run.at), n)
    PROVE  VInv'
<1> DEFINE i == After(run.at)
           calls == CallsOf(Stages[i])
<1>1. PICK w : run' = [run EXCEPT !.at = i, !.width = w, !.pc = [c \in calls |-> "todo"]]
    BY DEF Enter, Stages
<1>2. run.kind \in Kind /\ run.at + 1 \in 1 .. Len(Stages) /\ run.at \in Nat
      /\ Len(Stages) \in Nat
    BY PlaceIs
<1>3. i = run.at + 1 \/ i = run.at + 2 BY DEF After
<1>4. ASSUME NEW e \in FanOut, i - 1 \in Nat, Stages[i - 1] = {e}, ~Ready(disk[Gathered[e]])
      PROVE  i = run.at + 1
  <2>1. CASE i = run.at + 2
    <3>1. Stages[run.at + 1] = {e} BY <1>2, <1>4, <2>1
    <3>2. i = IF \E cap \in Stages[run.at + 1] : cap \in FanOut /\ Ready(disk[Gathered[cap]])
              THEN run.at + 2 ELSE run.at + 1
        BY DEF After, Stages
    <3> HIDE DEF i
    <3> QED BY <1>2, <1>4, <2>1, <3>1, <3>2
  <2> QED BY <1>3, <2>1
<1>5. DInv /\ Placed BY DEF VInv, DInv
<1> HIDE DEF i
<1>7. /\ run'.state = run.state /\ run'.kind = run.kind /\ run'.at = i
      /\ run'.sees = run.sees
      /\ run'.pc = [c \in calls |-> "todo"] /\ run'.val = run.val
    BY <1>1 DEF VInv, DInv, IInv, Shape
<1>8. i \in 1 .. Len(Stages) /\ i \in Nat /\ i >= run.at
  <2>1. i \in 0 .. Len(Stages) BY <1>7 DEF DInv, Placed, Stages
  <2> QED BY <1>2, <1>3, <2>1
<1>9. Running' /\ Stages' = Stages BY <1>7 DEF Running, Stages
<1>10. \A j \in 1 .. i - 1 : Stages[j] \cap Stored \subseteq DOMAIN run.val
    BY <1>7, <1>9 DEF DInv, Remembered
<1>11. SeesSights' /\ Seen' = Seen
  <2>1. run.sees \in Seen /\ Seen' = Seen BY DEF VInv, SeesSights, Seen
  <2> QED BY <1>7, <2>1 DEF SeesSights
<1>12. Extracting'
  <2> SUFFICES ASSUME Stages[i] = {"extract"}
               PROVE  /\ calls = {"extract"} \X run.sees
                      /\ Pairs(UNION Known("extract"),
                               {f \in run.sees : run'.pc[<<"extract", f>>] = "ok"})
    <3>1. Known("extract")' = Known("extract") BY <1>7 DEF Known
    <3> HIDE DEF Known, calls
    <3> QED BY <1>7, <1>9, <3>1 DEF Extracting
  <2>1. i = 2
    <3>1. "extract" \in Plan(run.kind)[i] /\ i \in 1 .. Len(Plan(run.kind))
        BY <1>8 DEF Stages
    <3> QED BY <1>2, <3>1, PlanOrder
  <2>2. "extract" \notin DOMAIN run.val BY <1>2, <1>3, <2>1 DEF VInv, ExtractLate
  <2>3. UNION Known("extract") = {} BY <2>2 DEF Known
  <2>4. calls = {"extract"} \X run.sees BY DEF CallsOf, ItemsOf
  <2>5. \A f \in run.sees : run'.pc[<<"extract", f>>] = "todo" BY <1>7, <2>4
  <2>6. {f \in run.sees : run'.pc[<<"extract", f>>] = "ok"} = {} BY <2>5
  <2>7. Pairs({}, {})
    <3>1. [f \in {} |-> version] \in [{} -> Versions] OBVIOUS
    <3> QED BY <3>1 DEF Pairs
  <2> QED BY <2>3, <2>4, <2>6, <2>7
<1>13. ASSUME NEW e \in FanOut, e # "extract", Stages[i] = {e}
       PROVE  \E c \in calls : c[1] = e
  <2>1. ASSUME ItemsOf(e) # {} PROVE \E c \in calls : c[1] = e
    <3>1. PICK x : x \in ItemsOf(e) BY <2>1
    <3>2. <<e, x>> \in {e} \X ItemsOf(e) BY <3>1
    <3>3. <<e, x>> \in calls BY <1>13, <3>2 DEF CallsOf
    <3> QED BY <3>3
  <2>2. CASE e # "explain"
    <3>1. ItemsOf(e) = {NoFile} BY <1>13, <2>2 DEF ItemsOf
    <3> QED BY <2>1, <3>1
  <2>3. CASE e = "explain"
    <3>1. PICK j \in 1 .. i - 1 : "enrich" \in Stages[j]
      <4>1. "explain" \in Plan(run.kind)[i] /\ i \in 1 .. Len(Plan(run.kind))
          BY <1>8, <1>13, <2>3 DEF Stages
      <4> QED BY <1>2, <4>1, PlanOrder DEF Stages
    <3>2. "enrich" \in Stored
        BY DEF Stored, Caps, FanOut, Gathered, BaseNeeds
    <3>3. "enrich" \in DOMAIN run.val BY <1>10, <3>1, <3>2
    <3>4. Whole /\ run.val["enrich"] = Inv BY <3>3 DEF VInv, ValuesAgree
    <3>5. PICK S \in Seen : \E X \in Inv : Inv = {X} /\ Pairs(X, S)
        BY <3>4 DEF VInv, OneInventory
    <3>6. PICK X \in Inv : Inv = {X} /\ Pairs(X, S) BY <3>5
    <3>7. S # {}
      <4>1. PICK m \in DOMAIN kinds : S = Sights[m] BY DEF Seen
      <4>2. /\ kinds \in Seq(Kind) /\ Len(kinds) <= Len(Sights)
            /\ Sights \in Seq(SUBSET Files)
          BY AnalysisConstants DEF VInv, VersionInRange
      <4>3. m \in DOMAIN Sights BY <4>1, <4>2
      <4> QED BY <4>1, <4>3 DEF Sighted
    <3>8. PICK f : f \in S BY <3>7
    <3>9. \E v : <<f, v>> \in X BY <3>6, <3>8 DEF Pairs
    <3>10. \E p \in UNION run.val["enrich"] : p[1] = f
      <4>1. PICK v : <<f, v>> \in X BY <3>9
      <4>2. UNION run.val["enrich"] = X BY <3>4, <3>6
      <4> QED BY <4>1, <4>2
    <3>11. f \in ItemsOf("explain") BY <3>10 DEF ItemsOf
    <3> QED BY <2>1, <2>3, <3>11
  <2> QED BY <2>2, <2>3
<1>14. Manned' BY <1>7, <1>9, <1>13 DEF Manned
<1>15. ASSUME NEW d \in calls, d[1] \in Stored, ~Ready(disk[d[1]]) PROVE Supplied(d[1])
  <2>1. d[1] \in Plan(run.kind)[i] /\ i \in 1 .. Len(Plan(run.kind))
      BY <1>8 DEF CallsOf, Stages
  <2>2. ASSUME NEW e \in FanOut, Gathered[e] = d[1]
        PROVE  /\ run.at > 0 /\ Stages[run.at] = {e}
    <3>1. i > 1 /\ Stages[i - 1] = {e} BY <1>2, <2>1, <2>2, PlanOrder DEF Stages
    <3>2. i - 1 \in Nat BY <1>8, <3>1
    <3>3. i = run.at + 1 BY <1>4, <1>15, <2>2, <3>1, <3>2
    <3> QED BY <1>2, <3>1, <3>3
  <2>3. CASE d[1] = "inventory"
    <3>1. run.at > 0 /\ Stages[run.at] = {"extract"} BY <2>2, <2>3, GatheredIs
    <3>2. DOMAIN run.pc = {"extract"} \X run.sees
          /\ Pairs(UNION Known("extract"),
                   {f \in run.sees : run.pc[<<"extract", f>>] = "ok"})
        BY <3>1 DEF VInv, Extracting
    <3>3. \A f \in run.sees : run.pc[<<"extract", f>>] = "ok"
      <4>1. \A f \in run.sees : <<"extract", f>> \in DOMAIN run.pc BY <3>2
      <4> QED BY <4>1 DEF Failed, Over
    <3>4. {f \in run.sees : run.pc[<<"extract", f>>] = "ok"} = run.sees BY <3>3
    <3>5. Pairs(UNION Known("extract"), run.sees) BY <3>2, <3>4
    <3>6. \A e \in FanOut \ {"extract"} : Gathered[e] # "inventory" BY GatheredIs
    <3> QED BY <2>3, <3>5, <3>6 DEF Supplied
  <2>4. CASE d[1] # "inventory"
    <3>1. ASSUME NEW e \in FanOut \ {"extract"}, Gathered[e] = d[1]
          PROVE  e \in DOMAIN run.val
      <4>1. run.at > 0 /\ Stages[run.at] = {e} BY <2>2, <3>1
      <4>2. PICK c \in DOMAIN run.pc : c[1] = e BY <4>1 DEF VInv, Manned
      <4>3. run.pc[c] = "ok" BY DEF Failed, Over
      <4> QED BY <4>2, <4>3 DEF VInv, DInv, Remembered
    <3> QED BY <2>4, <3>1 DEF Supplied
  <2> QED BY <2>3, <2>4
<1>16. \A d \in DOMAIN run'.pc : Gathering(d)'
  <2> SUFFICES ASSUME NEW d \in calls PROVE Gathering(d)'
      BY <1>7
  <2>1. run'.pc[d] = "todo" BY <1>7
  <2>2. ASSUME Supplied(d[1]) PROVE Supplied(d[1])'
    <3>1. Known("extract")' = Known("extract") BY <1>7 DEF Known
    <3> QED BY <1>7, <2>2, <3>1, SuppliedStays
  <2> QED BY <1>15, <2>1, <2>2 DEF Gathering, Ready
<1>17. VersionInRange' BY SameVersion DEF VInv
<1> QED BY <1>2, <1>7, <1>8, <1>11, <1>12, <1>14, <1>16, <1>17, WholeAgreement

LEMMA AdvanceAgreement ==
    ASSUME Sighted, VInv, DInv', Advance
    PROVE  VInv'
<1>0. /\ Running /\ UNCHANGED <<disk, version, kinds, upsets>>
      /\ \A c \in DOMAIN run.pc : Over(c)
    BY DEF Advance
<1>a. VersionInRange' /\ Seen' = Seen /\ run.at \in Nat
    BY <1>0, SameVersion, PlaceIs DEF VInv, Seen
<1>1. CASE run' = [run EXCEPT !.state = "error", !.val = <<>>]
  <2>1. run'.pc = run.pc /\ run'.state = "error" /\ run'.val = <<>> /\ run'.at = run.at
      BY <1>1 DEF VInv, DInv, IInv, Shape
  <2>2. SeesSights' /\ Extracting' /\ Manned'
      BY <2>1 DEF SeesSights, Extracting, Manned, Running
  <2>3. \A c \in DOMAIN run'.pc : Gathering(c)'
      BY <1>0, <2>1 DEF Gathering, Over
  <2> QED BY <1>0, <1>a, <2>1, <2>2, <2>3, WholeAgreement
<1>2. CASE run' = [run EXCEPT !.state = "ok", !.pc = <<>>]
  <2>1. run'.pc = <<>> /\ run'.state = "ok" /\ run'.val = run.val /\ run'.at = run.at
      BY <1>2 DEF VInv, DInv, IInv, Shape
  <2>2. SeesSights' /\ Extracting' /\ Manned'
      BY <2>1 DEF SeesSights, Extracting, Manned, Running
  <2>3. \A c \in DOMAIN run'.pc : Gathering(c)' BY <2>1
  <2> QED BY <1>0, <1>a, <2>1, <2>2, <2>3, WholeAgreement
<1>3. CASE Failed = {} /\ run.at # Len(Stages) /\ \E n \in Requests : Enter(After(run.at), n)
    BY <1>0, <1>3, EnterAgreement
<1> QED BY <1>1, <1>2, <1>3 DEF Advance, Proceed, Stages

LEMMA SubmitAgreement ==
    ASSUME VInv, DInv', NEW k \in Kind, Submit(k)
    PROVE  VInv'
<1>1. /\ run'.pc = <<>> /\ run'.state = "running" /\ run'.val = <<>> /\ run'.at = 0
      /\ run'.sees = Sights[Len(kinds')] /\ kinds' = Append(kinds, k)
      /\ UNCHANGED <<disk, version, upsets>> /\ Len(kinds) < Len(Sights)
    BY DEF Submit, NoRun
<1>2. kinds \in Seq(Kind) /\ Len(kinds) \in Nat BY DEF VInv, VersionInRange
<1>3. /\ kinds' \in Seq(Kind) /\ Len(kinds') = Len(kinds) + 1
      /\ DOMAIN kinds' = 1 .. Len(kinds) + 1 /\ DOMAIN kinds = 1 .. Len(kinds)
    BY <1>1, <1>2
<1>4. Seen \subseteq Seen' /\ run'.sees \in Seen'
  <2>1. DOMAIN kinds \subseteq DOMAIN kinds' /\ Len(kinds') \in DOMAIN kinds' BY <1>2, <1>3
  <2> QED BY <1>1, <2>1 DEF Seen
<1>5. VersionInRange'
  <2>1. Len(Sights) \in Nat BY AnalysisConstants
  <2> QED BY <1>1, <1>2, <1>3, <2>1 DEF VInv, VersionInRange
<1>6. SeesSights' BY <1>4 DEF SeesSights
<1>7. Extracting' /\ Manned' BY <1>1 DEF Extracting, Manned
<1> QED BY <1>1, <1>4, <1>5, <1>6, <1>7, PlaceIs, WholeAgreement

LEMMA StopAgreement ==
    ASSUME VInv, DInv', Stop
    PROVE  VInv'
<1>1. /\ run'.pc = <<>> /\ run'.state = "lost" /\ run'.val = <<>> /\ run'.at = run.at
      /\ UNCHANGED <<disk, version, kinds>> /\ Upset
    BY DEF Stop, VInv, DInv, IInv, Shape
<1>2. VersionInRange' /\ Seen' = Seen BY <1>1, UpsetVersion DEF VInv, Seen
<1>3. SeesSights' /\ Extracting' /\ Manned'
    BY <1>1 DEF SeesSights, Extracting, Manned, Running
<1> QED BY <1>1, <1>2, <1>3, PlaceIs, WholeAgreement

LEMMA UnchangedAgreement ==
    ASSUME VInv, DInv', VersionInRange', UNCHANGED <<disk, run, kinds>>
    PROVE  VInv'
<1>1. Seen' = Seen /\ SeesSights' BY DEF VInv, SeesSights, Seen, Running
<1>2. Known("extract")' = Known("extract") BY DEF Known
<1>3. Extracting'
  <2> HIDE DEF Known
  <2> QED BY <1>2 DEF VInv, Extracting, Stages, Running
<1>4. Manned' BY DEF VInv, Manned, Stages, Running
<1>5. ASSUME NEW c \in DOMAIN run.pc PROVE Gathering(c)'
  <2>1. ASSUME Supplied(c[1]) PROVE Supplied(c[1])' BY <1>2, <2>1, SuppliedStays
  <2> QED BY <2>1 DEF VInv, Gathering, Ready
<1>6. run.at \in Nat BY PlaceIs
<1> QED BY <1>1, <1>3, <1>4, <1>5, <1>6, WholeAgreement

LEMMA NextAgreement ==
    ASSUME Sighted, VInv, CInv, [Next]_vars
    PROVE  VInv'
<1>0. DInv' BY NextDelivery DEF VInv
<1>1. ASSUME NEW k \in Kind, Submit(k) PROVE VInv' BY <1>0, <1>1, SubmitAgreement
<1>2. CASE Advance BY <1>0, <1>2, AdvanceAgreement
<1>3. ASSUME NEW c \in DOMAIN run.pc,
             \/ Begin(c) \/ Answer(c) \/ Load(c) \/ Open(c)
             \/ Spill(c) \/ Finish(c) \/ View(c) \/ Raise(c)
      PROVE  VInv'
    BY <1>0, <1>3, BeginAgreement, AnswerAgreement, LoadAgreement, OpenAgreement,
       SpillAgreement, FinishAgreement, ViewAgreement, RaiseAgreement
<1>4. CASE Edit
  <2>1. VersionInRange' BY <1>4, UpsetVersion DEF Edit, VInv
  <2> QED BY <1>0, <1>4, <2>1, UnchangedAgreement DEF Edit
<1>5. CASE Stop BY <1>0, <1>5, StopAgreement
<1>6. CASE UNCHANGED vars
  <2>1. VersionInRange' BY <1>6, SameVersion DEF vars, VInv
  <2> QED BY <1>0, <1>6, <2>1, UnchangedAgreement DEF vars
<1> QED BY <1>1, <1>2, <1>3, <1>4, <1>5, <1>6 DEF Next, RunStep

(* When every analysis sees a file, all results of one that ends well are  *)
(* about one inventory, a whole one, with one version of each file that an *)
(* analysis has seen, however earlier analyses ended and whenever the      *)
(* sources changed: the first inventory that is written whole is the one   *)
(* that every later call is given (the inventory's handler, and the skips  *)
(* of the workflows).  Without files a fan-out over them has no results.   *)
THEOREM ResultsAgree == Sighted => (Spec => []Coherent)
<1> SUFFICES ASSUME Sighted PROVE Spec => []Coherent
    OBVIOUS
<1>1. VInv => Coherent
  <2> SUFFICES ASSUME VInv, run.state = "ok"
               PROVE  \E S \in {Sights[i] : i \in DOMAIN kinds} :
                        \E inv \in [S -> Versions] :
                          \A o \in Products(run.kind) :
                            run.val[o] = {{<<f, inv[f]>> : f \in S}}
      BY DEF Coherent
  <2>1. \A o \in Products(run.kind) : o \in Stored /\ o \in DOMAIN run.val
      BY DEF VInv, DInv, Remembered, Products
  <2>2. \A o \in Products(run.kind) : disk[o].state = "full" /\ run.val[o] = disk[o].of
    <3>1. \A o \in Products(run.kind) : disk[o] = Full(run.val[o])
        BY <2>1 DEF VInv, DInv, SameAsFile
    <3>2. \A x : Full(x).state = "full" /\ Full(x).of = x BY DEF Full
    <3> QED BY <3>1, <3>2
  <2>3. \A o \in Products(run.kind) : Whole /\ run.val[o] = Inv
      BY <2>1, <2>2 DEF VInv, OneInventory
  <2>4. "inventory" \in Products(run.kind)
    <3>1. run.kind \in Kind BY PlaceIs
    <3>2. 3 \in 1 .. 8 /\ Base[3] = {"inventory"} BY DEF Base
    <3>3. Plan(run.kind)[3] = {"inventory"} BY <3>1, <3>2, PlanParts
    <3>4. 3 \in DOMAIN Plan(run.kind) BY <3>1, PlanStages
    <3> QED BY <3>3, <3>4, InventoryStored DEF Products
  <2>5. Whole BY <2>3, <2>4
  <2>6. PICK S \in Seen : \E X \in Inv : Inv = {X} /\ Pairs(X, S)
      BY <2>5 DEF VInv, OneInventory
  <2>7. PICK inv \in [S -> Versions] : Inv = {{<<f, inv[f]>> : f \in S}}
      BY <2>6 DEF Pairs
  <2> HIDE DEF Inv
  <2> QED BY <2>3, <2>6, <2>7 DEF Seen
<1>2. VInv /\ CInv /\ [Next]_vars => VInv' /\ CInv'
    BY NextAgreement, NextCause
<1>3. Init => VInv /\ CInv BY InitAgreement, InitCause
<1> QED BY <1>1, <1>2, <1>3, PTL DEF Spec
=============================================================================
