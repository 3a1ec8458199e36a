--------------------------- MODULE ReviewWorkProofs ---------------------------
(*****************************************************************************)
(* Proofs about how a review is worked on, each component for every value of *)
(* its constants: the stages that workers execute, and the session that a    *)
(* command re-enters.                                                        *)
(*****************************************************************************)
EXTENDS StageExecution, SessionReentry,
        FunctionTheorems, FiniteSetTheorems, WellFoundedInduction, TLAPS

-------------------------------------------------------------------------------
(* What the store holds of the executions of any number of stages, over any *)
(* number of crashes, repairs and repetitions.                              *)

Stores == {"text", "raw", "pack", "result"}
Stopped == {"failed", "dead"}
Tables == {"prompt", "worker", "result"}

\* The steps an execution is at when it has written a row, or its findings.
PastPrompt == {"findings", "worker_row", "calls", "result_row", "event", "done"}
PastFindings == {"worker_row", "calls", "result_row", "event", "done"}
PastWorker == {"calls", "result_row", "event", "done"}
PastResult == {"event", "done"}
Past(table) == IF table = "prompt" THEN PastPrompt
               ELSE IF table = "worker" THEN PastWorker ELSE PastResult

Unanswered == {"idle", "text", "worker"}

Execution ==
    [at : Steps, phase : {"look", "write", "insert"}, attempt : 0..Budget, tries : Nat \ {0},
     text : Prompts \cup {Unset}, raw : Raws \cup {Unset}, pack : Packs \cup {NoPack},
     bound : BOOLEAN]

\* What the execution y stores when its state is a: Content(y) for a = exec[y].
ContentOf(y, a) ==
    CASE a.at = "text" -> <<"text", a.text>>
      [] a.at = "raw" -> <<"raw", a.raw>>
      [] a.at = "pack" -> <<"pack", a.pack>>
      [] a.at = "result" -> <<"result", y, a.tries>>

HasRow(table, by) == \E r \in rows : r.table = table /\ r.by = by
Found(f, by) == \E r \in materialised : r.by = by /\ r.finding = f

\* What has been written by an execution that is where a says.
InPlace(y, a) ==
    /\ a.phase # "look" => a.at \in Stores \cup Stopped
    /\ a.phase # "look" /\ a.at \in Stores =>
          Inline(ContentOf(y, a)) \/ ContentOf(y, a) \in DOMAIN files
    /\ a.at \notin Stopped => a.bound
    /\ \A table \in Tables : a.at \in Past(table) => HasRow(table, <<y, a.tries>>)
    /\ a.at \in PastFindings => \A f \in Kept(a.pack) : Found(f, <<y, a.tries>>)

\* An artifact is of a try that was, and of the present one only as its content.
OwnedBy(c, t, a) ==
    /\ t <= a.tries
    /\ t = a.tries => /\ a.at # "idle"
                      /\ c[1] = "text" => c[2] = a.text
                      /\ c[1] # "text" => a.at \notin Unanswered
                      /\ c[1] = "raw" => c[2] = a.raw
                      /\ c[1] = "pack" => c[2] = a.pack

Owned(c) ==
    /\ c[1] \in Stores
    /\ \E y \in Stages, t \in Nat :
          /\ artifacts[c] = <<c[1], y, t>>
          /\ c[1] = "result" => <<c[2], c[3]>> = <<y, t>>
          /\ OwnedBy(c, t, exec[y])

\* So is a row.
RowBy(table, t, a) ==
    t <= a.tries /\ (t = a.tries => a.at \in Past(table) \cup Stopped)

Placed(r) ==
    /\ r.table \in Tables
    /\ \E y \in Stages, t \in Nat : r.by = <<y, t>> /\ RowBy(r.table, t, exec[y])

Writes(y, a, c) == a.at \in Stores /\ a.phase = "write" /\ ContentOf(y, a) = c
Troubled(a) == a.at = "dead" \/ a.tries > 1

\* A torn file is being written, or something was stopped once.
Whole(c) == files[c] \/ \E y \in Stages : Writes(y, exec[y], c) \/ Troubled(exec[y])

Single == \A r, q \in rows : r.table = q.table /\ r.by = q.by => r = q

Reported(v) ==
    /\ \A table \in Tables : HasRow(table, v.by)
    /\ \A f \in Kept(v.pack) : Found(f, v.by)
    /\ v.attempt \in 0..Budget /\ v.state = StageState(v.pack, v.attempt)

StageIInv ==
    /\ exec \in [Stages -> Execution]
    /\ \A y \in Stages : InPlace(y, exec[y])
    /\ \A c \in DOMAIN artifacts : Owned(c) /\ (~Inline(c) => c \in DOMAIN files)
    /\ \A c \in DOMAIN files : files[c] \in BOOLEAN /\ Whole(c)
    /\ Single /\ ReferencesAreTrue
    /\ \A r \in rows : Placed(r)
    /\ \A r \in materialised : r.bound /\ HasRow("prompt", r.by)
    /\ \A v \in events : Reported(v)

------------------------------------------------------------------------------
\* What the operators of the model say.

LEMMA ContentAgrees == \A x : Content(x) = ContentOf(x, exec[x])
BY DEF Content, ContentOf

\* The state an event reports asks for a repair only within the budget, and
\* speaks of findings only when some are kept.
LEMMA StatesMean ==
  ASSUME NEW pack, NEW attempt \in 0..Budget
  PROVE  /\ StageState(pack, attempt) = "repair_needed" => attempt < Budget
         /\ StageState(pack, attempt) \in {"structured", "partial"} <=> Kept(pack) # {}
<1>1. /\ RepairOrRaw(attempt) \in {"repair_needed", "raw_only"}
      /\ RepairOrRaw(attempt) = "repair_needed" => attempt < Budget
  BY DEF RepairOrRaw, RetriesRemain
<1>2. CASE pack = NoPack \/ pack.syntax # "good"
  BY <1>1, <1>2 DEF StageState, Kept
<1>3. CASE ~(pack = NoPack \/ pack.syntax # "good")
  BY <1>1, <1>3 DEF StageState, Kept
<1> QED BY <1>2, <1>3

LEMMA ExecutionType ==
  ASSUME StageIInv, NEW x \in Stages
  PROVE  exec[x] \in Execution /\ InPlace(x, exec[x])
BY DEF StageIInv

\* An execution that goes on keeps what it was asked, answered and has written;
\* one that is repeated is another try.
Goes(a, e) ==
    \/ e.tries > a.tries
    \/ /\ e.tries = a.tries
       /\ a.at # "idle" => e.at # "idle" /\ e.text = a.text
       /\ a.at \notin Unanswered => e.at \notin Unanswered /\ e.raw = a.raw /\ e.pack = a.pack
       /\ \A table \in Tables : a.at \in Past(table) \cup Stopped => e.at \in Past(table) \cup Stopped
       /\ a.at = "dead" => e.at = "dead"

LEMMA OwnedGoes ==
  ASSUME NEW a \in Execution, NEW e \in Execution, NEW c, NEW t \in Nat,
         OwnedBy(c, t, a), Goes(a, e)
  PROVE  OwnedBy(c, t, e)
BY DEF OwnedBy, Goes, Execution

LEMMA RowGoes ==
  ASSUME NEW a \in Execution, NEW e \in Execution, NEW table \in Tables, NEW t \in Nat,
         RowBy(table, t, a), Goes(a, e)
  PROVE  RowBy(table, t, e)
BY DEF RowBy, Goes, Execution

LEMMA TroubledGoes ==
  ASSUME NEW a \in Execution, NEW e \in Execution, Troubled(a), Goes(a, e)
  PROVE  Troubled(e)
BY DEF Troubled, Goes, Execution

------------------------------------------------------------------------------
\* Nothing is taken away from the store.
Grows ==
    /\ DOMAIN artifacts \subseteq DOMAIN artifacts'
    /\ \A c \in DOMAIN artifacts : artifacts'[c] = artifacts[c]
    /\ DOMAIN files \subseteq DOMAIN files'
    /\ \A c \in DOMAIN files : files[c] => files'[c]
    /\ rows \subseteq rows' /\ materialised \subseteq materialised'

LEMMA RowStays ==
  ASSUME Grows, NEW table, NEW by, HasRow(table, by)
  PROVE  HasRow(table, by)'
BY DEF Grows, HasRow

LEMMA FoundStays ==
  ASSUME Grows, NEW f, NEW by, Found(f, by)
  PROVE  Found(f, by)'
BY DEF Grows, Found

LEMMA InPlaceStays ==
  ASSUME Grows, NEW y, NEW a, InPlace(y, a)
  PROVE  InPlace(y, a)'
<1>1. \A table, by : HasRow(table, by) => HasRow(table, by)'
  BY RowStays
<1>2. \A f, by : Found(f, by) => Found(f, by)'
  BY FoundStays
<1> QED BY <1>1, <1>2 DEF InPlace, Grows

TrueRefs(r) ==
    \A id \in r.refs :
        \E c \in DOMAIN artifacts :
            /\ artifacts[c] = id
            /\ c[1] = "text" => c[2] = r.text
            /\ c[1] = "raw" => c[2] = r.raw
            /\ c[1] = "pack" => c[2] = r.pack
            /\ c[1] = "result" => <<c[2], c[3]>> = r.by

LEMMA RefsAgree == ReferencesAreTrue <=> \A r \in rows : TrueRefs(r)
BY DEF ReferencesAreTrue, TrueRefs

LEMMA RefsStay ==
  ASSUME Grows, NEW r, TrueRefs(r)
  PROVE  TrueRefs(r)'
BY DEF Grows, TrueRefs

\* What a step of one execution has to show: what it adds is right.
LEMMA Keeps ==
  ASSUME StageIInv, Grows, NEW x \in Stages, NEW e \in Execution,
         exec' = [exec EXCEPT ![x] = e], Goes(exec[x], e), InPlace(x, e)',
         \A c \in DOMAIN artifacts' : c \notin DOMAIN artifacts =>
            Owned(c)' /\ (~Inline(c) => c \in DOMAIN files'),
         \A c \in DOMAIN files' :
            /\ files'[c] \in BOOLEAN
            /\ c \notin DOMAIN files => Writes(x, e, c)
            /\ Writes(x, exec[x], c) => files'[c] \/ Writes(x, e, c) \/ Troubled(e),
         Single', \A r \in rows' : r \notin rows => TrueRefs(r)' /\ Placed(r)',
         \A r \in materialised' : r \notin materialised => r.bound /\ HasRow("prompt", r.by)',
         \A v \in events' : v \notin events => Reported(v)'
  PROVE  StageIInv'
<1> PICK a \in Execution : a = exec[x]
  BY ExecutionType
<1>1. /\ exec' \in [Stages -> Execution]
      /\ exec'[x] = e
      /\ \A y \in Stages : y # x => exec'[y] = exec[y]
  BY DEF StageIInv
<1>2. ASSUME NEW y \in Stages PROVE InPlace(y, exec[y])'
  <2>1. CASE y = x
    BY <1>1, <2>1
  <2>2. CASE y # x
    <3> PICK b : b = exec[y]
      OBVIOUS
    <3>1. InPlace(y, b)'
      BY InPlaceStays, ExecutionType
    <3> QED BY <1>1, <2>2, <3>1
  <2> QED BY <2>1, <2>2
<1>3. ASSUME NEW y \in Stages, NEW c, NEW t \in Nat, OwnedBy(c, t, exec[y])
      PROVE  OwnedBy(c, t, exec'[y])
  BY <1>1, <1>3, OwnedGoes, ExecutionType
<1>4. ASSUME NEW c \in DOMAIN artifacts' PROVE Owned(c)' /\ (~Inline(c) => c \in DOMAIN files')
  <2>1. CASE c \in DOMAIN artifacts
    <3>1. Owned(c) /\ (~Inline(c) => c \in DOMAIN files) /\ artifacts'[c] = artifacts[c]
      BY <2>1 DEF StageIInv, Grows
    <3>2. Owned(c)'
      BY <1>3, <3>1 DEF Owned
    <3> QED BY <3>1, <3>2 DEF Grows
  <2>2. CASE c \notin DOMAIN artifacts
    BY <2>2
  <2> QED BY <2>1, <2>2
<1>5. ASSUME NEW c \in DOMAIN files' PROVE files'[c] \in BOOLEAN /\ Whole(c)'
  <2>1. CASE c \notin DOMAIN files
    BY <1>1, <2>1 DEF Whole
  <2>2. CASE c \in DOMAIN files /\ files[c]
    BY <2>2 DEF Whole, Grows
  <2>3. ASSUME NEW y \in Stages, Writes(y, exec[y], c) \/ Troubled(exec[y]) PROVE Whole(c)'
    <3>1. CASE y = x /\ Troubled(exec[x])
      <4>1. Troubled(e)
        BY <3>1, TroubledGoes
      <4> QED BY <1>1, <4>1 DEF Whole
    <3>2. CASE y = x /\ Writes(x, exec[x], c)
      BY <1>1, <3>2 DEF Whole
    <3>3. CASE y # x
      BY <1>1, <2>3, <3>3 DEF Whole
    <3> QED BY <2>3, <3>1, <3>2, <3>3
  <2>4. CASE c \in DOMAIN files
    <3>1. Whole(c)
      BY <2>4 DEF StageIInv
    <3> QED BY <2>2, <2>3, <2>4, <3>1 DEF Whole
  <2> QED BY <2>1, <2>4
<1>6. ReferencesAreTrue'
  <2>1. ASSUME NEW r \in rows' PROVE TrueRefs(r)'
    BY RefsStay, RefsAgree DEF StageIInv
  <2> QED BY <2>1 DEF ReferencesAreTrue, TrueRefs
<1>7. ASSUME NEW r \in rows' PROVE Placed(r)'
  <2>1. CASE r \in rows
    <3>1. PICK y \in Stages, t \in Nat :
            r.table \in Tables /\ r.by = <<y, t>> /\ RowBy(r.table, t, exec[y])
      BY <2>1 DEF StageIInv, Placed
    <3>2. RowBy(r.table, t, exec'[y])
      BY <1>1, <3>1, RowGoes, ExecutionType
    <3> QED BY <3>1, <3>2 DEF Placed
  <2> QED BY <2>1
<1>8. ASSUME NEW r \in materialised' PROVE r.bound /\ HasRow("prompt", r.by)'
  BY RowStays DEF StageIInv
<1>9. ASSUME NEW v \in events' PROVE Reported(v)'
  <2>1. CASE v \in events
    <3>1. Reported(v)
      BY <2>1 DEF StageIInv
    <3> QED BY <3>1, RowStays, FoundStays DEF Reported
  <2> QED BY <2>1
<1> QED BY <1>1, <1>2, <1>4, <1>5, <1>6, <1>7, <1>8, <1>9 DEF StageIInv

\* A step of one execution that writes nothing.
LEMMA MoveKeeps ==
  ASSUME StageIInv, NEW x \in Stages, NEW e \in Execution,
         exec' = [exec EXCEPT ![x] = e], Goes(exec[x], e), InPlace(x, e),
         exec[x].at \in Stores /\ exec[x].phase = "write" => Troubled(e),
         UNCHANGED <<artifacts, files, rows, materialised, events>>
  PROVE  StageIInv'
<1>1. Grows
  BY DEF Grows
<1>2. InPlace(x, e)'
  BY <1>1, InPlaceStays
<1>3. Single'
  BY DEF StageIInv, Single
<1>4. \A c \in DOMAIN files' : files'[c] \in BOOLEAN
  BY DEF StageIInv
<1>5. \A c : Writes(x, exec[x], c) => Troubled(e)
  BY DEF Writes
<1> QED BY <1>1, <1>2, <1>3, <1>4, <1>5, Keeps

LEMMA StageInitial == StageInit => StageIInv
<1> SUFFICES ASSUME StageInit PROVE StageIInv
  OBVIOUS
<1>1. exec \in [Stages -> Execution]
  BY StageAssumption DEF StageInit, Unstarted, Execution, Steps
<1>2. ASSUME NEW y \in Stages PROVE InPlace(y, exec[y])
  BY DEF StageInit, Unstarted, InPlace, Stores, Stopped, Tables, Past, PastPrompt, PastFindings,
         PastWorker, PastResult
<1>3. Single /\ ReferencesAreTrue
  BY DEF StageInit, Single, ReferencesAreTrue
<1> QED BY <1>1, <1>2, <1>3 DEF StageInit, StageIInv

------------------------------------------------------------------------------
\* The steps that only move an execution.

LEMMA FailKeeps ==
  ASSUME StageIInv, NEW x \in Stages, NEW at \in Stopped,
         exec' = [exec EXCEPT ![x].at = at],
         at = "dead" \/ exec[x].phase # "write" \/ exec[x].at \notin Stores,
         exec[x].at # "dead",
         UNCHANGED <<artifacts, files, rows, materialised, events>>
  PROVE  StageIInv'
<1> PICK a \in Execution : a = exec[x] /\ InPlace(x, a)
  BY ExecutionType
<1> PICK e : e = [a EXCEPT !.at = at]
  OBVIOUS
<1>1. /\ e \in Execution /\ e.at = at /\ e.phase = a.phase /\ e.tries = a.tries
      /\ e.text = a.text /\ e.raw = a.raw /\ e.pack = a.pack
  BY DEF Execution, Steps, Stopped
<1>2. exec' = [exec EXCEPT ![x] = e]
  BY DEF StageIInv
<1>3. Goes(a, e)
  BY <1>1 DEF Goes, Stopped, Unanswered
<1>4. InPlace(x, e)
  BY <1>1 DEF InPlace, Stopped, Stores, Tables, Past, PastPrompt, PastFindings, PastWorker, PastResult
<1>5. a.at \in Stores /\ a.phase = "write" => Troubled(e)
  BY <1>1 DEF Troubled
<1> QED BY <1>1, <1>2, <1>3, <1>4, <1>5, MoveKeeps

\* Where an execution goes from each of its steps.
LEMMA FollowingSteps ==
  ASSUME NEW pack
  PROVE  /\ Following("text", pack) = "worker" /\ Following("pack", pack) = "result"
         /\ Following("raw", pack) \in {"pack", "result"}
         /\ Following("result", pack) = "prompt_row"
         /\ Following("prompt_row", pack) = "findings"
         /\ Following("findings", pack) = "worker_row"
         /\ Following("worker_row", pack) = "calls" /\ Following("calls", pack) = "result_row"
         /\ Following("result_row", pack) = "event" /\ Following("event", pack) = "done"
BY DEF Following

Going == Stores \cup {"prompt_row", "findings", "worker_row", "calls", "result_row", "event"}

\* The next step after a.
NextStep(a) == [a EXCEPT !.at = Following(a.at, a.pack), !.phase = "look"]

LEMMA NextSteps ==
  ASSUME NEW a \in Execution, a.at \in Going, NEW e, e = NextStep(a)
  PROVE  /\ e \in Execution /\ Goes(a, e) /\ e.phase = "look"
         /\ e.at = Following(a.at, a.pack) /\ e.tries = a.tries
         /\ e.text = a.text /\ e.raw = a.raw /\ e.pack = a.pack /\ e.bound = a.bound
         /\ e.attempt = a.attempt
<1>1. Following(a.at, a.pack) \in {"worker", "pack", "result", "prompt_row", "findings",
                                   "worker_row", "calls", "result_row", "event", "done"}
  BY FollowingSteps DEF Going, Stores
<1>2. /\ e.phase = "look"
      /\ e.at = Following(a.at, a.pack) /\ e.tries = a.tries
      /\ e.text = a.text /\ e.raw = a.raw /\ e.pack = a.pack /\ e.bound = a.bound
      /\ e.attempt = a.attempt
  BY DEF NextStep, Execution
<1>3. e \in Execution
  BY <1>1 DEF NextStep, Execution, Steps
<1>4. a.at # "idle" => e.at # "idle"
  BY <1>1, <1>2
<1>5. a.at \notin Unanswered => e.at \notin Unanswered
  <2>1. a.at \notin Unanswered => Following(a.at, a.pack) # "worker"
    BY FollowingSteps DEF Going, Stores, Unanswered
  <2> QED BY <1>1, <1>2, <2>1 DEF Unanswered
<1>6. ASSUME NEW table \in Tables, a.at \in Past(table) \cup Stopped
      PROVE  e.at \in Past(table) \cup Stopped
  <2>1. a.at \in Past(table)
    BY <1>6 DEF Going, Stores, Stopped
  <2>2. Following(a.at, a.pack) \in Past(table)
    BY <2>1, FollowingSteps DEF Going, Stores, Tables, Past, PastPrompt, PastWorker, PastResult
  <2> QED BY <1>2, <2>2
<1>7. a.at # "dead"
  BY DEF Going, Stores
<1> QED BY <1>2, <1>3, <1>4, <1>5, <1>6, <1>7 DEF Goes

LEMMA AdvanceMeans ==
  ASSUME StageIInv, NEW x \in Stages, Advance(x), NEW e, e = NextStep(exec[x])
  PROVE  exec' = [exec EXCEPT ![x] = e]
BY DEF Advance, NextStep, StageIInv, Execution

\* An execution that goes on after storing an artifact, or without any row.
LEMMA StoredPlace ==
  ASSUME StageIInv, NEW x \in Stages, exec[x].at \in Stores \cup {"calls"},
         NEW e, e = NextStep(exec[x])
  PROVE  InPlace(x, e)
<1> PICK a \in Execution : a = exec[x] /\ InPlace(x, a)
  BY ExecutionType
<1>1. /\ e \in Execution /\ e.phase = "look"
      /\ e.at = Following(a.at, a.pack) /\ e.tries = a.tries
      /\ e.pack = a.pack /\ e.bound = a.bound
  BY NextSteps DEF Going, Stores
<1>2. CASE a.at \in Stores
  <2>1. e.at \in {"worker", "pack", "result", "prompt_row"}
    BY <1>1, <1>2, FollowingSteps DEF Stores
  <2>2. a.bound
    BY <1>2 DEF InPlace, Stores, Stopped
  <2> QED BY <1>1, <2>1, <2>2 DEF InPlace, Tables, Past, PastPrompt, PastFindings, PastWorker, PastResult
<1>3. CASE a.at = "calls"
  <2>1. e.at = "result_row"
    BY <1>1, <1>3, FollowingSteps
  <2>2. a.bound
    BY <1>3 DEF InPlace, Stopped
  <2> QED BY <1>1, <1>3, <2>1, <2>2
       DEF InPlace, Tables, Past, PastPrompt, PastFindings, PastWorker, PastResult
<1> QED BY <1>2, <1>3

LEMMA FoundStoredKeeps ==
  ASSUME StageIInv, NEW x \in Stages, FoundStored(x) \/ (RecordCalls(x) /\ Advance(x))
  PROVE  StageIInv'
<1> PICK e : e = NextStep(exec[x])
  OBVIOUS
<1>1. exec[x].at \in Stores \cup {"calls"}
  BY DEF FoundStored, RecordCalls, Storing, Stores
<1>2. exec' = [exec EXCEPT ![x] = e]
  BY AdvanceMeans DEF FoundStored
<1>3. e \in Execution /\ Goes(exec[x], e)
  BY <1>1, NextSteps, ExecutionType DEF Going
<1>4. InPlace(x, e)
  BY <1>1, StoredPlace
<1>5. ~(exec[x].at \in Stores /\ exec[x].phase = "write")
  BY DEF FoundStored, RecordCalls, Stores
<1> QED BY <1>2, <1>3, <1>4, <1>5, MoveKeeps DEF FoundStored, RecordCalls

LEMMA BeginKeeps ==
  ASSUME StageIInv, NEW x \in Stages, NEW text \in Prompts, Begin(x, text) PROVE StageIInv'
<1> PICK a \in Execution : a = exec[x] /\ InPlace(x, a) /\ a.at = "idle"
  BY ExecutionType DEF Begin
<1> PICK e : e = [a EXCEPT !.at = "text", !.text = text]
  OBVIOUS
<1>1. /\ e \in Execution /\ e.at = "text" /\ e.phase = a.phase /\ e.tries = a.tries
      /\ e.bound = a.bound
  BY DEF Execution, Steps
<1>2. exec' = [exec EXCEPT ![x] = e]
  BY DEF Begin, StageIInv
<1>3. Goes(a, e)
  BY <1>1 DEF Goes, Unanswered, Tables, Past, PastPrompt, PastWorker, PastResult, Stopped
<1>4. InPlace(x, e)
  BY <1>1 DEF InPlace, Stopped, Stores, Tables, Past, PastPrompt, PastFindings, PastWorker, PastResult
<1> QED BY <1>1, <1>2, <1>3, <1>4, MoveKeeps DEF Begin, Stores

\* An answer that is accepted was made for this very task.
LEMMA AnswerKeeps ==
  ASSUME StageIInv, NEW x \in Stages, NEW raw \in Raws, NEW pack \in Packs \cup {NoPack},
         NEW bound \in BOOLEAN, Answer(x, raw, pack, bound)
  PROVE  StageIInv'
<1> PICK a \in Execution : a = exec[x] /\ InPlace(x, a) /\ a.at = "worker"
  BY ExecutionType DEF Answer
<1> PICK e : e = [a EXCEPT !.at = IF bound THEN "raw" ELSE "failed",
                           !.raw = raw, !.pack = pack, !.bound = bound]
  OBVIOUS
<1>1. /\ e \in Execution /\ e.at = IF bound THEN "raw" ELSE "failed"
      /\ e.phase = a.phase /\ e.tries = a.tries /\ e.text = a.text /\ e.bound = bound
  BY DEF Execution, Steps
<1>2. exec' = [exec EXCEPT ![x] = e]
  BY DEF Answer, Accepts, StageIInv
<1>3. Goes(a, e)
  BY <1>1 DEF Goes, Unanswered, Tables, Past, PastPrompt, PastWorker, PastResult, Stopped
<1>4. InPlace(x, e)
  BY <1>1 DEF InPlace, Stopped, Stores, Tables, Past, PastPrompt, PastFindings, PastWorker, PastResult
<1> QED BY <1>1, <1>2, <1>3, <1>4, MoveKeeps DEF Answer, Stores

LEMMA AgainKeeps ==
  ASSUME StageIInv, NEW x \in Stages, Again(x) \/ Repair(x) PROVE StageIInv'
<1> PICK a \in Execution : a = exec[x] /\ InPlace(x, a)
  BY ExecutionType
<1>1. PICK attempt \in 0..Budget : exec' = [exec EXCEPT ![x] = Unstarted(attempt, a.tries + 1)]
  <2>1. a.attempt \in 0..Budget
    BY DEF Execution
  <2>2. CASE Again(x)
    BY <2>1, <2>2 DEF Again, StageIInv
  <2>3. CASE Repair(x)
    <3>1. a.attempt < Budget /\ a.attempt + 1 \in 0..Budget
      BY <2>1, <2>3, StatesMean, StageAssumption DEF Repair
    <3> QED BY <2>3, <3>1 DEF Repair, StageIInv
  <2> QED BY <2>2, <2>3
<1> PICK e : e = Unstarted(attempt, a.tries + 1)
  OBVIOUS
<1>2. /\ e \in Execution /\ e.at = "idle" /\ e.phase = "look" /\ e.bound /\ e.tries = a.tries + 1
      /\ a.tries \in Nat
  BY DEF Unstarted, Execution, Steps
<1>3. Goes(a, e)
  BY <1>2 DEF Goes
<1>4. InPlace(x, e)
  BY <1>2 DEF InPlace, Tables, Past, PastPrompt, PastFindings, PastWorker, PastResult
<1>5. exec[x].at \notin Stores
  BY DEF Again, Repair, Stores
<1> QED BY <1>1, <1>2, <1>3, <1>4, <1>5, MoveKeeps DEF Again, Repair

------------------------------------------------------------------------------
\* Artifacts and their files.

LEMMA SameContent ==
  ASSUME NEW y, NEW a, NEW e, e.at = a.at, e.text = a.text, e.raw = a.raw, e.pack = a.pack,
         e.tries = a.tries
  PROVE  ContentOf(y, e) = ContentOf(y, a)
BY DEF ContentOf

\* Only the phase of the artifact step changes.
LEMMA PhaseMeans ==
  ASSUME NEW a \in Execution, a.at \in Stores, NEW phase \in {"look", "write", "insert"},
         NEW e, e = [a EXCEPT !.phase = phase]
  PROVE  /\ e \in Execution /\ Goes(a, e) /\ e.phase = phase /\ e.at = a.at
         /\ e.tries = a.tries /\ e.bound = a.bound /\ e.pack = a.pack
         /\ \A y : ContentOf(y, e) = ContentOf(y, a)
<1>1. /\ e \in Execution /\ e.phase = phase /\ e.at = a.at
      /\ e.tries = a.tries /\ e.bound = a.bound
      /\ e.text = a.text /\ e.raw = a.raw /\ e.pack = a.pack
  BY DEF Execution
<1>2. \A y : ContentOf(y, e) = ContentOf(y, a)
  BY <1>1, SameContent
<1>3. Goes(a, e)
  BY <1>1 DEF Goes
<1> QED BY <1>1, <1>2, <1>3

LEMMA StoringPlace ==
  ASSUME NEW x, NEW a, NEW e, InPlace(x, a), a.at \in Stores, e.at = a.at, e.bound = a.bound,
         Inline(ContentOf(x, e)) \/ ContentOf(x, e) \in DOMAIN files'
  PROVE  InPlace(x, e)'
<1>1. a.bound /\ e.at \notin Stopped
  BY DEF InPlace, Stores, Stopped
<1> QED BY <1>1 DEF InPlace, Stores, Tables, Past, PastPrompt, PastFindings, PastWorker, PastResult

LEMMA LookKeeps ==
  ASSUME StageIInv, NEW x \in Stages, Look(x) PROVE StageIInv'
<1> PICK a \in Execution : a = exec[x] /\ InPlace(x, a) /\ a.at \in Stores /\ a.phase = "look"
  BY ExecutionType DEF Look, Storing, Stores
<1> PICK c : c = ContentOf(x, a)
  OBVIOUS
<1>1. c = Content(x)
  BY ContentAgrees
<1>2. Single'
  BY DEF StageIInv, Single, Look
<1>3. CASE NeedsFile(x)
  <2>1. /\ files' = [d \in DOMAIN files \cup {c} |-> IF d = c THEN FALSE ELSE files[d]]
        /\ exec' = [exec EXCEPT ![x].phase = "write"] /\ c \notin DOMAIN files
    BY <1>1, <1>3 DEF Look, NeedsFile
  <2> PICK e : e = [a EXCEPT !.phase = "write"]
    OBVIOUS
  <2>2. /\ e \in Execution /\ Goes(a, e) /\ e.phase = "write" /\ e.at = a.at
        /\ e.bound = a.bound /\ ContentOf(x, e) = c
    BY PhaseMeans
  <2>3. exec' = [exec EXCEPT ![x] = e]
    BY <2>1 DEF StageIInv
  <2>4. Grows /\ DOMAIN files' = DOMAIN files \cup {c} /\ ~files'[c]
    BY <2>1 DEF Grows, Look
  <2>5. InPlace(x, e)'
    BY <2>2, <2>4, StoringPlace
  <2>6. ASSUME NEW d \in DOMAIN files'
        PROVE  /\ files'[d] \in BOOLEAN
               /\ d \notin DOMAIN files => Writes(x, e, d)
               /\ Writes(x, exec[x], d) => files'[d] \/ Writes(x, e, d) \/ Troubled(e)
    BY <2>1, <2>2 DEF Writes, StageIInv
  <2> QED BY <1>2, <2>2, <2>3, <2>4, <2>5, <2>6, Keeps DEF Look
<1>4. CASE ~NeedsFile(x)
  <2>1. exec' = [exec EXCEPT ![x].phase = "insert"] /\ UNCHANGED files
        /\ (Inline(c) \/ c \in DOMAIN files)
    BY <1>1, <1>4 DEF Look, NeedsFile
  <2> PICK e : e = [a EXCEPT !.phase = "insert"]
    OBVIOUS
  <2>2. /\ e \in Execution /\ Goes(a, e) /\ e.at = a.at
        /\ e.bound = a.bound /\ ContentOf(x, e) = c
    BY PhaseMeans
  <2>3. exec' = [exec EXCEPT ![x] = e]
    BY <2>1 DEF StageIInv
  <2>4. Grows
    BY <2>1 DEF Grows, Look
  <2>5. InPlace(x, e)'
    BY <2>1, <2>2, StoringPlace
  <2>6. ASSUME NEW d \in DOMAIN files'
        PROVE  /\ files'[d] \in BOOLEAN
               /\ d \notin DOMAIN files => Writes(x, e, d)
               /\ Writes(x, exec[x], d) => files'[d] \/ Writes(x, e, d) \/ Troubled(e)
    BY <2>1 DEF Writes, StageIInv
  <2> QED BY <1>2, <2>2, <2>3, <2>4, <2>5, <2>6, Keeps DEF Look
<1> QED BY <1>3, <1>4

LEMMA WriteFileKeeps ==
  ASSUME StageIInv, NEW x \in Stages, WriteFile(x) PROVE StageIInv'
<1> PICK a \in Execution : a = exec[x] /\ InPlace(x, a) /\ a.at \in Stores /\ a.phase = "write"
  BY ExecutionType DEF WriteFile, Storing, Stores
<1> PICK c : c = ContentOf(x, a)
  OBVIOUS
<1>1. files' = [files EXCEPT ![c] = TRUE] /\ exec' = [exec EXCEPT ![x].phase = "insert"]
  BY ContentAgrees DEF WriteFile
<1> PICK e : e = [a EXCEPT !.phase = "insert"]
  OBVIOUS
<1>2. /\ e \in Execution /\ Goes(a, e) /\ e.at = a.at
      /\ e.bound = a.bound /\ ContentOf(x, e) = c
  BY PhaseMeans
<1>3. exec' = [exec EXCEPT ![x] = e]
  BY <1>1 DEF StageIInv
<1>4. /\ Grows /\ DOMAIN files' = DOMAIN files
      /\ \A d \in DOMAIN files : files'[d] = IF d = c THEN TRUE ELSE files[d]
  BY <1>1 DEF Grows, WriteFile
<1>5. InPlace(x, e)'
  <2>1. Inline(c) \/ c \in DOMAIN files
    BY DEF InPlace
  <2> QED BY <1>2, <1>4, <2>1, StoringPlace
<1>6. ASSUME NEW d \in DOMAIN files'
      PROVE  /\ files'[d] \in BOOLEAN
             /\ d \notin DOMAIN files => Writes(x, e, d)
             /\ Writes(x, exec[x], d) => files'[d] \/ Writes(x, e, d) \/ Troubled(e)
  BY <1>4 DEF Writes, StageIInv
<1>7. Single'
  BY DEF StageIInv, Single, WriteFile
<1> QED BY <1>2, <1>3, <1>4, <1>5, <1>6, <1>7, Keeps DEF WriteFile

\* The artifact that is inserted is the present content, and has its file.
LEMMA InsertKeeps ==
  ASSUME StageIInv, NEW x \in Stages, InsertArtifact(x) PROVE StageIInv'
<1> PICK a \in Execution : a = exec[x] /\ InPlace(x, a) /\ a.at \in Stores /\ a.phase = "insert"
  BY ExecutionType DEF InsertArtifact, Storing, Stores
<1> PICK c : c = ContentOf(x, a)
  OBVIOUS
<1>1. c = Content(x)
  BY ContentAgrees
<1>2. CASE c \in DOMAIN artifacts
  <2>1. exec' = [exec EXCEPT ![x].at = "failed"]
        /\ UNCHANGED <<artifacts, files, rows, materialised, events>>
    BY <1>1, <1>2 DEF InsertArtifact, Fails
  <2>2. exec[x].at # "dead" /\ "failed" \in Stopped
    BY DEF Stores, Stopped
  <2> QED BY <2>1, <2>2, FailKeeps
<1>3. CASE c \notin DOMAIN artifacts
  <2>1. /\ artifacts' = [d \in DOMAIN artifacts \cup {c} |->
                            IF d = c THEN Identifier(x, a.at) ELSE artifacts[d]]
        /\ Advance(x) /\ UNCHANGED <<files, rows, materialised, events>>
    BY <1>1, <1>3 DEF InsertArtifact
  <2> PICK e : e = NextStep(a)
    OBVIOUS
  <2>2. /\ e \in Execution /\ Goes(a, e) /\ e.at = Following(a.at, a.pack) /\ e.tries = a.tries
        /\ e.text = a.text /\ e.raw = a.raw /\ e.pack = a.pack
    BY NextSteps DEF Going
  <2>3. exec' = [exec EXCEPT ![x] = e]
    BY <2>1, AdvanceMeans
  <2>4. Grows
    BY <1>3, <2>1 DEF Grows
  <2>5. InPlace(x, e)'
    BY <2>4, StoredPlace, InPlaceStays
  <2>6. Inline(c) \/ c \in DOMAIN files
    BY DEF InPlace
  <2>7. Owned(c)'
    <3>1. artifacts'[c] = <<a.at, x, a.tries>>
      BY <2>1 DEF Identifier
    <3>2. /\ c[1] = a.at
          /\ c[1] = "text" => c[2] = a.text
          /\ c[1] = "raw" => c[2] = a.raw
          /\ c[1] = "pack" => c[2] = a.pack
          /\ c[1] = "result" => <<c[2], c[3]>> = <<x, a.tries>>
      BY DEF ContentOf, Stores
    <3>3. e.at # "idle" /\ (a.at # "text" => e.at \notin Unanswered)
      BY <2>2, FollowingSteps DEF Stores, Unanswered
    <3>4. OwnedBy(c, a.tries, e)
      BY <2>2, <3>2, <3>3 DEF OwnedBy, Execution
    <3>5. exec'[x] = e /\ a.tries \in Nat
      BY <2>3 DEF StageIInv, Execution
    <3> QED BY <3>1, <3>2, <3>4, <3>5 DEF Owned
  <2>8. \A d \in DOMAIN artifacts' : d \notin DOMAIN artifacts => d = c
    BY <2>1
  <2>9. Single' /\ \A d \in DOMAIN files' : files'[d] \in BOOLEAN /\ ~Writes(x, exec[x], d)
    BY <2>1 DEF StageIInv, Single, Writes
  <2> QED BY <2>1, <2>2, <2>3, <2>4, <2>5, <2>6, <2>7, <2>8, <2>9, Keeps
<1> QED BY <1>2, <1>3

------------------------------------------------------------------------------
\* The rows, the findings and the event.

\* An artifact that has one of an execution's own identifiers is its content.
LEMMA OwnArtifact ==
  ASSUME StageIInv, NEW x \in Stages, NEW slot \in Stores, NEW c \in DOMAIN artifacts,
         artifacts[c] = Identifier(x, slot)
  PROVE  /\ c[1] = slot
         /\ c[1] = "text" => c[2] = exec[x].text
         /\ c[1] = "raw" => c[2] = exec[x].raw
         /\ c[1] = "pack" => c[2] = exec[x].pack
         /\ c[1] = "result" => <<c[2], c[3]>> = <<x, exec[x].tries>>
<1>1. PICK y \in Stages, t \in Nat :
        /\ artifacts[c] = <<c[1], y, t>>
        /\ c[1] = "result" => <<c[2], c[3]>> = <<y, t>>
        /\ OwnedBy(c, t, exec[y])
  BY DEF StageIInv, Owned
<1>2. c[1] = slot /\ y = x /\ t = exec[x].tries
  BY <1>1 DEF Identifier
<1> QED BY <1>1, <1>2 DEF OwnedBy

Written(at) == IF at = "prompt_row" THEN "prompt"
               ELSE IF at = "worker_row" THEN "worker" ELSE "result"

\* An execution writes each of its rows once, with references that are its own.
LEMMA RecordsKeeps ==
  ASSUME StageIInv, NEW x \in Stages, exec[x].at \in {"prompt_row", "worker_row", "result_row"},
         NEW table, table = Written(exec[x].at),
         NEW refs, \A id \in refs : \E slot \in Stores : id = Identifier(x, slot),
         Records(x, table, refs)
  PROVE  StageIInv'
<1> PICK a \in Execution : a = exec[x] /\ InPlace(x, a)
  BY ExecutionType
<1>1. CASE ~\A id \in refs : Resolves(id)
  <2>1. exec' = [exec EXCEPT ![x].at = "failed"]
        /\ UNCHANGED <<artifacts, files, rows, materialised, events>>
    BY <1>1 DEF Records, Fails
  <2> QED BY <2>1, FailKeeps DEF Stopped, Stores
<1>2. CASE \A id \in refs : Resolves(id)
  <2> PICK r : r = [table |-> table, by |-> <<x, a.tries>>, refs |-> refs,
                    text |-> a.text, raw |-> a.raw, pack |-> a.pack]
    OBVIOUS
  <2>1. rows' = rows \cup {r} /\ Advance(x) /\ UNCHANGED <<artifacts, files, materialised, events>>
    BY <1>2 DEF Records
  <2> PICK e : e = NextStep(a)
    OBVIOUS
  <2>2. /\ e \in Execution /\ Goes(a, e) /\ e.phase = "look" /\ e.at = Following(a.at, a.pack)
        /\ e.tries = a.tries /\ e.pack = a.pack /\ e.bound = a.bound
    BY NextSteps DEF Going
  <2>3. exec' = [exec EXCEPT ![x] = e]
    BY <2>1, AdvanceMeans
  <2>4. Grows
    BY <2>1 DEF Grows
  <2>5. /\ table \in Tables /\ a.at \notin Past(table) \cup Stopped /\ e.at \in Past(table)
        /\ \A other \in Tables : e.at \in Past(other) => other = table \/ a.at \in Past(other)
        /\ e.at \in PastFindings => a.at \in PastFindings
    <3>1. e.at = IF a.at = "prompt_row" THEN "findings"
                 ELSE IF a.at = "worker_row" THEN "calls" ELSE "event"
      BY <2>2, FollowingSteps
    <3>2. CASE a.at = "prompt_row"
      BY <3>1, <3>2 DEF Written, Tables, Past, PastPrompt, PastWorker, PastResult, PastFindings, Stopped
    <3>3. CASE a.at = "worker_row"
      BY <3>1, <3>3 DEF Written, Tables, Past, PastPrompt, PastWorker, PastResult, PastFindings, Stopped
    <3>4. CASE a.at = "result_row"
      BY <3>1, <3>4 DEF Written, Tables, Past, PastPrompt, PastWorker, PastResult, PastFindings, Stopped
    <3> QED BY <3>2, <3>3, <3>4
  <2>6. r.table = table /\ r.by = <<x, a.tries>> /\ r.refs = refs
        /\ r.text = a.text /\ r.raw = a.raw /\ r.pack = a.pack
    OBVIOUS
  <2>7. InPlace(x, e)'
    <3>1. \A other \in Tables : e.at \in Past(other) => HasRow(other, <<x, e.tries>>)'
      <4>1. HasRow(table, <<x, a.tries>>)'
        BY <2>1, <2>6 DEF HasRow
      <4> QED BY <2>2, <2>4, <2>5, <4>1, RowStays DEF InPlace
    <3>2. e.at \in PastFindings => \A f \in Kept(e.pack) : Found(f, <<x, e.tries>>)'
      BY <2>2, <2>4, <2>5, FoundStays DEF InPlace
    <3>3. e.bound
      BY <2>2 DEF InPlace, Stopped
    <3> QED BY <2>2, <3>1, <3>2, <3>3 DEF InPlace
  <2>8. ASSUME NEW q \in rows PROVE ~(q.table = table /\ q.by = <<x, a.tries>>)
    <3> SUFFICES ASSUME q.table = table, q.by = <<x, a.tries>> PROVE FALSE
      OBVIOUS
    <3>1. PICK y \in Stages, t \in Nat : q.by = <<y, t>> /\ RowBy(q.table, t, exec[y])
      BY DEF StageIInv, Placed
    <3>2. y = x /\ t = a.tries
      BY <3>1
    <3> QED BY <2>5, <3>1, <3>2 DEF RowBy
  <2>9. Single'
    BY <2>1, <2>6, <2>8 DEF StageIInv, Single
  <2>10. TrueRefs(r)'
    <3>1. ASSUME NEW id \in refs
          PROVE  \E c \in DOMAIN artifacts :
                    /\ artifacts[c] = id
                    /\ c[1] = "text" => c[2] = r.text
                    /\ c[1] = "raw" => c[2] = r.raw
                    /\ c[1] = "pack" => c[2] = r.pack
                    /\ c[1] = "result" => <<c[2], c[3]>> = r.by
      <4>1. PICK slot \in Stores : id = Identifier(x, slot)
        OBVIOUS
      <4>2. PICK c \in DOMAIN artifacts : artifacts[c] = id
        BY <1>2 DEF Resolves
      <4>3. /\ c[1] = "text" => c[2] = a.text
            /\ c[1] = "raw" => c[2] = a.raw
            /\ c[1] = "pack" => c[2] = a.pack
            /\ c[1] = "result" => <<c[2], c[3]>> = <<x, a.tries>>
        BY <4>1, <4>2, OwnArtifact
      <4> QED BY <2>6, <4>2, <4>3
    <3>2. artifacts' = artifacts
      BY <2>1
    <3> QED BY <2>6, <3>1, <3>2 DEF TrueRefs
  <2>11. Placed(r)'
    <3>1. RowBy(table, a.tries, e) /\ a.tries \in Nat /\ exec'[x] = e
      BY <2>2, <2>3, <2>5 DEF RowBy, Execution, StageIInv
    <3> QED BY <2>5, <2>6, <3>1 DEF Placed
  <2>12. \A d \in DOMAIN files' : files'[d] \in BOOLEAN /\ ~Writes(x, exec[x], d)
    BY <2>1 DEF StageIInv, Writes, Stores
  <2> QED BY <2>1, <2>2, <2>3, <2>4, <2>7, <2>9, <2>10, <2>11, <2>12, Keeps
<1> QED BY <1>1, <1>2

LEMMA RowsKeep ==
  ASSUME StageIInv, NEW x \in Stages, RecordPrompt(x) \/ RecordWorker(x) \/ RecordResult(x)
  PROVE  StageIInv'
<1>1. CASE RecordPrompt(x)
  <2>1. exec[x].at = "prompt_row" /\ Records(x, "prompt", {Identifier(x, "text")})
    BY <1>1 DEF RecordPrompt
  <2>2. \A id \in {Identifier(x, "text")} : \E slot \in Stores : id = Identifier(x, slot)
    BY DEF Stores
  <2>3. Written(exec[x].at) = "prompt"
    BY <2>1 DEF Written
  <2> QED BY <2>1, <2>2, <2>3, RecordsKeeps
<1>2. CASE RecordWorker(x)
  <2>1. exec[x].at = "worker_row"
        /\ Records(x, "worker", {Identifier(x, "raw"), Identifier(x, "result")})
    BY <1>2 DEF RecordWorker
  <2>2. \A id \in {Identifier(x, "raw"), Identifier(x, "result")} :
           \E slot \in Stores : id = Identifier(x, slot)
    BY DEF Stores
  <2>3. Written(exec[x].at) = "worker"
    BY <2>1 DEF Written
  <2> QED BY <2>1, <2>2, <2>3, RecordsKeeps
<1>3. CASE RecordResult(x)
  <2> PICK refs : refs = {Identifier(x, "result")} \cup
                           IF exec[x].pack = NoPack THEN {} ELSE {Identifier(x, "pack")}
    OBVIOUS
  <2>1. exec[x].at = "result_row" /\ Records(x, "result", refs)
    BY <1>3 DEF RecordResult
  <2>2. \A id \in refs : \E slot \in Stores : id = Identifier(x, slot)
    BY DEF Stores
  <2>3. Written(exec[x].at) = "result"
    BY <2>1 DEF Written
  <2> QED BY <2>1, <2>2, <2>3, RecordsKeeps
<1> QED BY <1>1, <1>2, <1>3

LEMMA MaterialiseKeeps ==
  ASSUME StageIInv, NEW x \in Stages, Materialise(x) PROVE StageIInv'
<1> PICK a \in Execution : a = exec[x] /\ InPlace(x, a) /\ a.at = "findings"
  BY ExecutionType DEF Materialise
<1> PICK by : by = <<x, a.tries>>
  OBVIOUS
<1> PICK written : written = {r.finding : r \in {r \in materialised : r.by = by}}
  OBVIOUS
<1>1. a.bound /\ HasRow("prompt", by)
  BY DEF InPlace, Stopped, Tables, Past, PastPrompt
<1>2. CASE Kept(a.pack) \subseteq written
  <2>1. Advance(x) /\ UNCHANGED <<artifacts, files, rows, materialised, events>>
    BY <1>2 DEF Materialise
  <2> PICK e : e = NextStep(a)
    OBVIOUS
  <2>2. /\ e \in Execution /\ Goes(a, e) /\ e.phase = "look" /\ e.at = "worker_row"
        /\ e.tries = a.tries /\ e.pack = a.pack /\ e.bound = a.bound
    BY NextSteps, FollowingSteps DEF Going
  <2>3. exec' = [exec EXCEPT ![x] = e]
    BY <2>1, AdvanceMeans
  <2>4. \A f \in Kept(a.pack) : Found(f, by)
    BY <1>2 DEF Found
  <2>5. InPlace(x, e)
    BY <1>1, <2>2, <2>4 DEF InPlace, Tables, Past, PastPrompt, PastWorker, PastResult
  <2> QED BY <2>1, <2>2, <2>3, <2>5, MoveKeeps DEF Stores
<1>3. CASE ~(Kept(a.pack) \subseteq written)
  <2>1. PICK f \in Kept(a.pack) \ written :
          materialised' = materialised \cup {[finding |-> f, by |-> by, bound |-> a.bound]}
    BY <1>3 DEF Materialise
  <2>2. UNCHANGED <<artifacts, files, rows, events, exec>>
    BY <1>3 DEF Materialise
  <2> PICK m : m = [finding |-> f, by |-> by, bound |-> a.bound]
    OBVIOUS
  <2>3. Grows /\ Goes(a, a)
    BY <2>1, <2>2 DEF Grows, Goes
  <2>4. exec' = [exec EXCEPT ![x] = a]
    BY <2>2 DEF StageIInv
  <2>5. InPlace(x, a)'
    BY <2>3, InPlaceStays
  <2>6. HasRow("prompt", by)'
    BY <1>1, <2>3, RowStays
  <2>7. \A r \in materialised' : r \notin materialised => r.bound /\ HasRow("prompt", r.by)'
    BY <1>1, <2>1, <2>6
  <2>8. Single' /\ \A d \in DOMAIN files' : files'[d] \in BOOLEAN /\ ~Writes(x, exec[x], d)
    BY <2>2 DEF StageIInv, Single, Writes, Stores
  <2> QED BY <2>2, <2>3, <2>4, <2>5, <2>7, <2>8, Keeps
<1> QED BY <1>2, <1>3

\* What an event reports is in the store by then.
LEMMA RecordEventKeeps ==
  ASSUME StageIInv, NEW x \in Stages, RecordEvent(x) PROVE StageIInv'
<1> PICK a \in Execution : a = exec[x] /\ InPlace(x, a) /\ a.at = "event"
  BY ExecutionType DEF RecordEvent
<1> PICK v : v = [by |-> <<x, a.tries>>, attempt |-> a.attempt, pack |-> a.pack,
                  state |-> StageState(a.pack, a.attempt)]
  OBVIOUS
<1>1. events' = events \cup {v} /\ Advance(x) /\ UNCHANGED <<artifacts, files, rows, materialised>>
  BY DEF RecordEvent
<1> PICK e : e = NextStep(a)
  OBVIOUS
<1>2. /\ e \in Execution /\ Goes(a, e) /\ e.phase = "look" /\ e.at = "done"
      /\ e.tries = a.tries /\ e.pack = a.pack /\ e.bound = a.bound
  BY NextSteps, FollowingSteps DEF Going
<1>3. exec' = [exec EXCEPT ![x] = e]
  BY <1>1, AdvanceMeans
<1>4. /\ a.bound /\ \A table \in Tables : HasRow(table, <<x, a.tries>>)
      /\ \A f \in Kept(a.pack) : Found(f, <<x, a.tries>>)
  BY DEF InPlace, Stopped, Tables, Past, PastPrompt, PastWorker, PastResult, PastFindings
<1>5. Grows
  BY <1>1 DEF Grows
<1>6. InPlace(x, e)'
  <2>1. InPlace(x, e)
    BY <1>2, <1>4 DEF InPlace
  <2> QED BY <1>5, <2>1, InPlaceStays
<1>7. Reported(v)'
  <2>1. v.by = <<x, a.tries>> /\ v.pack = a.pack /\ v.attempt \in 0..Budget
        /\ v.state = StageState(v.pack, v.attempt)
    BY DEF Execution
  <2> QED BY <1>4, <1>5, <2>1, RowStays, FoundStays DEF Reported
<1>8. Single' /\ \A d \in DOMAIN files' : files'[d] \in BOOLEAN /\ ~Writes(x, exec[x], d)
  BY <1>1 DEF StageIInv, Single, Writes, Stores
<1> QED BY <1>1, <1>2, <1>3, <1>5, <1>6, <1>7, <1>8, Keeps

LEMMA StageInductive == StageIInv /\ [StageNext]_stageVars => StageIInv'
<1> SUFFICES ASSUME StageIInv, [StageNext]_stageVars PROVE StageIInv'
  OBVIOUS
<1>1. ASSUME NEW x \in Stages, NEW text \in Prompts, Begin(x, text) PROVE StageIInv'
  BY <1>1, BeginKeeps
<1>2. ASSUME NEW x \in Stages, NEW raw \in Raws, NEW pack \in Packs \cup {NoPack},
             NEW bound \in BOOLEAN, Answer(x, raw, pack, bound)
      PROVE  StageIInv'
  BY <1>2, AnswerKeeps
<1>3. ASSUME NEW x \in Stages, FoundStored(x) \/ Look(x) \/ WriteFile(x) \/ InsertArtifact(x)
      PROVE  StageIInv'
  BY <1>3, FoundStoredKeeps, LookKeeps, WriteFileKeeps, InsertKeeps
<1>4. ASSUME NEW x \in Stages,
             RecordPrompt(x) \/ Materialise(x) \/ RecordWorker(x) \/ RecordResult(x) \/ RecordEvent(x)
      PROVE  StageIInv'
  BY <1>4, RowsKeep, MaterialiseKeeps, RecordEventKeeps
<1>5. ASSUME NEW x \in Stages, RecordCalls(x) PROVE StageIInv'
  <2>1. CASE Advance(x)
    BY <1>5, <2>1, FoundStoredKeeps
  <2>2. CASE Fails(x)
    <3>1. exec' = [exec EXCEPT ![x].at = "failed"] /\ exec[x].at = "calls"
          /\ UNCHANGED <<artifacts, files, rows, materialised, events>>
      BY <1>5, <2>2 DEF RecordCalls, Fails
    <3> QED BY <3>1, FailKeeps DEF Stopped, Stores
  <2> QED BY <1>5, <2>1, <2>2 DEF RecordCalls
<1>6. ASSUME NEW x \in Stages, TransportFails(x) PROVE StageIInv'
  <2>1. exec' = [exec EXCEPT ![x].at = "failed"] /\ exec[x].at = "worker"
        /\ UNCHANGED <<artifacts, files, rows, materialised, events>>
    BY <1>6 DEF TransportFails, Fails
  <2> QED BY <2>1, FailKeeps DEF Stopped, Stores
<1>7. ASSUME NEW x \in Stages, StageStops(x) PROVE StageIInv'
  <2>1. exec' = [exec EXCEPT ![x].at = "dead"] /\ exec[x].at # "dead"
        /\ UNCHANGED <<artifacts, files, rows, materialised, events>>
    BY <1>7 DEF StageStops, Running
  <2> QED BY <2>1, FailKeeps DEF Stopped
<1>8. ASSUME NEW x \in Stages, Again(x) \/ Repair(x) PROVE StageIInv'
  BY <1>8, AgainKeeps
<1>9. CASE UNCHANGED stageVars
  <2>1. /\ UNCHANGED <<artifacts, files, exec, rows, materialised, events>>
    BY <1>9 DEF stageVars
  <2> QED BY <2>1 DEF StageIInv, InPlace, HasRow, Found, Owned, Whole, Single, ReferencesAreTrue,
                      Placed, Reported
<1> QED BY <1>1, <1>2, <1>3, <1>4, <1>5, <1>6, <1>7, <1>8, <1>9 DEF StageNext

LEMMA StageAlways == StageSpec => []StageIInv
BY StageInitial, StageInductive, PTL DEF StageSpec

\* For any stages, prompts, outputs and packs and any repair budget: what the
\* store holds of an execution is what the execution really had, complete up to
\* where it got, through crashes, races on a digest, repairs and repetitions; an
\* event comes last and a finding only from a result of its own task
\* (store_artifact, execute_review_stage, materialize_structured_findings).
THEOREM StagesAreTrue == StageSpec => []StageInv
<1>1. StageIInv => StageInv
  <2> SUFFICES ASSUME StageIInv PROVE StageInv
    OBVIOUS
  <2>1. StageTypeOK
    <3>1. ASSUME NEW x \in Stages
          PROVE  /\ exec[x].at \in Steps /\ exec[x].phase \in {"look", "write", "insert"}
                 /\ exec[x].phase # "look" => Storing(x) \/ exec[x].at \in {"failed", "dead"}
                 /\ exec[x].attempt \in 0..Budget /\ exec[x].tries \in Nat \ {0}
                 /\ exec[x].text \in Prompts \cup {Unset} /\ exec[x].raw \in Raws \cup {Unset}
                 /\ exec[x].pack \in Packs \cup {NoPack}
      BY ExecutionType DEF Execution, InPlace, Storing, Stores, Stopped
    <3>2. ASSUME NEW r \in rows PROVE Cardinality(RowOf(r.table, r.by)) = 1
      <4>1. RowOf(r.table, r.by) = {r}
        BY DEF StageIInv, Single, RowOf
      <4> QED BY <4>1, FS_Singleton
    <3> QED BY <3>1, <3>2 DEF StageTypeOK, StageIInv
  <2>2. RowsHaveFiles
    <3>1. ASSUME NEW c \in DOMAIN artifacts, ~Inline(c)
          PROVE  /\ c \in DOMAIN files
                 /\ \/ files[c]
                    \/ \E x \in Stages : Storing(x) /\ exec[x].phase = "write" /\ Content(x) = c
                    \/ \E x \in Stages : exec[x].at = "dead" \/ exec[x].tries > 1
      <4>1. c \in DOMAIN files /\ Whole(c)
        BY <3>1 DEF StageIInv
      <4>2. \A x \in Stages : Writes(x, exec[x], c) =>
                                Storing(x) /\ exec[x].phase = "write" /\ Content(x) = c
        BY ContentAgrees DEF Writes, Storing, Stores
      <4> QED BY <4>1, <4>2 DEF Whole, Troubled
    <3> QED BY <3>1 DEF RowsHaveFiles
  <2>3. EventIsLast
    BY DEF StageIInv, Reported, EventIsLast, HasRow, Found, RowOf, Tables
  <2>4. FindingsAreBound
    BY DEF StageIInv, FindingsAreBound, HasRow, RowOf
  <2>5. RepairEnds
    <3>1. ASSUME NEW v \in events
          PROVE  /\ v.attempt = Budget => v.state # "repair_needed"
                 /\ v.state \in {"structured", "partial"} <=> Kept(v.pack) # {}
      <4>1. v.attempt \in 0..Budget /\ v.state = StageState(v.pack, v.attempt)
        BY DEF StageIInv, Reported
      <4> QED BY <4>1, StatesMean, StageAssumption
    <3> QED BY <3>1 DEF RepairEnds
  <2> QED BY <2>1, <2>2, <2>3, <2>4, <2>5 DEF StageInv, StageIInv
<1> QED BY <1>1, StageAlways, PTL

-------------------------------------------------------------------------------
(***************************************************************************)
(* Which session a re-entry commits to, for any sessions, pull requests,   *)
(* worktrees and processes.                                                *)
(*                                                                         *)
(* The choice among several candidates is a loop, over a list: the list    *)
(* exists because finitely many sessions can be sorted, the loop's result  *)
(* because its rounds define a function, and what the loop has found after *)
(* a round is shown by taking the first round where it would be wrong.     *)
(***************************************************************************)

------------------------------------------------------------------------------
(* Finite sets and sequences. *)

\* A nonempty set of naturals has a least element.
LEMMA FirstNatural ==
    ASSUME NEW K, K \subseteq Nat, K # {}
    PROVE  \E k \in K : \A j \in K : k <= j
<1>1. PICK k \in K : \A j \in K : ~(<<j, k>> \in OpToRel(<, Nat))
  BY NatLessThanWellFounded, WFMin
<1>2. \A j \in K : ~(j < k)
  BY <1>1 DEF OpToRel
<1> QED
  BY <1>2

Sorted(l, u) == \A i, j \in DOMAIN l : i < j => u[l[i]] >= u[l[j]]

\* Finitely many things with a natural number each can be listed from the
\* greatest to the least.
LEMMA SortedListExists ==
    ASSUME NEW S, IsFiniteSet(S), NEW u, \A s \in S : u[s] \in Nat
    PROVE  \E l \in SetToSeqs(S) : Sorted(l, u)
<1>1. PICK K : K = {k \in Nat : \E T \in SUBSET S :
                      Cardinality(T) = k /\ ~\E l \in SetToSeqs(T) : Sorted(l, u)}
  OBVIOUS
<1>2. \A T \in SUBSET S : IsFiniteSet(T) /\ Cardinality(T) \in Nat
  BY FS_Subset, FS_CardinalityType
<1>3. SUFFICES ASSUME K # {} PROVE FALSE
  BY <1>1, <1>2
<1>4. PICK k \in K : \A j \in K : k <= j
  BY <1>1, <1>3, FirstNatural
<1>5. PICK T \in SUBSET S : Cardinality(T) = k /\ ~\E l \in SetToSeqs(T) : Sorted(l, u)
  BY <1>1
<1>6. k \in Nat /\ IsFiniteSet(T)
  BY <1>1, <1>2
<1>7. CASE T = {}
  <2>1. PICK l : l = [i \in 1..0 |-> i]
    OBVIOUS
  <2>2. k = 0
    BY <1>5, <1>7, FS_EmptySet
  <2>3. l \in [1..Cardinality(T) -> T] /\ DOMAIN l = {}
    BY <1>5, <2>1, <2>2
  <2>4. l \in SetToSeqs(T)
    BY <2>3 DEF SetToSeqs
  <2>5. Sorted(l, u)
    BY <2>3 DEF Sorted
  <2> QED
    BY <1>5, <2>4, <2>5
<1>8. CASE T # {}
  <2>1. PICK V : V = {u[s] : s \in T}
    OBVIOUS
  <2>2. V \subseteq Nat /\ V # {}
    BY <1>8, <2>1
  <2>3. PICK v \in V : \A w \in V : v <= w
    BY <2>2, FirstNatural
  <2>4. PICK x \in T : v = u[x]
    BY <2>1
  <2>5. \A s \in T : u[x] <= u[s]
    BY <2>1, <2>3, <2>4
  <2>6. PICK R : R = T \ {x}
    OBVIOUS
  <2>7. Cardinality(R) = k - 1 /\ R \in SUBSET S /\ Cardinality(R) \in Nat
    BY <1>2, <1>5, <1>6, <2>6, FS_RemoveElement
  <2>8. k - 1 \notin K
    BY <1>4, <1>6, <2>7
  <2>9. PICK m \in SetToSeqs(R) : Sorted(m, u)
    BY <1>1, <2>7, <2>8
  <2>10. /\ m \in [1..(k - 1) -> R]
         /\ \A i, j \in 1..(k - 1) : i # j => m[i] # m[j]
    BY <2>7, <2>9 DEF SetToSeqs
  <2>11. PICK l : l = [i \in 1..k |-> IF i = k THEN x ELSE m[i]]
    OBVIOUS
  <2>12. /\ DOMAIN l = 1..k
         /\ \A i \in 1..k : l[i] = IF i = k THEN x ELSE m[i]
         /\ \A i \in 1..k : i # k => i \in 1..(k - 1) /\ m[i] \in R
    BY <1>6, <2>7, <2>10, <2>11
  <2>13. l \in [1..k -> T]
    BY <2>6, <2>11, <2>12
  <2>14. \A i, j \in 1..k : i # j => l[i] # l[j]
    BY <2>6, <2>10, <2>12
  <2>15. l \in SetToSeqs(T)
    BY <1>5, <2>13, <2>14 DEF SetToSeqs
  <2>16. ASSUME NEW i \in 1..k, NEW j \in 1..k, i < j
         PROVE  u[l[i]] >= u[l[j]]
    <3>1. i # k /\ l[i] = m[i] /\ i \in 1..(k - 1) /\ m[i] \in T
      BY <1>6, <2>6, <2>12, <2>16
    <3>2. CASE j = k
      BY <2>5, <2>12, <3>1, <3>2
    <3>3. CASE j # k
      BY <2>9, <2>10, <2>12, <2>16, <3>1, <3>3 DEF Sorted
    <3> QED
      BY <3>2, <3>3
  <2>17. Sorted(l, u)
    BY <2>12, <2>16 DEF Sorted
  <2> QED
    BY <1>5, <2>15, <2>17
<1> QED
  BY <1>7, <1>8

\* A sequence that lists a finite set lists every element of it.
LEMMA ListsAll ==
    ASSUME NEW S, IsFiniteSet(S), NEW l \in SetToSeqs(S)
    PROVE  /\ l \in Seq(S) /\ Len(l) = Cardinality(S) /\ Len(l) \in Nat
           /\ \A i \in 1..Len(l) : l[i] \in S
           /\ \A i, j \in 1..Len(l) : i # j => l[i] # l[j]
           /\ \A s \in S : \E i \in 1..Len(l) : l[i] = s
<1>1. PICK n \in Nat : n = Cardinality(S)
  BY FS_CardinalityType
<1>2. l \in [1..n -> S] /\ \A i, j \in 1..n : i # j => l[i] # l[j]
  BY <1>1 DEF SetToSeqs
<1>3. l \in Seq(S) /\ Len(l) = n
  BY <1>2
<1>4. l \in Injection(1..n, S)
  BY <1>2 DEF Injection, IsInjective
<1>5. IsFiniteSet(1..n) /\ Cardinality(1..n) = n
  BY FS_Interval
<1>6. l \in Surjection(1..n, S)
  BY <1>1, <1>4, <1>5, FS_Injection
<1>7. \A s \in S : \E i \in 1..n : l[i] = s
  BY <1>6 DEF Surjection
<1> QED
  BY <1>1, <1>2, <1>3, <1>7

------------------------------------------------------------------------------
(* The order of the scores. *)

Scores == [pr : Nat, binding : Nat, quality : Nat, updated : Nat]

\* Of two scores one is weaker, unless they are the same.
LEMMA WeakerIsTotal ==
    ASSUME NEW x \in Scores, NEW y \in Scores, NEW z \in Scores
    PROVE  /\ ~Weaker(x, x)
           /\ Weaker(x, y) => ~Weaker(y, x)
           /\ Weaker(x, y) \/ Weaker(y, x) \/ x = y
           /\ Weaker(x, y) /\ Weaker(y, z) => Weaker(x, z)
<1>1. PICK p \in Nat, b \in Nat, q \in Nat, u \in Nat :
        x = [pr |-> p, binding |-> b, quality |-> q, updated |-> u]
  BY DEF Scores
<1>2. PICK pp \in Nat, bb \in Nat, qq \in Nat, uu \in Nat :
        y = [pr |-> pp, binding |-> bb, quality |-> qq, updated |-> uu]
  BY DEF Scores
<1>3. PICK ppp \in Nat, bbb \in Nat, qqq \in Nat, uuu \in Nat :
        z = [pr |-> ppp, binding |-> bbb, quality |-> qqq, updated |-> uuu]
  BY DEF Scores
<1>4. /\ ~Weaker(x, x)
      /\ Weaker(x, y) => ~Weaker(y, x)
  BY <1>1, <1>2 DEF Weaker
<1>5. Weaker(x, y) \/ Weaker(y, x) \/ x = y
  BY <1>1, <1>2 DEF Weaker
<1>6. Weaker(x, y) /\ Weaker(y, z) => Weaker(x, z)
  BY <1>1, <1>2, <1>3 DEF Weaker
<1> QED
  BY <1>4, <1>5, <1>6

LEMMA WeakestScore ==
    ASSUME NEW x \in Scores, NEW y \in Scores
    PROVE  (x = y \/ Weaker(x, y)) <=> ~Weaker(y, x)
BY WeakerIsTotal

------------------------------------------------------------------------------
(* The rounds of the loop. *)

\* A function of the rounds up to the k-th.
IsLoop(f, k, l, surface, root, pulls) ==
    f = [i \in 0..k |-> IF i = 0 THEN NoneYet
                        ELSE Consider(f[i - 1], l[i], Score(l[i], surface, root, pulls))]

LEMMA LoopExists ==
    ASSUME NEW n \in Nat, NEW l, NEW surface, NEW root, NEW pulls
    PROVE  \E f : IsLoop(f, n, l, surface, root, pulls)
<1>1. PICK K : K = {k \in Nat : ~\E f : IsLoop(f, k, l, surface, root, pulls)}
  OBVIOUS
<1>2. SUFFICES ASSUME K # {} PROVE FALSE
  BY <1>1
<1>3. PICK k \in K : \A j \in K : k <= j
  BY <1>1, <1>2, FirstNatural
<1>4. k \in Nat /\ ~\E f : IsLoop(f, k, l, surface, root, pulls)
  BY <1>1
<1>5. CASE k = 0
  <2>1. PICK f : f = [i \in 0..0 |-> NoneYet]
    OBVIOUS
  <2>2. f = [i \in 0..0 |-> IF i = 0 THEN NoneYet
                            ELSE Consider(f[i - 1], l[i], Score(l[i], surface, root, pulls))]
    <3>1. \A i \in 0..0 : i = 0
      OBVIOUS
    <3> QED
      BY <2>1, <3>1
  <2> QED
    BY <1>4, <1>5, <2>2 DEF IsLoop
<1>6. CASE k # 0
  <2>1. k - 1 \in Nat /\ k - 1 \notin K
    BY <1>3, <1>4, <1>6
  <2>2. PICK f : IsLoop(f, k - 1, l, surface, root, pulls)
    BY <1>1, <2>1
  <2>3. \A i \in 0..(k - 1) :
          f[i] = IF i = 0 THEN NoneYet
                 ELSE Consider(f[i - 1], l[i], Score(l[i], surface, root, pulls))
    BY <2>2 DEF IsLoop
  <2>4. PICK last : last = Consider(f[k - 1], l[k], Score(l[k], surface, root, pulls))
    OBVIOUS
  <2>5. PICK g : g = [i \in 0..k |-> IF i = k THEN last ELSE f[i]]
    OBVIOUS
  <2>6. g = [i \in 0..k |-> g[i]]
    BY <2>5
  <2>7. ASSUME NEW i \in 0..k
        PROVE  g[i] = IF i = 0 THEN NoneYet
                      ELSE Consider(g[i - 1], l[i], Score(l[i], surface, root, pulls))
    <3>1. CASE i = k
      <4>1. g[i] = last /\ g[i - 1] = f[k - 1]
        BY <1>4, <1>6, <2>5, <3>1
      <4> QED
        BY <1>6, <2>4, <3>1, <4>1
    <3>2. CASE i # k
      <4>1. /\ i \in 0..(k - 1) /\ g[i] = f[i]
            /\ i # 0 => i - 1 \in 0..(k - 1) /\ g[i - 1] = f[i - 1]
        BY <1>4, <2>5, <3>2
      <4> QED
        BY <2>3, <4>1
    <3> QED
      BY <3>1, <3>2
  <2>8. IsLoop(g, k, l, surface, root, pulls)
    BY <2>6, <2>7, Zenon DEF IsLoop
  <2> QED
    BY <1>4, <2>8
<1> QED
  BY <1>5, <1>6

\* Each round considers the next candidate.
LEMMA Rounds ==
    ASSUME NEW l, Len(l) \in Nat, NEW surface, NEW root, NEW pulls,
           NEW b, b = BestAfter(l, surface, root, pulls)
    PROVE  /\ b[0] = NoneYet
           /\ \A i \in 1..Len(l) :
                b[i] = Consider(b[i - 1], l[i], Score(l[i], surface, root, pulls))
<1>1. \E f : IsLoop(f, Len(l), l, surface, root, pulls)
  BY LoopExists
<1>2. b = CHOOSE f : IsLoop(f, Len(l), l, surface, root, pulls)
  BY Zenon DEF BestAfter, IsLoop
<1>3. IsLoop(b, Len(l), l, surface, root, pulls)
  BY <1>1, <1>2
<1>4. \A i \in 0..Len(l) :
        b[i] = IF i = 0 THEN NoneYet
               ELSE Consider(b[i - 1], l[i], Score(l[i], surface, root, pulls))
  BY <1>3 DEF IsLoop
<1> QED
  BY <1>4

------------------------------------------------------------------------------
(* What the loop finds. *)

\* After i rounds: nothing before the first; then a candidate of the list that
\* none of those considered is stronger than, tied if another one is its equal.
Best(b, l, sc, i) ==
    IF i = 0 THEN b[0] = NoneYet
    ELSE \E j \in 1..i :
           /\ b[i].session = l[j] /\ b[i].score = sc[j] /\ "tied" \in DOMAIN b[i]
           /\ \A m \in 1..i : ~Weaker(sc[j], sc[m])
           /\ b[i].tied <=> \E m \in 1..i : m # j /\ sc[m] = sc[j]

LEMMA BestOfRounds ==
    ASSUME NEW n \in Nat, NEW l, \A i \in 1..n : l[i] # NoReview,
           NEW sc, \A i \in 1..n : sc[i] \in Scores,
           NEW b, b[0] = NoneYet, \A i \in 1..n : b[i] = Consider(b[i - 1], l[i], sc[i])
    PROVE  \A i \in 0..n : Best(b, l, sc, i)
<1>1. PICK K : K = {k \in 0..n : ~Best(b, l, sc, k)}
  OBVIOUS
<1>2. SUFFICES ASSUME K # {} PROVE FALSE
  BY <1>1
<1>10. K \subseteq Nat
  BY <1>1
<1>3. PICK k \in K : \A j \in K : k <= j
  BY <1>2, <1>10, FirstNatural
<1>4. k \in 0..n /\ ~Best(b, l, sc, k)
  BY <1>1
<1>5. k # 0
  BY <1>4 DEF Best
<1>6. k \in 1..n /\ k - 1 \in 0..n /\ k - 1 \notin K
  BY <1>3, <1>4, <1>5
<1>7. Best(b, l, sc, k - 1) /\ b[k] = Consider(b[k - 1], l[k], sc[k])
  BY <1>1, <1>6
<1>8. CASE k = 1
  <2>1. b[0] = NoneYet /\ b[1] = Consider(b[0], l[1], sc[1])
    BY <1>7, <1>8
  <2>2. b[1] = [session |-> l[1], score |-> sc[1], tied |-> FALSE]
    BY <2>1 DEF Consider, NoneYet
  <2>3. sc[1] \in Scores
    BY <1>6, <1>8
  <2>4. ~Weaker(sc[1], sc[1])
    BY <2>3, WeakerIsTotal
  <2>5. \A m \in 1..1 : m = 1
    OBVIOUS
  <2>6. Best(b, l, sc, 1)
    BY <2>2, <2>4, <2>5 DEF Best
  <2> QED
    BY <1>4, <1>8, <2>6
<1>9. CASE k # 1
  <2>1. k - 1 # 0 /\ k - 1 \in 1..n
    BY <1>6, <1>9
  <2>2. PICK j \in 1..(k - 1) :
          /\ b[k - 1].session = l[j] /\ b[k - 1].score = sc[j] /\ "tied" \in DOMAIN b[k - 1]
          /\ \A m \in 1..(k - 1) : ~Weaker(sc[j], sc[m])
          /\ b[k - 1].tied <=> \E m \in 1..(k - 1) : m # j /\ sc[m] = sc[j]
    BY <1>7, <2>1 DEF Best
  <2>3. /\ j \in 1..n /\ j \in 1..k /\ j # k /\ l[j] # NoReview
        /\ sc[j] \in Scores /\ sc[k] \in Scores
        /\ \A m \in 1..k : m = k \/ m \in 1..(k - 1)
        /\ \A m \in 1..(k - 1) : m \in 1..k /\ m # k /\ sc[m] \in Scores
    BY <1>6, <2>1
  <2>4. CASE Weaker(sc[j], sc[k])
    <3>1. b[k] = [session |-> l[k], score |-> sc[k], tied |-> FALSE]
      BY <1>7, <2>2, <2>4 DEF Consider
    <3>2. \A m \in 1..(k - 1) : Weaker(sc[m], sc[k])
      <4> SUFFICES ASSUME NEW m \in 1..(k - 1) PROVE Weaker(sc[m], sc[k])
        OBVIOUS
      <4>1. sc[m] \in Scores /\ ~Weaker(sc[j], sc[m])
        BY <2>2, <2>3
      <4>2. sc[m] = sc[j] \/ Weaker(sc[m], sc[j])
        BY <2>3, <4>1, WeakerIsTotal
      <4> QED
        BY <2>3, <2>4, <4>1, <4>2, WeakerIsTotal
    <3>3. \A m \in 1..k : ~Weaker(sc[k], sc[m])
      BY <2>3, <3>2, WeakerIsTotal
    <3>4. \A m \in 1..k : m # k => sc[m] # sc[k]
      BY <2>3, <3>2, WeakerIsTotal
    <3>5. k \in 1..k
      BY <1>6
    <3>6. Best(b, l, sc, k)
      BY <1>5, <3>1, <3>3, <3>4, <3>5 DEF Best
    <3> QED
      BY <1>4, <3>6
  <2>5. CASE ~Weaker(sc[j], sc[k])
    <3>1. PICK o : o = b[k - 1]
      OBVIOUS
    <3>2. b[k] = [o EXCEPT !.tied = o.tied \/ sc[j] = sc[k]]
      BY <1>7, <2>2, <2>3, <2>5, <3>1 DEF Consider
    <3>3. PICK flag \in BOOLEAN : flag <=> (o.tied \/ sc[j] = sc[k])
      OBVIOUS
    <3>4. b[k].session = l[j] /\ b[k].score = sc[j] /\ "tied" \in DOMAIN b[k]
      BY <2>2, <3>1, <3>2
    <3>5. b[k].tied <=> (\E m \in 1..(k - 1) : m # j /\ sc[m] = sc[j]) \/ sc[j] = sc[k]
      BY <2>2, <3>1, <3>2
    <3>6. b[k].tied <=> \E m \in 1..k : m # j /\ sc[m] = sc[j]
      BY <1>6, <2>3, <3>5
    <3>7. \A m \in 1..k : ~Weaker(sc[j], sc[m])
      BY <2>2, <2>3, <2>5
    <3>8. Best(b, l, sc, k)
      BY <1>5, <2>3, <3>4, <3>6, <3>7 DEF Best
    <3> QED
      BY <1>4, <3>8
  <2> QED
    BY <2>4, <2>5
<1> QED
  BY <1>8, <1>9

------------------------------------------------------------------------------
(* What holds of the rows and of what the processes found. *)

BindingRows == [session : Reviews, surface : Routes, root : Roots \cup {NoRoot}]
Entering == [session : Reviews \cup {NoReview}, by : Ways, changed : BOOLEAN,
             binding : 0..MaxBindings, surface : Routes, root : Roots \cup {NoRoot}]

\* The binding a process found is still there, and is what it would write.
StillBound(e) ==
    e.binding # 0 =>
        /\ e.binding \in DOMAIN bindings
        /\ bindings[e.binding].session = e.session
        /\ bindings[e.binding].surface = e.surface
        /\ bindings[e.binding].root = BoundRoot(e.surface, e.root)

\* Of a session one process found by its id, and no row of which changed since,
\* the bindings of the surface are the one that was found, if any, and it is of
\* the worktree the process runs in.
Unmixed(e) ==
    LET found == BindingsOf(e.session, e.surface)
    IN  IF e.binding = 0 THEN found = {}
        ELSE /\ e.binding \in DOMAIN bindings
             /\ found = {e.binding}
             /\ bindings[e.binding].root = BoundRoot(e.surface, e.root)

ReentryShape ==
    /\ ReentryTypeOK
    /\ IsFiniteSet(DOMAIN reviews)
    /\ reviews \in [DOMAIN reviews -> ReviewRows]
    /\ bindings \in Seq(BindingRows)
    /\ Len(bindings) <= MaxBindings

FoundAsIs(e) ==
    e # Idle => /\ e.session \in DOMAIN reviews
                /\ e.root \in Roots
                /\ StillBound(e)
                /\ e.by = "id" /\ ~e.changed => Unmixed(e)

FoundIsThere == \A p \in Reentrants : FoundAsIs(entering[p])

ReentryIInv == ReentryShape /\ FoundIsThere

------------------------------------------------------------------------------
(* Looking a session up. *)

\* What the bindings of a session on a surface resolve to.
LEMMA ResolutionOf ==
    ASSUME ReentryShape, NEW s, NEW surface, NEW root,
           NEW found, found = BindingsOf(s, surface),
           NEW r, r = BindingResolution(s, surface, root)
    PROVE  \/ found = {} /\ r = [kind |-> "not_found", binding |-> 0]
           \/ /\ found # {} /\ ~\E i : found = {i}
              /\ r = [kind |-> "ambiguous", binding |-> 0]
           \/ \E i \in DOMAIN bindings :
                /\ found = {i}
                /\ r = IF LocalRootStale(bindings[i], root) THEN [kind |-> "stale", binding |-> 0]
                       ELSE [kind |-> "resolved", binding |-> i]
<1>1. found \subseteq DOMAIN bindings /\ DOMAIN bindings = 1..Len(bindings) /\ Len(bindings) \in Nat
  BY DEF BindingsOf, ReentryShape
<1>2. IsFiniteSet(found)
  <2>1. IsFiniteSet(1..Len(bindings))
    BY <1>1, FS_Interval
  <2> QED
    BY <2>1, <1>1, FS_Subset
<1>3. Cardinality(found) \in Nat
  BY <1>2, FS_CardinalityType
<1>4. /\ Cardinality(found) = 0 <=> found = {}
      /\ Cardinality(found) = 1 <=> \E i : found = {i}
  BY <1>2, FS_EmptySet, FS_Singleton
<1>5. CASE found = {}
  BY <1>5 DEF BindingResolution
<1>6. CASE found # {} /\ ~\E i : found = {i}
  <2>1. Cardinality(found) > 1
    BY <1>3, <1>4, <1>6
  <2> QED
    BY <1>6, <2>1 DEF BindingResolution
<1>7. CASE \E i : found = {i}
  <2>1. PICK i : found = {i}
    BY <1>7
  <2>2. i \in DOMAIN bindings /\ Cardinality(found) = 1 /\ found # {}
    BY <1>1, <1>4, <2>1
  <2>3. (CHOOSE j \in found : TRUE) = i
    BY <2>1
  <2>4. ~(Cardinality(found) > 1)
    BY <2>2
  <2>5. r = IF LocalRootStale(bindings[i], root) THEN [kind |-> "stale", binding |-> 0]
            ELSE [kind |-> "resolved", binding |-> i]
    BY <2>2, <2>3, <2>4 DEF BindingResolution
  <2> QED
    BY <2>1, <2>2, <2>5
<1> QED
  BY <1>5, <1>6, <1>7

\* A session is enterable exactly when its binding ranks at all.
LEMMA RankOfEnterable ==
    ASSUME ReentryShape, NEW s, NEW surface, NEW root
    PROVE  /\ BindingRank(BindingResolution(s, surface, root)) \in 0..2
           /\ Enterable(BindingResolution(s, surface, root))
                <=> BindingRank(BindingResolution(s, surface, root)) # 0
<1>1. PICK r : r = BindingResolution(s, surface, root)
  OBVIOUS
<1>2. PICK found : found = BindingsOf(s, surface)
  OBVIOUS
<1>3. r.kind \in {"not_found", "ambiguous", "stale", "resolved"}
  BY <1>1, <1>2, ResolutionOf
<1> QED
  BY <1>1, <1>3 DEF BindingRank, Enterable

LEMMA ScoreType ==
    ASSUME ReentryShape, NEW s \in DOMAIN reviews, NEW surface, NEW root, NEW pulls
    PROVE  /\ Score(s, surface, root, pulls) \in Scores
           /\ Score(s, surface, root, pulls).binding
                = BindingRank(BindingResolution(s, surface, root))
<1>1. reviews[s].quality \in Nat /\ reviews[s].updated \in Nat
  BY DEF ReentryShape, ReviewRows
<1>2. PICK b \in 0..2 : b = BindingRank(BindingResolution(s, surface, root))
  BY RankOfEnterable
<1>3. b \in Nat
  OBVIOUS
<1>4. PICK p \in Nat : p = IF Cardinality(pulls) = 1 THEN 1 ELSE 0
  OBVIOUS
<1>5. PICK q \in Nat, u \in Nat : q = reviews[s].quality /\ u = reviews[s].updated
  BY <1>1
<1>6. Score(s, surface, root, pulls) = [pr |-> p, binding |-> b, quality |-> q, updated |-> u]
  BY <1>2, <1>4, <1>5 DEF Score
<1> QED
  BY <1>2, <1>3, <1>6 DEF Scores

LEMMA ListedAll ==
    ASSUME ReentryShape, NEW pulls, NEW l, l = Listed(pulls)
    PROVE  /\ l \in Seq(OfPulls(pulls)) /\ Len(l) = Cardinality(OfPulls(pulls)) /\ Len(l) \in Nat
           /\ \A i \in 1..Len(l) : l[i] \in OfPulls(pulls)
           /\ \A i, j \in 1..Len(l) : i # j => l[i] # l[j]
           /\ \A s \in OfPulls(pulls) : \E i \in 1..Len(l) : l[i] = s
<1>1. PICK S : S = OfPulls(pulls)
  OBVIOUS
<1>2. IsFiniteSet(S) /\ S \subseteq DOMAIN reviews
  BY <1>1, FS_Subset DEF OfPulls, ReentryShape
<1>3. PICK u : u = [s \in S |-> reviews[s].updated]
  OBVIOUS
<1>4. \A s \in S : u[s] \in Nat /\ u[s] = reviews[s].updated
  BY <1>2, <1>3 DEF ReentryShape, ReviewRows
<1>5. PICK m \in SetToSeqs(S) : Sorted(m, u)
  BY <1>2, <1>4, SortedListExists
<1>6. \A i \in DOMAIN m : m[i] \in S
  <2>1. DOMAIN m = 1..Len(m)
    BY <1>2, ListsAll
  <2> QED
    BY <1>2, <2>1, ListsAll
<1>7. \A i, j \in DOMAIN m : i < j => reviews[m[i]].updated >= reviews[m[j]].updated
  BY <1>4, <1>5, <1>6 DEF Sorted
<1>8. l \in SetToSeqs(S)
  BY <1>1, <1>5, <1>7 DEF Listed
<1>9. /\ l \in Seq(S) /\ Len(l) = Cardinality(S) /\ Len(l) \in Nat
      /\ \A i \in 1..Len(l) : l[i] \in S
      /\ \A i, j \in 1..Len(l) : i # j => l[i] # l[j]
      /\ \A s \in S : \E i \in 1..Len(l) : l[i] = s
  BY <1>2, <1>8, ListsAll, ZenonT(60)
<1> QED
  BY <1>1, <1>9

\* infer_strongest_reentry_selection picks the candidate that is stronger than
\* every other one, if it is bound to no other worktree, and otherwise none.
LEMMA PickIsRight ==
    ASSUME ReentryShape, NEW surface, NEW root, NEW pulls,
           Cardinality(OfPulls(pulls)) > 1
    PROVE  AutoSelected(surface, root, pulls) =
             {s \in OfPulls(pulls) :
                /\ Enterable(BindingResolution(s, surface, root))
                /\ \A t \in OfPulls(pulls) \ {s} :
                     Weaker(Score(t, surface, root, pulls), Score(s, surface, root, pulls))}
<1>1. PICK l : l = Listed(pulls)
  OBVIOUS
<1>2. PICK S : S = OfPulls(pulls)
  OBVIOUS
<1>3. /\ Len(l) = Cardinality(S) /\ Len(l) \in Nat
      /\ \A i \in 1..Len(l) : l[i] \in S
      /\ \A i, j \in 1..Len(l) : i # j => l[i] # l[j]
      /\ \A s \in S : \E i \in 1..Len(l) : l[i] = s
  BY <1>1, <1>2, ListedAll
<1>4. PICK n \in Nat : n = Len(l) /\ n > 1
  BY <1>2, <1>3
<1>5. \A s \in S : s \in DOMAIN reviews /\ s # NoReview
  BY <1>2, ReentryAssumption DEF OfPulls, ReentryShape, ReentryTypeOK
<1>6. PICK sc : sc = [i \in 1..n |-> Score(l[i], surface, root, pulls)]
  OBVIOUS
<1>7. \A i \in 1..n : /\ sc[i] = Score(l[i], surface, root, pulls) /\ sc[i] \in Scores
                      /\ sc[i].binding = BindingRank(BindingResolution(l[i], surface, root))
  BY <1>3, <1>4, <1>5, <1>6, ScoreType
<1>8. PICK b : b = BestAfter(l, surface, root, pulls)
  OBVIOUS
<1>9. b[0] = NoneYet /\ \A i \in 1..n : b[i] = Consider(b[i - 1], l[i], sc[i])
  BY <1>3, <1>4, <1>7, <1>8, Rounds
<1>10. \A i \in 1..n : l[i] # NoReview
  BY <1>3, <1>4, <1>5
<1>11. Best(b, l, sc, n)
  <2>1. \A i \in 0..n : Best(b, l, sc, i)
    BY <1>7, <1>9, <1>10, BestOfRounds
  <2> QED
    BY <2>1
<1>12. PICK j \in 1..n :
         /\ b[n].session = l[j] /\ b[n].score = sc[j]
         /\ \A m \in 1..n : ~Weaker(sc[j], sc[m])
         /\ b[n].tied <=> \E m \in 1..n : m # j /\ sc[m] = sc[j]
  BY <1>4, <1>11 DEF Best
<1>13. Strongest(surface, root, pulls) =
         IF b[n].tied \/ b[n].score.binding = 0 THEN NoReview ELSE b[n].session
  BY <1>1, <1>4, <1>8 DEF Strongest
<1>14. AutoSelected(surface, root, pulls) = {Strongest(surface, root, pulls)} \ {NoReview}
  BY <1>1, <1>4 DEF AutoSelected
<1>15. PICK W : W = {s \in S : /\ Enterable(BindingResolution(s, surface, root))
                               /\ \A t \in S \ {s} : Weaker(Score(t, surface, root, pulls),
                                                            Score(s, surface, root, pulls))}
  OBVIOUS
<1>16. \A s \in W : s = l[j]
  <2> SUFFICES ASSUME NEW s \in W, s # l[j] PROVE FALSE
    OBVIOUS
  <2>1. PICK i \in 1..n : s = l[i]
    BY <1>3, <1>4, <1>15
  <2>2. l[j] \in S \ {s}
    BY <1>3, <1>4
  <2>3. Weaker(sc[j], sc[i])
    BY <1>7, <1>15, <2>1, <2>2
  <2> QED
    BY <1>12, <2>3
<1>17. CASE b[n].tied \/ b[n].score.binding = 0
  <2>1. l[j] \notin W
    <3>1. CASE b[n].tied
      <4>1. PICK m \in 1..n : m # j /\ sc[m] = sc[j]
        BY <1>12, <3>1
      <4>2. ~Weaker(sc[m], sc[j])
        BY <1>7, <4>1, WeakerIsTotal
      <4>3. l[m] \in S \ {l[j]}
        BY <1>3, <1>4, <4>1
      <4> QED
        BY <1>7, <1>15, <4>2, <4>3
    <3>2. CASE b[n].score.binding = 0
      BY <1>7, <1>12, <1>15, <3>2, RankOfEnterable
    <3> QED
      BY <1>17, <3>1, <3>2
  <2>2. W = {}
    BY <1>16, <2>1
  <2> QED
    BY <1>2, <1>13, <1>14, <1>15, <1>17, <2>2
<1>18. CASE ~(b[n].tied \/ b[n].score.binding = 0)
  <2>1. Strongest(surface, root, pulls) = l[j]
    BY <1>12, <1>13, <1>18
  <2>2. Enterable(BindingResolution(l[j], surface, root))
    BY <1>7, <1>12, <1>18, RankOfEnterable
  <2>3. ASSUME NEW t \in S \ {l[j]}
        PROVE  Weaker(Score(t, surface, root, pulls), Score(l[j], surface, root, pulls))
    <3>1. PICK m \in 1..n : t = l[m] /\ m # j
      BY <1>3, <1>4, <2>3
    <3>2. ~Weaker(sc[j], sc[m]) /\ sc[m] # sc[j]
      BY <1>12, <1>18, <3>1
    <3>3. Weaker(sc[m], sc[j])
      BY <1>7, <3>1, <3>2, WeakerIsTotal
    <3> QED
      BY <1>7, <3>1, <3>3
  <2>4. l[j] \in W
    BY <1>3, <1>4, <1>15, <2>2, <2>3
  <2>5. W = {l[j]}
    BY <1>16, <2>4
  <2>6. AutoSelected(surface, root, pulls) = {l[j]}
    BY <1>10, <1>14, <2>1
  <2> QED
    BY <1>2, <1>15, <2>5, <2>6
<1> QED
  BY <1>17, <1>18

------------------------------------------------------------------------------
(* The steps that look a session up. *)

\* A session that can be entered, and the binding it was found with.
LEMMA EnterableIsUnmixed ==
    ASSUME ReentryShape, NEW s, NEW surface \in Routes, NEW root \in Roots,
           Enterable(BindingResolution(s, surface, root)),
           NEW by \in Ways,
           NEW e, e = [session |-> s, by |-> by,
                       binding |-> BindingResolution(s, surface, root).binding,
                       changed |-> FALSE, surface |-> surface, root |-> root]
    PROVE  Unmixed(e) /\ StillBound(e) /\ e.binding \in 0..Len(bindings)
<1>1. PICK found : found = BindingsOf(s, surface)
  OBVIOUS
<1>2. PICK r : r = BindingResolution(s, surface, root)
  OBVIOUS
<1>3. e.session = s /\ e.surface = surface /\ e.root = root /\ e.binding = r.binding
  BY <1>2
<1>4. Len(bindings) \in Nat /\ DOMAIN bindings = 1..Len(bindings)
  BY DEF ReentryShape
<1>5. r.kind \in {"resolved", "not_found"}
  BY <1>2 DEF Enterable
<1>6. CASE found = {} /\ r = [kind |-> "not_found", binding |-> 0]
  <2>1. BindingsOf(e.session, e.surface) = {}
    BY <1>1, <1>3, <1>6
  <2>2. r.binding = 0
    BY <1>6
  <2>3. e.binding = 0 /\ 0 \in 0..Len(bindings)
    BY <1>3, <1>4, <2>2
  <2> QED
    BY <2>1, <2>3 DEF Unmixed, StillBound
<1>7. CASE \E i \in DOMAIN bindings :
             /\ found = {i}
             /\ r = IF LocalRootStale(bindings[i], root) THEN [kind |-> "stale", binding |-> 0]
                    ELSE [kind |-> "resolved", binding |-> i]
  <2>1. PICK i \in DOMAIN bindings :
          /\ found = {i}
          /\ r = IF LocalRootStale(bindings[i], root) THEN [kind |-> "stale", binding |-> 0]
                 ELSE [kind |-> "resolved", binding |-> i]
    BY <1>7
  <2>2. ~LocalRootStale(bindings[i], root) /\ r.binding = i
    BY <1>5, <2>1
  <2>3. i # 0 /\ i \in 0..Len(bindings)
    BY <1>4
  <2>4. bindings[i].surface = surface /\ bindings[i].session = s
    BY <1>1, <2>1 DEF BindingsOf
  <2>5. bindings[i].surface = "bridge" => bindings[i].root = NoRoot
    BY DEF ReentryShape, ReentryTypeOK
  <2>6. bindings[i].root = BoundRoot(surface, root)
    BY <2>2, <2>4, <2>5 DEF LocalRootStale, BoundRoot
  <2>7. Unmixed(e)
    BY <1>1, <1>3, <2>1, <2>2, <2>3, <2>6 DEF Unmixed
  <2>8. StillBound(e)
    BY <1>3, <2>1, <2>2, <2>4, <2>6 DEF StillBound
  <2> QED
    BY <1>3, <2>2, <2>3, <2>7, <2>8
<1>8. \/ found = {} /\ r = [kind |-> "not_found", binding |-> 0]
      \/ r = [kind |-> "ambiguous", binding |-> 0]
      \/ \E i \in DOMAIN bindings :
           /\ found = {i}
           /\ r = IF LocalRootStale(bindings[i], root) THEN [kind |-> "stale", binding |-> 0]
                  ELSE [kind |-> "resolved", binding |-> i]
  <2>1. ReentryShape
    OBVIOUS
  <2> QED
    BY <1>1, <1>2, <2>1, ResolutionOf
<1>9. r # [kind |-> "ambiguous", binding |-> 0]
  BY <1>5
<1> QED
  BY <1>6, <1>7, <1>8, <1>9

\* What a process found is there, whichever way it looked.
LEMMA TakesStep ==
    ASSUME ReentryIInv, NEW p \in Reentrants, NEW s \in DOMAIN reviews,
           NEW by \in Ways, NEW binding,
           NEW surface \in Routes, NEW root \in Roots,
           by = "repository" => binding = 0,
           by # "repository" => /\ Enterable(BindingResolution(s, surface, root))
                                /\ binding = BindingResolution(s, surface, root).binding,
           Takes(p, s, by, binding, surface, root)
    PROVE  ReentryIInv'
<1>1. PICK e : e = [session |-> s, by |-> by, binding |-> binding, changed |-> FALSE,
                    surface |-> surface, root |-> root]
  OBVIOUS
<1>2. entering' = [entering EXCEPT ![p] = e] /\ UNCHANGED <<reviews, bindings, entries, now>>
  BY <1>1 DEF Takes
<1>3. /\ entering \in [Reentrants -> Entering] /\ Len(bindings) \in Nat
      /\ Len(bindings) <= MaxBindings /\ MaxBindings \in Nat /\ s \in Reviews
  BY ReentryAssumption DEF ReentryIInv, ReentryShape, ReentryTypeOK, Entering
<1>4. by # "repository" => Unmixed(e) /\ StillBound(e) /\ e.binding \in 0..Len(bindings)
  BY <1>1, EnterableIsUnmixed DEF ReentryIInv
<1>5. e.binding \in 0..MaxBindings
  BY <1>1, <1>3, <1>4
<1>13. StillBound(e)
  BY <1>1, <1>4 DEF StillBound
<1>6. e \in Entering
  BY <1>1, <1>3, <1>5 DEF Entering
<1>7. entering' \in [Reentrants -> Entering]
  BY <1>2, <1>3, <1>6
<1>8. ReentryShape'
  BY <1>2, <1>7 DEF ReentryIInv, ReentryShape, ReentryTypeOK, Entering
<1>9. \A f : Unmixed(f)' = Unmixed(f) /\ StillBound(f)' = StillBound(f)
  BY <1>2 DEF Unmixed, StillBound, BindingsOf
<1>10. e.session \in DOMAIN reviews /\ e.root \in Roots /\ e.by = by /\ e.binding = binding
  BY <1>1
<1>11. ASSUME NEW q \in Reentrants
       PROVE  FoundAsIs(entering[q])'
  <2>1. PICK f : f = entering'[q]
    OBVIOUS
  <2>2. FoundAsIs(f)'
    <3>1. CASE q = p
      <4>1. f = e
        BY <1>2, <1>3, <2>1, <3>1
      <4>2. e.by = "id" => Unmixed(e)'
        BY <1>4, <1>9, <1>10
      <4> QED
        BY <1>2, <1>9, <1>10, <1>13, <4>1, <4>2 DEF FoundAsIs
    <3>2. CASE q # p
      <4>1. f = entering[q]
        BY <1>2, <1>3, <2>1, <3>2
      <4>2. FoundAsIs(f)
        BY <4>1 DEF ReentryIInv, FoundIsThere
      <4> QED
        BY <1>2, <1>9, <4>2 DEF FoundAsIs
    <3> QED
      BY <3>1, <3>2
  <2> QED
    BY <2>1, <2>2 DEF FoundAsIs, Unmixed, StillBound, BindingsOf
<1>12. FoundIsThere'
  BY <1>11 DEF FoundIsThere
<1> QED
  BY <1>8, <1>12 DEF ReentryIInv

LEMMA EnterByIdStep ==
    ASSUME ReentryIInv, NEW p \in Reentrants, NEW s \in Reviews, NEW surface \in Routes,
           NEW root \in Roots, EnterById(p, s, surface, root)
    PROVE  ReentryIInv'
<1>1. s \in DOMAIN reviews /\ Enterable(BindingResolution(s, surface, root))
  BY DEF EnterById, ById
<1> QED
  BY <1>1, TakesStep DEF EnterById, Ways

LEMMA EnterByPullStep ==
    ASSUME ReentryIInv, NEW p \in Reentrants, NEW n \in Pulls, NEW surface \in Routes,
           NEW root \in Roots, EnterByPull(p, n, surface, root)
    PROVE  ReentryIInv'
<1>1. PICK s \in ByPull(n, surface, root) :
        Takes(p, s, "id", BindingResolution(s, surface, root).binding, surface, root)
  BY DEF EnterByPull
<1>2. s \in DOMAIN reviews /\ Enterable(BindingResolution(s, surface, root))
  BY DEF ByPull, OfPull
<1> QED
  BY <1>1, <1>2, TakesStep DEF Ways

LEMMA EnterByRepositoryStep ==
    ASSUME ReentryIInv, NEW p \in Reentrants, NEW surface \in Routes,
           NEW root \in Roots, EnterByRepository(p, surface, root)
    PROVE  ReentryIInv'
<1>1. PICK s \in ByRepository : Takes(p, s, "repository", 0, surface, root)
  BY DEF EnterByRepository
<1>2. s \in DOMAIN reviews
  BY DEF ByRepository
<1> QED
  BY <1>1, <1>2, TakesStep DEF Ways

LEMMA EnterStrongestStep ==
    ASSUME ReentryIInv, NEW p \in Reentrants, NEW pulls, NEW surface \in Routes,
           NEW root \in Roots, EnterStrongest(p, surface, root, pulls)
    PROVE  ReentryIInv'
<1>1. PICK s \in AutoSelected(surface, root, pulls) :
        Takes(p, s, "inferring", BindingResolution(s, surface, root).binding, surface, root)
  BY DEF EnterStrongest
<1>2. Cardinality(OfPulls(pulls)) > 1
  <2>1. PICK l : l = Listed(pulls)
    OBVIOUS
  <2>2. Len(l) = Cardinality(OfPulls(pulls)) /\ Len(l) \in Nat
    BY <2>1, ListedAll DEF ReentryIInv
  <2>3. ~(Len(l) < 2)
    BY <1>1, <2>1 DEF AutoSelected
  <2> QED
    BY <2>2, <2>3
<1>3. s \in OfPulls(pulls) /\ Enterable(BindingResolution(s, surface, root))
  BY <1>1, <1>2, PickIsRight DEF ReentryIInv
<1>4. s \in DOMAIN reviews
  BY <1>3 DEF OfPulls
<1> QED
  BY <1>1, <1>3, <1>4, TakesStep DEF Ways

\* The second read of the row: of the bindings it says nothing.
LEMMA LoadInferredStep ==
    ASSUME ReentryIInv, NEW p \in Reentrants, LoadInferred(p)
    PROVE  ReentryIInv'
<1>1. PICK g : g = entering[p]
  OBVIOUS
<1>2. PICK e : e = [g EXCEPT !.by = "strength"]
  OBVIOUS
<1>3. /\ entering \in [Reentrants -> Entering] /\ g \in Entering /\ FoundAsIs(g)
  BY <1>1 DEF ReentryIInv, FoundIsThere, ReentryShape, ReentryTypeOK, Entering
<1>4. /\ g.by = "inferring" /\ entering' = [entering EXCEPT ![p] = e]
      /\ UNCHANGED <<reviews, bindings, entries, now>>
  BY <1>1, <1>2, <1>3 DEF LoadInferred
<1>5. /\ e \in Entering /\ e.by = "strength" /\ e.session = g.session /\ e.root = g.root
      /\ e.binding = g.binding /\ e.surface = g.surface
  BY <1>2, <1>3 DEF Entering, Ways
<1>6. g # Idle
  BY <1>4 DEF Idle
<1>7. FoundAsIs(e)
  BY <1>3, <1>5, <1>6 DEF FoundAsIs, StillBound
<1>8. entering' \in [Reentrants -> Entering]
  BY <1>3, <1>4, <1>5
<1>9. ReentryShape'
  BY <1>4, <1>8 DEF ReentryIInv, ReentryShape, ReentryTypeOK, Entering
<1>10. \A f : FoundAsIs(f)' = FoundAsIs(f)
  BY <1>4 DEF FoundAsIs, Unmixed, StillBound, BindingsOf
<1>11. ASSUME NEW q \in Reentrants
       PROVE  FoundAsIs(entering[q])'
  <2>1. PICK f : f = entering'[q]
    OBVIOUS
  <2>2. f = e \/ f = entering[q]
    BY <1>3, <1>4, <2>1
  <2>3. FoundAsIs(f)
    BY <1>7, <2>2 DEF ReentryIInv, FoundIsThere
  <2> QED
    BY <1>10, <2>1, <2>3 DEF FoundAsIs, Unmixed, StillBound, BindingsOf
<1> QED
  BY <1>9, <1>11 DEF ReentryIInv, FoundIsThere

------------------------------------------------------------------------------
(* The steps that commit. *)

\* The store after a step that may append a binding of a session in it.
LEMMA ShapeAfter ==
    ASSUME ReentryShape,
           NEW b, b \in [session : DOMAIN reviews', surface : Routes, root : Roots \cup {NoRoot}],
           b.surface = "bridge" <=> b.root = NoRoot,
           \/ bindings' = bindings
           \/ bindings' = Append(bindings, b) /\ Len(bindings) < MaxBindings,
           DOMAIN reviews \subseteq DOMAIN reviews', DOMAIN reviews' \subseteq Reviews,
           reviews' \in [DOMAIN reviews' -> ReviewRows], IsFiniteSet(DOMAIN reviews'),
           entering' \in [Reentrants -> Entering],
           entries' \in 0..MaxEntries, now' \in 0..MaxNow
    PROVE  ReentryShape'
<1>1. b \in BindingRows
  BY DEF BindingRows
<1>2. /\ bindings \in Seq(BindingRows) /\ Len(bindings) \in Nat /\ Len(bindings) <= MaxBindings
      /\ MaxBindings \in Nat /\ DOMAIN bindings = 1..Len(bindings)
  BY ReentryAssumption DEF ReentryShape
<1>3. bindings' \in Seq(BindingRows) /\ Len(bindings') <= MaxBindings
  BY <1>1, <1>2, SMTT(30)
<1>4. \A i \in DOMAIN bindings' : bindings'[i] = b \/ (i \in DOMAIN bindings /\ bindings'[i] = bindings[i])
  BY <1>1, <1>2
<1>5. \A i \in DOMAIN bindings :
        /\ bindings[i] \in [session : DOMAIN reviews, surface : Routes, root : Roots \cup {NoRoot}]
        /\ (bindings[i].surface = "bridge") <=> (bindings[i].root = NoRoot)
  BY DEF ReentryShape, ReentryTypeOK
<1>6. \A i \in DOMAIN bindings' :
        /\ bindings'[i] \in [session : DOMAIN reviews', surface : Routes, root : Roots \cup {NoRoot}]
        /\ (bindings'[i].surface = "bridge") <=> (bindings'[i].root = NoRoot)
  BY <1>4, <1>5
<1>7. \A s \in DOMAIN reviews' : reviews'[s] \in ReviewRows
  OBVIOUS
<1>8. ReentryTypeOK'
  BY <1>6, <1>7 DEF ReentryTypeOK, Entering
<1> QED
  BY <1>3, <1>8 DEF ReentryShape

\* A binding of another session does not touch what a process found.
LEMMA UnmixedKept ==
    ASSUME ReentryShape, NEW b, bindings' = bindings \/ bindings' = Append(bindings, b),
           NEW f, f.session # b.session, Unmixed(f)
    PROVE  Unmixed(f)'
<1>1. /\ bindings \in Seq(BindingRows) /\ Len(bindings) \in Nat
      /\ DOMAIN bindings = 1..Len(bindings)
  BY DEF ReentryShape
<1>2. CASE bindings' = bindings
  BY <1>2 DEF Unmixed, BindingsOf
<1>3. CASE bindings' = Append(bindings, b)
  <2>1. /\ DOMAIN bindings' = 1..(Len(bindings) + 1)
        /\ bindings'[Len(bindings) + 1] = b
        /\ \A i \in DOMAIN bindings : bindings'[i] = bindings[i] /\ i \in DOMAIN bindings'
        /\ \A i \in DOMAIN bindings' : i \in DOMAIN bindings \/ i = Len(bindings) + 1
    BY <1>1, <1>3
  <2>2. \A x : BindingsOf(f.session, x)' = BindingsOf(f.session, x)
    BY <2>1 DEF BindingsOf
  <2> QED
    BY <2>1, <2>2 DEF Unmixed
<1> QED
  BY <1>2, <1>3

\* Nor does any binding that is added.
LEMMA StillBoundKept ==
    ASSUME ReentryShape, NEW b, bindings' = bindings \/ bindings' = Append(bindings, b),
           NEW f, StillBound(f)
    PROVE  StillBound(f)'
<1>1. bindings \in Seq(BindingRows) /\ Len(bindings) \in Nat /\ DOMAIN bindings = 1..Len(bindings)
  BY DEF ReentryShape
<1>2. \A i \in DOMAIN bindings : i \in DOMAIN bindings' /\ bindings'[i] = bindings[i]
  BY <1>1
<1> QED
  BY <1>2 DEF StillBound

LEMMA IdleType == Idle \in Entering
BY ReentryAssumption DEF Idle, Entering, Routes, Ways

\* What the other processes found, after one session's row changed.
LEMMA ChangesStep ==
    ASSUME ReentryIInv, NEW s \in DOMAIN reviews, NEW x, entering' = Changes(s, x),
           NEW b, b.session = s, bindings' = bindings \/ bindings' = Append(bindings, b),
           DOMAIN reviews' = DOMAIN reviews
    PROVE  /\ entering' \in [Reentrants -> Entering]
           /\ FoundIsThere'
           /\ \A p \in Reentrants : p # x /\ entering[p] # Idle => entering'[p] # Idle
<1>1. entering \in [Reentrants -> Entering] /\ s # NoReview
  BY ReentryAssumption DEF ReentryIInv, ReentryShape, ReentryTypeOK, Entering
<1>2. ASSUME NEW p \in Reentrants, NEW g, g = entering[p], NEW f, f = entering'[p]
      PROVE  /\ f \in Entering /\ FoundAsIs(f)'
             /\ p # x /\ g # Idle => f # Idle
  <2>1. g \in Entering /\ FoundAsIs(g)
    BY <1>1, <1>2 DEF ReentryIInv, FoundIsThere
  <2>2. f = IF p = x THEN Idle
            ELSE IF g.session = s /\ g.by # "inferring" THEN [g EXCEPT !.changed = TRUE] ELSE g
    BY <1>2 DEF Changes
  <2>3. CASE p = x
    BY <2>2, <2>3, IdleType DEF FoundAsIs
  <2>4. CASE p # x /\ g.session = s /\ g.by # "inferring"
    <3>1. g # Idle
      BY <1>1, <2>4 DEF Idle
    <3>2. /\ f \in Entering /\ f.changed = TRUE /\ f.session = g.session /\ f.root = g.root
          /\ f.by = g.by /\ f.binding = g.binding /\ f.surface = g.surface
      BY <2>1, <2>2, <2>4 DEF Entering
    <3>4. StillBound(g) /\ (StillBound(f) <=> StillBound(g))
      BY <2>1, <3>1, <3>2 DEF FoundAsIs, StillBound
    <3>5. StillBound(f)'
      BY <3>4, StillBoundKept DEF ReentryIInv
    <3>3. f # Idle
      BY <3>2 DEF Idle
    <3> QED
      BY <2>1, <3>1, <3>2, <3>3, <3>5 DEF FoundAsIs
  <2>6. CASE p # x /\ g.by = "inferring"
    <3>1. f = g /\ f.by # "id"
      BY <2>2, <2>6
    <3>2. StillBound(f) => StillBound(f)'
      BY <1>2, StillBoundKept DEF ReentryIInv
    <3> QED
      BY <2>1, <3>1, <3>2 DEF FoundAsIs
  <2>5. CASE p # x /\ g.session # s
    <3>1. f = g /\ f.session # b.session
      BY <2>2, <2>5
    <3>2. /\ Unmixed(f) => Unmixed(f)'
          /\ StillBound(f) => StillBound(f)'
      BY <3>1, UnmixedKept, StillBoundKept DEF ReentryIInv
    <3> QED
      BY <2>1, <3>1, <3>2 DEF FoundAsIs
  <2> QED
    BY <2>3, <2>4, <2>5, <2>6
<1>3. entering' \in [Reentrants -> Entering]
  <2>1. entering' = [p \in Reentrants |-> entering'[p]]
    BY DEF Changes
  <2> QED
    BY <1>2, <2>1
<1>4. ASSUME NEW p \in Reentrants
      PROVE  FoundAsIs(entering[p])'
  <2>1. PICK f : f = entering'[p]
    OBVIOUS
  <2>2. FoundAsIs(f)'
    BY <1>2, <2>1
  <2> QED
    BY <2>1, <2>2 DEF FoundAsIs, Unmixed, StillBound, BindingsOf
<1> QED
  BY <1>2, <1>3, <1>4 DEF FoundIsThere

\* What an upsert puts: the binding a process found is as it would write it, so
\* the store is as it was, or has one binding more.
LEMMA PutBindingAgrees ==
    ASSUME ReentryIInv, NEW p \in Reentrants, NEW e, e = entering[p], e # Idle, ~e.changed
    PROVE  /\ PutBinding(e) = IF e.binding = 0 THEN Append(bindings, Binding(e)) ELSE bindings
           /\ Binding(e) \in [session : DOMAIN reviews, surface : Routes,
                              root : Roots \cup {NoRoot}]
           /\ Binding(e).session = e.session
           /\ Binding(e).surface = "bridge" <=> Binding(e).root = NoRoot
<1>1. FoundAsIs(e) /\ e \in Entering
  BY DEF ReentryIInv, FoundIsThere, ReentryShape, ReentryTypeOK, Entering
<1>2. e.session \in DOMAIN reviews /\ e.root \in Roots /\ e.surface \in Routes
  BY <1>1 DEF FoundAsIs, Entering
<1>3. PICK r : r = BoundRoot(e.surface, e.root)
  OBVIOUS
<1>4. r \in Roots \cup {NoRoot} /\ (e.surface = "bridge" <=> r = NoRoot)
  BY <1>2, <1>3, ReentryAssumption DEF BoundRoot
<1>5. Binding(e) = [session |-> e.session, surface |-> e.surface, root |-> r]
  BY <1>3 DEF Binding
<1>6. CASE e.binding = 0
  BY <1>2, <1>4, <1>5, <1>6 DEF PutBinding
<1>7. CASE e.binding # 0
  <2>2. StillBound(e)
    BY <1>1 DEF FoundAsIs
  <2>3. PICK i : i = e.binding /\ i \in DOMAIN bindings
    BY <1>7, <2>2 DEF StillBound
  <2>4. bindings[i].root = r
    BY <1>3, <1>7, <2>2, <2>3 DEF StillBound
  <2>5. bindings[i].surface = e.surface
    BY <1>7, <2>2, <2>3 DEF StillBound
  <2>6. bindings \in Seq(BindingRows) /\ bindings[i] \in BindingRows
    BY <2>3 DEF ReentryIInv, ReentryShape
  <2>7. PutBinding(e) = [bindings EXCEPT ![i].root = r, ![i].surface = e.surface]
    BY <1>5, <1>7, <2>3 DEF PutBinding
  <2>8. PICK row : row = bindings[i] /\ row.root = r /\ row.surface = e.surface /\ row \in BindingRows
    BY <2>4, <2>5, <2>6
  <2>9. [row EXCEPT !.root = r, !.surface = e.surface] = row
    BY <2>8 DEF BindingRows
  <2>10. PutBinding(e) = [bindings EXCEPT ![i] = [row EXCEPT !.root = r, !.surface = e.surface]]
    BY <2>3, <2>6, <2>7, <2>8
  <2>11. PutBinding(e) = bindings
    BY <2>3, <2>6, <2>8, <2>9, <2>10
  <2> QED
    BY <1>2, <1>4, <1>5, <1>7, <2>11
<1> QED
  BY <1>6, <1>7

LEMMA CommitStep ==
    ASSUME ReentryIInv, NEW p \in Reentrants, NEW quality \in {1, 2}, Commit(p, quality)
    PROVE  ReentryIInv'
<1>1. PICK e : e = entering[p]
  OBVIOUS
<1>2. /\ e # Idle /\ e.by # "inferring" /\ ~e.changed /\ entries < MaxEntries
      /\ e.binding = 0 => Len(bindings) < MaxBindings
      /\ reviews' = [reviews EXCEPT ![e.session].updated = now,
                                    ![e.session].quality = quality, ![e.session].failed = FALSE]
      /\ bindings' = PutBinding(e)
      /\ entering' = Changes(e.session, p)
      /\ entries' = entries + 1 /\ now' = now
  BY <1>1 DEF Commit, RowChanged
<1>3. PICK s \in DOMAIN reviews : s = e.session
  BY <1>1, <1>2 DEF ReentryIInv, FoundIsThere, FoundAsIs
<1>4. /\ reviews \in [DOMAIN reviews -> ReviewRows] /\ reviews[s] \in ReviewRows
      /\ now \in 0..MaxNow /\ now \in Nat /\ entries \in 0..MaxEntries
      /\ DOMAIN reviews \subseteq Reviews /\ IsFiniteSet(DOMAIN reviews)
  BY ReentryAssumption DEF ReentryIInv, ReentryShape, ReentryTypeOK
<1>5. PICK row : row = [reviews[s] EXCEPT !.updated = now, !.quality = quality, !.failed = FALSE]
  OBVIOUS
<1>6. row \in ReviewRows
  BY <1>4, <1>5 DEF ReviewRows
<1>7. reviews' = [reviews EXCEPT ![s] = row]
  BY <1>2, <1>3, <1>4, <1>5
<1>8. DOMAIN reviews' = DOMAIN reviews /\ reviews' \in [DOMAIN reviews' -> ReviewRows]
  BY <1>4, <1>6, <1>7
<1>9. PICK b : b = Binding(e)
  OBVIOUS
<1>10. /\ bindings' = IF e.binding = 0 THEN Append(bindings, b) ELSE bindings
       /\ b \in [session : DOMAIN reviews, surface : Routes, root : Roots \cup {NoRoot}]
       /\ b.session = s
       /\ b.surface = "bridge" <=> b.root = NoRoot
  BY <1>1, <1>2, <1>3, <1>9, PutBindingAgrees
<1>11. /\ entering' \in [Reentrants -> Entering]
       /\ FoundIsThere'
  BY <1>2, <1>3, <1>8, <1>10, ChangesStep
<1>12. entries' \in 0..MaxEntries /\ now' \in 0..MaxNow
  BY <1>2, <1>4, ReentryAssumption
<1>13. \/ bindings' = bindings
       \/ bindings' = Append(bindings, b) /\ Len(bindings) < MaxBindings
  BY <1>2, <1>10
<1>14. ReentryShape'
  BY <1>4, <1>8, <1>10, <1>11, <1>12, <1>13, ShapeAfter DEF ReentryIInv
<1> QED
  BY <1>11, <1>14 DEF ReentryIInv

LEMMA TouchedStep ==
    ASSUME ReentryIInv, NEW s \in DOMAIN reviews, Touched(s)
    PROVE  ReentryIInv'
<1>1. /\ reviews \in [DOMAIN reviews -> ReviewRows] /\ reviews[s] \in ReviewRows
      /\ now \in Nat /\ now \in 0..MaxNow /\ entries \in 0..MaxEntries
      /\ DOMAIN reviews \subseteq Reviews /\ IsFiniteSet(DOMAIN reviews)
  BY ReentryAssumption DEF ReentryIInv, ReentryShape, ReentryTypeOK
<1>2. PICK row : row = [reviews[s] EXCEPT !.updated = now]
  OBVIOUS
<1>3. row \in ReviewRows
  BY <1>1, <1>2 DEF ReviewRows
<1>4. reviews' = [reviews EXCEPT ![s] = row]
  BY <1>1, <1>2 DEF Touched
<1>5. DOMAIN reviews' = DOMAIN reviews /\ reviews' \in [DOMAIN reviews' -> ReviewRows]
  BY <1>1, <1>3, <1>4
<1>6. PICK b : b = [session |-> s, surface |-> "bridge", root |-> NoRoot]
  OBVIOUS
<1>7. /\ b \in [session : DOMAIN reviews, surface : Routes, root : Roots \cup {NoRoot}]
      /\ b.session = s
      /\ b.surface = "bridge" <=> b.root = NoRoot
  BY <1>6 DEF Routes
<1>8. entering' = Changes(s, NoReview) /\ bindings' = bindings
  BY DEF Touched
<1>9. entering' \in [Reentrants -> Entering] /\ FoundIsThere'
  BY <1>5, <1>7, <1>8, ChangesStep
<1>10. entries' \in 0..MaxEntries /\ now' \in 0..MaxNow
  BY <1>1, ReentryAssumption DEF Touched
<1>11. ReentryShape'
  BY <1>1, <1>5, <1>7, <1>8, <1>9, <1>10, ShapeAfter DEF ReentryIInv
<1> QED
  BY <1>9, <1>11 DEF ReentryIInv

\* A process that ends without a commit leaves what the others found.
LEMMA EndsStep ==
    ASSUME ReentryIInv, NEW p \in Reentrants, entering' = [entering EXCEPT ![p] = Idle],
           UNCHANGED <<reviews, bindings, entries, now>>
    PROVE  ReentryIInv'
<1>1. entering \in [Reentrants -> Entering]
  BY DEF ReentryIInv, ReentryShape, ReentryTypeOK, Entering
<1>2. entering' \in [Reentrants -> Entering]
  BY <1>1, IdleType
<1>3. ReentryShape'
  BY <1>2 DEF ReentryIInv, ReentryShape, ReentryTypeOK, Entering
<1>4. \A f : FoundAsIs(f)' = FoundAsIs(f)
  BY DEF FoundAsIs, Unmixed, StillBound, BindingsOf
<1>5. ASSUME NEW q \in Reentrants
      PROVE  FoundAsIs(entering[q])'
  <2>1. PICK f : f = entering'[q]
    OBVIOUS
  <2>2. f = Idle \/ f = entering[q]
    BY <1>1, <2>1
  <2>3. FoundAsIs(f)
    BY <2>2 DEF ReentryIInv, FoundIsThere, FoundAsIs
  <2> QED
    BY <1>4, <2>1, <2>3 DEF FoundAsIs, Unmixed, StillBound, BindingsOf
<1> QED
  BY <1>3, <1>5 DEF ReentryIInv, FoundIsThere

LEMMA StartReviewStep ==
    ASSUME ReentryIInv, NEW s \in Reviews, NEW n \in Pulls, NEW surface \in Routes,
           NEW root \in Roots, NEW quality \in {1, 2}, NEW fresh \in BOOLEAN,
           NEW failed \in BOOLEAN,
           StartReview(s, n, surface, root, quality, fresh, failed)
    PROVE  ReentryIInv'
<1>1. /\ reviews \in [DOMAIN reviews -> ReviewRows]
      /\ now \in Nat /\ now \in 0..MaxNow /\ entries \in 0..MaxEntries
      /\ DOMAIN reviews \subseteq Reviews /\ IsFiniteSet(DOMAIN reviews)
      /\ entering \in [Reentrants -> Entering]
  BY ReentryAssumption DEF ReentryIInv, ReentryShape, ReentryTypeOK, Entering
<1>2. PICK row : row = [pull |-> n, quality |-> quality, updated |-> now, failed |-> failed]
  OBVIOUS
<1>3. row \in ReviewRows
  BY <1>1, <1>2 DEF ReviewRows
<1>4. reviews' = [t \in DOMAIN reviews \cup {s} |-> IF t = s THEN row ELSE reviews[t]]
  BY <1>2 DEF StartReview
<1>5. /\ DOMAIN reviews' = DOMAIN reviews \cup {s}
      /\ reviews' \in [DOMAIN reviews' -> ReviewRows]
  BY <1>1, <1>3, <1>4
<1>6. IsFiniteSet(DOMAIN reviews')
  BY <1>1, <1>5, FS_AddElement
<1>7. PICK r : r = BoundRoot(surface, root)
  OBVIOUS
<1>8. r \in Roots \cup {NoRoot} /\ (surface = "bridge" <=> r = NoRoot)
  BY <1>7, ReentryAssumption DEF BoundRoot
<1>9. PICK b : b = [session |-> s, surface |-> surface, root |-> r]
  OBVIOUS
<1>10. /\ b \in [session : DOMAIN reviews', surface : Routes, root : Roots \cup {NoRoot}]
       /\ b.session = s
       /\ b.surface = "bridge" <=> b.root = NoRoot
  BY <1>5, <1>8, <1>9
<1>11. \/ bindings' = bindings
       \/ bindings' = Append(bindings, b) /\ Len(bindings) < MaxBindings
  BY <1>7, <1>9 DEF StartReview
<1>12. entering' = entering /\ entries' = entries /\ now' = now /\ s \notin DOMAIN reviews
  BY DEF StartReview
<1>13. ReentryShape'
  BY <1>1, <1>5, <1>6, <1>10, <1>11, <1>12, ShapeAfter DEF ReentryIInv
<1>14. ASSUME NEW q \in Reentrants
       PROVE  FoundAsIs(entering[q])'
  <2>1. PICK f : f = entering[q] /\ f = entering'[q]
    BY <1>12
  <2>2. FoundAsIs(f)
    BY <2>1 DEF ReentryIInv, FoundIsThere
  <2>3. FoundAsIs(f)'
    <3>1. f # Idle => f.session # b.session
      BY <1>10, <1>12, <2>2 DEF FoundAsIs
    <3>2. f.session # b.session /\ Unmixed(f) => Unmixed(f)'
      BY <1>11, UnmixedKept DEF ReentryIInv
    <3>3. StillBound(f) => StillBound(f)'
      BY <1>11, StillBoundKept DEF ReentryIInv
    <3> QED
      BY <1>5, <2>2, <3>1, <3>2, <3>3 DEF FoundAsIs
  <2> QED
    BY <2>1, <2>3 DEF FoundAsIs, Unmixed, StillBound, BindingsOf
<1> QED
  BY <1>13, <1>14 DEF ReentryIInv, FoundIsThere

LEMMA NothingEntered ==
    ASSUME ReentryIInv, UNCHANGED <<reviews, bindings, entering, entries>>, now' \in 0..MaxNow
    PROVE  ReentryIInv'
<1>1. ReentryShape'
  BY DEF ReentryIInv, ReentryShape, ReentryTypeOK
<1>2. FoundIsThere'
  BY DEF ReentryIInv, FoundIsThere, FoundAsIs, Unmixed, StillBound, BindingsOf
<1> QED
  BY <1>1, <1>2 DEF ReentryIInv

LEMMA ReentryStep ==
    ASSUME ReentryIInv, [ReentryNext]_reentryVars
    PROVE  ReentryIInv'
<1>1. ASSUME NEW p \in Reentrants, entering[p] = Idle, NEW surface \in Routes, NEW root \in Roots,
             \/ \E s \in Reviews : EnterById(p, s, surface, root)
             \/ \E n \in Pulls : EnterByPull(p, n, surface, root)
             \/ EnterByRepository(p, surface, root)
             \/ \E pulls \in {{n} : n \in Pulls} \cup {Pulls} :
                   EnterStrongest(p, surface, root, pulls)
      PROVE  ReentryIInv'
  BY <1>1, EnterByIdStep, EnterByPullStep, EnterByRepositoryStep, EnterStrongestStep
<1>2. ASSUME NEW p \in Reentrants, LoadInferred(p) \/ GiveUp(p) \/ Conflict(p)
      PROVE  ReentryIInv'
  BY <1>2, LoadInferredStep, EndsStep DEF GiveUp, Conflict
<1>3. ASSUME NEW p \in Reentrants, NEW quality \in {1, 2}, Commit(p, quality)
      PROVE  ReentryIInv'
  BY <1>3, CommitStep
<1>4. ASSUME NEW s \in Reviews, NEW n \in Pulls, NEW surface \in Routes, NEW root \in Roots,
             NEW quality \in {1, 2}, NEW fresh \in BOOLEAN, NEW failed \in BOOLEAN,
             StartReview(s, n, surface, root, quality, fresh, failed)
      PROVE  ReentryIInv'
  BY <1>4, StartReviewStep
<1>5. ASSUME NEW s \in DOMAIN reviews, Touched(s)
      PROVE  ReentryIInv'
  BY <1>5, TouchedStep
<1>6. CASE Tick
  <2>1. now' \in 0..MaxNow
    BY <1>6, ReentryAssumption DEF Tick, ReentryIInv, ReentryShape, ReentryTypeOK
  <2> QED
    BY <1>6, <2>1, NothingEntered DEF Tick
<1>7. CASE UNCHANGED reentryVars
  <2>1. now' \in 0..MaxNow
    BY <1>7 DEF reentryVars, ReentryIInv, ReentryShape, ReentryTypeOK
  <2> QED
    BY <1>7, <2>1, NothingEntered DEF reentryVars
<1>8. ASSUME NEW p \in Reentrants,
             \/ entering[p] = Idle /\ \E surface \in Routes, root \in Roots :
                   \/ \E s \in Reviews : EnterById(p, s, surface, root)
                   \/ \E n \in Pulls : EnterByPull(p, n, surface, root)
                   \/ EnterByRepository(p, surface, root)
                   \/ \E pulls \in {{n} : n \in Pulls} \cup {Pulls} :
                         EnterStrongest(p, surface, root, pulls)
             \/ LoadInferred(p)
             \/ GiveUp(p)
             \/ \E quality \in {1, 2} : Commit(p, quality)
             \/ Conflict(p)
      PROVE  ReentryIInv'
  BY <1>1, <1>2, <1>3, <1>8
<1> QED
  BY <1>4, <1>5, <1>6, <1>7, <1>8 DEF ReentryNext

LEMMA ReentryStarts ==
    ASSUME ReentryInit
    PROVE  ReentryIInv
<1>1. DOMAIN reviews = {} /\ reviews \in [DOMAIN reviews -> ReviewRows] /\ bindings = <<>>
  BY DEF ReentryInit
<1>2. entering \in [Reentrants -> Entering] /\ \A p \in Reentrants : entering[p] = Idle
  BY IdleType DEF ReentryInit
<1>3. entries \in 0..MaxEntries /\ now \in 0..MaxNow
  BY ReentryAssumption DEF ReentryInit
<1>4. ReentryShape
  BY <1>1, <1>2, <1>3, FS_EmptySet, ReentryAssumption DEF ReentryShape, ReentryTypeOK, Entering
<1>5. FoundIsThere
  BY <1>2 DEF FoundIsThere, FoundAsIs
<1> QED
  BY <1>4, <1>5 DEF ReentryIInv

\* What counts as an entry: a commit, or another write of a session's row.
LEMMA EntriesCount ==
    ASSUME [ReentryNext]_reentryVars, entries' # entries
    PROVE  \/ \E p \in Reentrants, quality \in {1, 2} : Commit(p, quality)
           \/ \E s \in DOMAIN reviews : Touched(s)
<1>1. \A p, s, by, binding, surface, root :
        Takes(p, s, by, binding, surface, root) => entries' = entries
  BY DEF Takes
<1>2. \A p, s, surface, root : EnterById(p, s, surface, root) => entries' = entries
  BY <1>1, Zenon DEF EnterById
<1>3. \A p, n, surface, root : EnterByPull(p, n, surface, root) => entries' = entries
  BY <1>1, Zenon DEF EnterByPull
<1>4. \A p, surface, root : EnterByRepository(p, surface, root) => entries' = entries
  BY <1>1, Zenon DEF EnterByRepository
<1>5. \A p, surface, root, pulls : EnterStrongest(p, surface, root, pulls) => entries' = entries
  BY <1>1, Zenon DEF EnterStrongest
<1>6. \A p : LoadInferred(p) \/ GiveUp(p) \/ Conflict(p) => entries' = entries
  BY DEF LoadInferred, GiveUp, Conflict
<1>7. \A s, n, surface, root, quality, fresh, failed :
        StartReview(s, n, surface, root, quality, fresh, failed) => entries' = entries
  BY DEF StartReview
<1>8. Tick \/ UNCHANGED reentryVars => entries' = entries
  BY DEF Tick, reentryVars
<1> QED
  BY <1>2, <1>3, <1>4, <1>5, <1>6, <1>7, <1>8, Zenon DEF ReentryNext

------------------------------------------------------------------------------
(* Which session a re-entry is of. *)

\* The parts of the invariant: the rows, that a binding a process found is still
\* there as it would write it, and that what one found by id or by pull request
\* is still the only binding, or still none, unless the session's row changed.
THEOREM ReentryIInvHolds == ReentrySpec => []ReentryIInv
<1>1. ReentryInit => ReentryIInv
  BY ReentryStarts
<1>2. ReentryIInv /\ [ReentryNext]_reentryVars => ReentryIInv'
  BY ReentryStep
<1> QED
  BY <1>1, <1>2, PTL DEF ReentrySpec

\* infer_strongest_reentry_selection picks the one candidate that is stronger
\* than every other and bound to no other worktree, and picks whenever there is
\* one, among any number of sessions.
THEOREM PickedIsStrongest == ReentrySpec => []ReentryInv
<1>1. ReentryIInv => ReentryInv
  <2> SUFFICES ASSUME ReentryIInv PROVE ReentryInv
    OBVIOUS
  <2>1. PickIsUniqueStrongest
    <3>1. ASSUME NEW surface \in Routes, NEW root \in Roots, NEW pulls,
                 Cardinality(OfPulls(pulls)) > 1
          PROVE  AutoSelected(surface, root, pulls) =
                   {s \in OfPulls(pulls) :
                      /\ Enterable(BindingResolution(s, surface, root))
                      /\ \A t \in OfPulls(pulls) \ {s} :
                           Weaker(Score(t, surface, root, pulls), Score(s, surface, root, pulls))}
      BY <3>1, PickIsRight DEF ReentryIInv
    <3> QED
      BY <3>1 DEF PickIsUniqueStrongest
  <2> QED
    BY <2>1 DEF ReentryInv, ReentryIInv, ReentryShape
<1> QED
  BY <1>1, ReentryIInvHolds, PTL

\* finalize_existing_session_launch_attempt commits a re-entry by id or by pull
\* request only while every binding of its session on its surface is of the
\* worktree it runs in, however many processes enter the session together.
THEOREM WorktreesStayApart == ReentrySpec => WorktreesDoNotMix
<1>1. ASSUME ReentryIInv, [ReentryNext]_reentryVars, NEW p \in Reentrants, NEW e, e = entering[p],
             e # Idle, e.by = "id", entering'[p] = Idle, entries' # entries,
             NEW i \in BindingsOf(e.session, e.surface)
      PROVE  bindings[i].root = BoundRoot(e.surface, e.root)
  <2>1. FoundAsIs(e) /\ e \in Entering
    BY <1>1 DEF ReentryIInv, FoundIsThere, ReentryShape, ReentryTypeOK, Entering
  <2>2. \/ \E q \in Reentrants, quality \in {1, 2} : Commit(q, quality)
        \/ \E s \in DOMAIN reviews : Touched(s)
    BY <1>1, EntriesCount
  <2>3. ASSUME NEW q \in Reentrants, NEW quality \in {1, 2}, Commit(q, quality)
        PROVE  q = p /\ ~e.changed
    <3>1. PICK o : o = entering[q]
      OBVIOUS
    <3>2. /\ o # Idle /\ ~o.changed /\ entering' = Changes(o.session, q)
      BY <2>3, <3>1 DEF Commit, RowChanged
    <3>3. o.session # NoReview
      <4>1. FoundAsIs(o)
        BY <1>1, <3>1 DEF ReentryIInv, FoundIsThere
      <4>2. o.session \in DOMAIN reviews /\ DOMAIN reviews \subseteq Reviews
        BY <1>1, <3>2, <4>1 DEF FoundAsIs, ReentryIInv, ReentryShape, ReentryTypeOK
      <4> QED
        BY <4>2, ReentryAssumption
    <3>4. q # p => FALSE
      <4> SUFFICES ASSUME q # p PROVE FALSE
        OBVIOUS
      <4>1. entering'[p] = IF e.session = o.session /\ e.by # "inferring"
                             THEN [e EXCEPT !.changed = TRUE] ELSE e
        BY <1>1, <3>2 DEF Changes
      <4>2. [e EXCEPT !.changed = TRUE].changed = TRUE
        BY <2>1 DEF Entering
      <4> QED
        BY <1>1, <4>1, <4>2 DEF Idle
    <3> QED
      BY <1>1, <3>1, <3>2, <3>4
  <2>4. ASSUME NEW s \in DOMAIN reviews, Touched(s)
        PROVE  FALSE
    <3>1. entering' = Changes(s, NoReview) /\ p # NoReview
      BY <2>4, ReentryAssumption DEF Touched
    <3>2. entering'[p] = IF e.session = s /\ e.by # "inferring"
                           THEN [e EXCEPT !.changed = TRUE] ELSE e
      BY <1>1, <3>1 DEF Changes
    <3>3. [e EXCEPT !.changed = TRUE].changed = TRUE
      BY <2>1 DEF Entering
    <3> QED
      BY <1>1, <3>2, <3>3 DEF Idle
  <2>5. ~e.changed
    BY <2>2, <2>3, <2>4
  <2>6. Unmixed(e)
    BY <1>1, <2>1, <2>5 DEF FoundAsIs, Entering
  <2> QED
    BY <1>1, <2>6 DEF Unmixed
<1>2. ReentryIInv /\ [ReentryNext]_reentryVars =>
        [\A p \in Reentrants :
           LET e == entering[p]
           IN  e # Idle /\ e.by = "id" /\ entering'[p] = Idle /\ entries' # entries =>
                 \A i \in BindingsOf(e.session, e.surface) :
                   bindings[i].root = BoundRoot(e.surface, e.root)]_reentryVars
  BY <1>1
<1> QED
  BY <1>2, ReentryIInvHolds, PTL DEF ReentrySpec, WorktreesDoNotMix

===============================================================================
