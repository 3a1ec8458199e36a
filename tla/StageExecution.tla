--------------------------- MODULE StageExecution ---------------------------
(***************************************************************************)
(* execute_review_stage: one stage of a review, from the prompt to the     *)
(* event that says what came of it, and the content-addressed artifacts it *)
(* leaves.  Every write is a statement or a file of its own.  Several      *)
(* stages of a run execute in the same store; a process may die or a       *)
(* statement fail anywhere, and the stage is then executed again.          *)
(*                                                                         *)
(* A content is what a digest identifies.  Identifiers of rows carry the   *)
(* time in nanoseconds and are fresh: here the stage and its try.          *)
(***************************************************************************)
EXTENDS Naturals, FiniteSets, Functions

CONSTANTS
    Stages,        \* executions of review tasks
    Prompts,       \* resolved prompt texts
    Short,         \* those of at most 4 KiB
    Raws,          \* raw outputs of workers
    Packs,         \* findings packs: [syntax, items, kept]
    NoPack,
    Budget,        \* repair_retry_budget
    MaxTries       \* bound: executions repeated, of all stages

ASSUME StageAssumption ==
    /\ Short \subseteq Prompts /\ NoPack \notin Packs
    /\ \A k \in Packs : k.kept \subseteq k.items
    /\ Budget \in Nat /\ MaxTries \in Nat

VARIABLES
    artifacts,     \* rows of artifacts: content -> identifier
    files,         \* content -> whether its file is complete
    exec,          \* the executions
    rows,          \* prompt_invocations, worker_invocations, worker_stage_results
    materialised,  \* findings, each with the execution that wrote it
    events         \* outcome_events

stageVars == <<artifacts, files, exec, rows, materialised, events>>

Unset == "unset"

Unstarted(attempt, tries) ==
    [at |-> "idle", phase |-> "look", attempt |-> attempt, tries |-> tries,
     text |-> Unset, raw |-> Unset, pack |-> NoPack, bound |-> TRUE]

StageInit ==
    /\ artifacts = [c \in {} |-> <<>>]
    /\ files = [c \in {} |-> TRUE]
    /\ exec = [x \in Stages |-> Unstarted(0, 1)]
    /\ rows = {}
    /\ materialised = {}
    /\ events = {}

------------------------------------------------------------------------------
(* What the steps of an execution are, in their order. *)

\* Mutant: the findings are materialised when all is recorded.
FollowingFindingsLast(at, pack) ==
    CASE at = "text" -> "worker"
      [] at = "raw" -> IF pack = NoPack THEN "result" ELSE "pack"
      [] at = "pack" -> "result"
      [] at = "result" -> "prompt_row"
      [] at = "prompt_row" -> "worker_row"
      [] at = "worker_row" -> "calls"
      [] at = "calls" -> "result_row"
      [] at = "result_row" -> "event"
      [] at = "event" -> "findings"
      [] at = "findings" -> "done"

Following(at, pack) ==
    CASE at = "text" -> "worker"
      [] at = "raw" -> IF pack = NoPack THEN "result" ELSE "pack"
      [] at = "pack" -> "result"
      [] at = "result" -> "prompt_row"
      [] at = "prompt_row" -> "findings"
      [] at = "findings" -> "worker_row"
      [] at = "worker_row" -> "calls"
      [] at = "calls" -> "result_row"
      [] at = "result_row" -> "event"
      [] at = "event" -> "done"

Steps == {"idle", "text", "worker", "raw", "pack", "result", "prompt_row", "findings",
          "worker_row", "calls", "result_row", "event", "done", "failed", "dead"}

Advance(x) == exec' = [exec EXCEPT ![x].at = Following(@, exec[x].pack), ![x].phase = "look"]

Fails(x) == exec' = [exec EXCEPT ![x].at = "failed"]

(* What an artifact step stores, and the identifier it asks for.  The      *)
(* submitted result names its invocation and so is never stored twice.     *)
Content(x) ==
    LET e == exec[x]
    IN  CASE e.at = "text" -> <<"text", e.text>>
          [] e.at = "raw" -> <<"raw", e.raw>>
          [] e.at = "pack" -> <<"pack", e.pack>>
          [] e.at = "result" -> <<"result", x, e.tries>>

Identifier(x, slot) == <<slot, x, exec[x].tries>>

Inline(c) == c[1] = "text" /\ c[2] \in Short

Storing(x) == exec[x].at \in {"text", "raw", "pack", "result"}

------------------------------------------------------------------------------
(* store_artifact. *)

(* What is there already is used, under the identifier it has. *)
FoundStored(x) ==
    /\ Storing(x) /\ exec[x].phase = "look" /\ Content(x) \in DOMAIN artifacts
    /\ Advance(x)
    /\ UNCHANGED <<artifacts, files, rows, materialised, events>>

NeedsFile(x) == ~Inline(Content(x)) /\ Content(x) \notin DOMAIN files

(* fs::write creates the file, with nothing in it, and then fills it. *)
Look(x) ==
    /\ Storing(x) /\ exec[x].phase = "look" /\ Content(x) \notin DOMAIN artifacts
    /\ IF NeedsFile(x)
       THEN /\ files' = [c \in DOMAIN files \cup {Content(x)} |->
                            IF c = Content(x) THEN FALSE ELSE files[c]]
            /\ exec' = [exec EXCEPT ![x].phase = "write"]
       ELSE exec' = [exec EXCEPT ![x].phase = "insert"] /\ UNCHANGED files
    /\ UNCHANGED <<artifacts, rows, materialised, events>>

WriteFile(x) ==
    /\ Storing(x) /\ exec[x].phase = "write"
    /\ files' = [files EXCEPT ![Content(x)] = TRUE]
    /\ exec' = [exec EXCEPT ![x].phase = "insert"]
    /\ UNCHANGED <<artifacts, rows, materialised, events>>

(* The digest is unique: the second of two that found none fails. *)
InsertArtifact(x) ==
    /\ Storing(x) /\ exec[x].phase = "insert"
    /\ IF Content(x) \in DOMAIN artifacts
       THEN Fails(x) /\ UNCHANGED artifacts
       ELSE /\ artifacts' = [c \in DOMAIN artifacts \cup {Content(x)} |->
                                IF c = Content(x) THEN Identifier(x, exec[x].at)
                                ELSE artifacts[c]]
            /\ Advance(x)
    /\ UNCHANGED <<files, rows, materialised, events>>

------------------------------------------------------------------------------
(* The worker. *)

Begin(x, text) ==
    /\ exec[x].at = "idle"
    /\ exec' = [exec EXCEPT ![x].at = "text", ![x].text = text]
    /\ UNCHANGED <<artifacts, files, rows, materialised, events>>

(* validate_stage_result, validate_worker_invocation_binding and           *)
(* validate_tool_call_event: session, run, task, nonce and invocation.     *)
Accepts(bound) == bound

Answer(x, raw, pack, bound) ==
    /\ exec[x].at = "worker"
    /\ exec' = [exec EXCEPT ![x].at = IF Accepts(bound) THEN "raw" ELSE "failed",
                            ![x].raw = raw, ![x].pack = pack, ![x].bound = bound]
    /\ UNCHANGED <<artifacts, files, rows, materialised, events>>

TransportFails(x) ==
    /\ exec[x].at = "worker"
    /\ Fails(x)
    /\ UNCHANGED <<artifacts, files, rows, materialised, events>>

------------------------------------------------------------------------------
(* validate_structured_findings_pack. *)

RetriesRemain(attempt) == attempt < Budget

RepairOrRaw(attempt) == IF RetriesRemain(attempt) THEN "repair_needed" ELSE "raw_only"

(* A finding with a blank title or summary is dropped; one whose levels,   *)
(* claims or anchors are flawed is kept without them.                      *)
Kept(pack) == IF pack = NoPack \/ pack.syntax # "good" THEN {} ELSE pack.kept

Flawed(pack) == pack.items # pack.kept \/ pack.flawed

StageState(pack, attempt) ==
    CASE pack = NoPack -> RepairOrRaw(attempt)
      [] pack # NoPack /\ pack.syntax # "good" -> RepairOrRaw(attempt)
      [] OTHER -> IF pack.kept = {}
                  THEN IF Flawed(pack) THEN RepairOrRaw(attempt) ELSE "raw_only"
                  ELSE IF Flawed(pack) THEN "partial" ELSE "structured"

------------------------------------------------------------------------------
(* The rows. *)

(* Every reference is a foreign key. *)
Resolves(id) == \E c \in DOMAIN artifacts : artifacts[c] = id

Records(x, table, refs) ==
    /\ IF \A id \in refs : Resolves(id)
       THEN /\ rows' = rows \cup {[table |-> table, by |-> <<x, exec[x].tries>>, refs |-> refs,
                                   text |-> exec[x].text, raw |-> exec[x].raw,
                                   pack |-> exec[x].pack]}
            /\ Advance(x)
       ELSE Fails(x) /\ UNCHANGED rows
    /\ UNCHANGED <<artifacts, files, materialised, events>>

RecordPrompt(x) ==
    exec[x].at = "prompt_row" /\ Records(x, "prompt", {Identifier(x, "text")})

RecordWorker(x) ==
    exec[x].at = "worker_row"
        /\ Records(x, "worker", {Identifier(x, "raw"), Identifier(x, "result")})

RecordResult(x) ==
    exec[x].at = "result_row"
        /\ Records(x, "result", {Identifier(x, "result")} \cup
                       IF exec[x].pack = NoPack THEN {} ELSE {Identifier(x, "pack")})

(* Their identifiers are the worker's, and may have been used. *)
RecordCalls(x) ==
    /\ exec[x].at = "calls"
    /\ Advance(x) \/ Fails(x)
    /\ UNCHANGED <<artifacts, files, rows, materialised, events>>

(* One finding at a time, in their order: FindingLedger. *)
Materialise(x) ==
    LET written == {r.finding : r \in {r \in materialised : r.by = <<x, exec[x].tries>>}}
    IN  /\ exec[x].at = "findings"
        /\ IF Kept(exec[x].pack) \subseteq written
           THEN Advance(x) /\ UNCHANGED materialised
           ELSE \E f \in Kept(exec[x].pack) \ written :
                    /\ materialised' = materialised \cup
                           {[finding |-> f, by |-> <<x, exec[x].tries>>, bound |-> exec[x].bound]}
                    /\ UNCHANGED exec
        /\ UNCHANGED <<artifacts, files, rows, events>>

RecordEvent(x) ==
    /\ exec[x].at = "event"
    /\ events' = events \cup {[by |-> <<x, exec[x].tries>>, attempt |-> exec[x].attempt,
                               pack |-> exec[x].pack,
                               state |-> StageState(exec[x].pack, exec[x].attempt)]}
    /\ Advance(x)
    /\ UNCHANGED <<artifacts, files, rows, materialised>>

------------------------------------------------------------------------------
(* Trouble, and another try. *)

Running(x) == exec[x].at \notin {"idle", "done", "failed", "dead"}

(* The process dies, or a statement fails. *)
StageStops(x) ==
    /\ Running(x)
    /\ exec' = [exec EXCEPT ![x].at = "dead"]
    /\ UNCHANGED <<artifacts, files, rows, materialised, events>>

(* Bound: stages are repeated one at a time, when no other executes. *)
MayRepeat ==
    /\ \A x \in Stages : ~Running(x)
    /\ FoldFunction(LAMBDA e, n : e.tries + n, 0, exec) < Cardinality(Stages) + MaxTries

Again(x) ==
    /\ exec[x].at \in {"failed", "dead"} /\ MayRepeat
    /\ exec' = [exec EXCEPT ![x] = Unstarted(@.attempt, @.tries + 1)]
    /\ UNCHANGED <<artifacts, files, rows, materialised, events>>

Repair(x) ==
    /\ exec[x].at = "done" /\ MayRepeat
    /\ StageState(exec[x].pack, exec[x].attempt) = "repair_needed"
    /\ exec' = [exec EXCEPT ![x] = Unstarted(@.attempt + 1, @.tries + 1)]
    /\ UNCHANGED <<artifacts, files, rows, materialised, events>>

StageNext ==
    \E x \in Stages :
        \/ \E text \in Prompts : Begin(x, text)
        \/ FoundStored(x) \/ Look(x) \/ WriteFile(x) \/ InsertArtifact(x)
        \/ \E raw \in Raws, pack \in Packs \cup {NoPack}, bound \in BOOLEAN :
              Answer(x, raw, pack, bound)
        \/ TransportFails(x)
        \/ RecordPrompt(x) \/ Materialise(x) \/ RecordWorker(x) \/ RecordCalls(x)
        \/ RecordResult(x) \/ RecordEvent(x)
        \/ StageStops(x) \/ Again(x) \/ Repair(x)

StageSpec == StageInit /\ [][StageNext]_stageVars

------------------------------------------------------------------------------
(* Properties. *)

RowOf(table, by) == {r \in rows : r.table = table /\ r.by = by}

(* Every execution is at one of its steps, within an artifact only while   *)
(* it stores one, and rows are one to a table and execution.               *)
StageTypeOK ==
    /\ \A x \in Stages :
          /\ exec[x].at \in Steps /\ exec[x].phase \in {"look", "write", "insert"}
          /\ exec[x].phase # "look" => Storing(x) \/ exec[x].at \in {"failed", "dead"}
          /\ exec[x].attempt \in 0..Budget /\ exec[x].tries \in Nat \ {0}
          /\ exec[x].text \in Prompts \cup {Unset} /\ exec[x].raw \in Raws \cup {Unset}
          /\ exec[x].pack \in Packs \cup {NoPack}
    /\ \A r \in rows : Cardinality(RowOf(r.table, r.by)) = 1
    /\ \A c \in DOMAIN files : files[c] \in BOOLEAN

(* What a recorded prompt, invocation or result refers to is an artifact   *)
(* of the store, and the text, output or pack that the execution really    *)
(* had: never that of another execution and never a missing one.           *)
ReferencesAreTrue ==
    \A r \in rows : \A id \in r.refs :
        \E c \in DOMAIN artifacts :
            /\ artifacts[c] = id
            /\ c[1] = "text" => c[2] = r.text
            /\ c[1] = "raw" => c[2] = r.raw
            /\ c[1] = "pack" => c[2] = r.pack
            /\ c[1] = "result" => <<c[2], c[3]>> = r.by

(* store_artifact writes the file first: an artifact that is not inline    *)
(* has one, and a torn one only when a process that wrote it was stopped   *)
(* or has yet to finish.                                                   *)
RowsHaveFiles ==
    \A c \in DOMAIN artifacts : ~Inline(c) =>
        /\ c \in DOMAIN files
        /\ \/ files[c]
           \/ \E x \in Stages : Storing(x) /\ exec[x].phase = "write" /\ Content(x) = c
           \/ \E x \in Stages : exec[x].at = "dead" \/ exec[x].tries > 1

(* The event comes last: what it reports - the prompt, the invocation, the *)
(* result and every finding kept - is in the store when it is.             *)
EventIsLast ==
    \A v \in events :
        /\ \A table \in {"prompt", "worker", "result"} : RowOf(table, v.by) # {}
        /\ \A f \in Kept(v.pack) : \E r \in materialised : r.by = v.by /\ r.finding = f

(* A finding comes from a result made for the very task, of an execution   *)
(* whose prompt is on record.                                              *)
FindingsAreBound ==
    \A r \in materialised : r.bound /\ RowOf("prompt", r.by) # {}

(* Repair ends: the last attempt the budget allows never asks for another, *)
(* and no execution goes past the budget.                                  *)
RepairEnds ==
    /\ \A v \in events : v.attempt = Budget => v.state # "repair_needed"
    /\ \A v \in events : v.state \in {"structured", "partial"} <=> Kept(v.pack) # {}

(* What the store holds of the executions of stages is true and complete up*)
(* to where each got, through crashes, repairs and repetitions.            *)
StageInv ==
    /\ StageTypeOK
    /\ ReferencesAreTrue
    /\ RowsHaveFiles
    /\ EventIsLast
    /\ FindingsAreBound
    /\ RepairEnds

==============================================================================
