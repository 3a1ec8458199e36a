--------------------------- MODULE ProviderLaunch ---------------------------
(***************************************************************************)
(* What `rr review`, `rr resume` and `rr return` do with the provider      *)
(* between the two transactions of a launch attempt: start a session,      *)
(* reopen the recorded one, or reseed one from the resume bundle.          *)
(*                                                                         *)
(* Copilot runs as a child process.  Roger learns which session it opened  *)
(* only from the artifact that its session-start hook writes, after the    *)
(* child has ended.  The hook names the session of its input, or, when the *)
(* input names none, the session directory that changed last.  OpenCode is *)
(* run to reopen a session and not to start one.  Codex, Claude and Gemini *)
(* ("reseed_only") are not run at all: their sessions are names that Roger *)
(* makes up.                                                               *)
(*                                                                         *)
(* Attempts meet only in Copilot's own directory of sessions, where other  *)
(* Copilots, of other attempts or of nobody's, open sessions as well.      *)
(* A Copilot session is a number.  All made-up names are one, Synthetic.   *)
(* A made-up OpenCode session may or may not reopen.                       *)
(***************************************************************************)
EXTENDS Naturals, FiniteSets

CONSTANTS
    Attempts,        \* launch attempts, each of one command
    Providers,       \* a subset of {"copilot", "opencode", "reseed_only"}
    MaxProviderSessions  \* bound: Copilot sessions, the one on record included

ASSUME LaunchAssumption ==
    /\ Providers \subseteq {"copilot", "opencode", "reseed_only"}
    /\ MaxProviderSessions \in Nat \ {0}

NoSessionId == 0
Earlier == 1                         \* the Copilot session of an earlier review
Synthetic == MaxProviderSessions + 1
SessionNumbers == 0..Synthetic

ChildKinds == {"none", "start", "reopen", "reseed"}
ChildEndings == {"none", "ok", "quiet", "says_gone"}
Verified == {"verified_started", "verified_reopened", "verified_reseeded"}
LaunchFailures == {"failed_spawn", "failed_provider_verification", "failed_session_binding"}

VARIABLES
    order,      \* what each attempt was asked, and what is on record for it
    stage,      \* where each attempt stands
    child,      \* its provider process: kind, session it opened, how it ended
    evidence,   \* the files of the attempt
    outcome,    \* what the command reports, and the session it records
    alive,      \* Copilot sessions whose state Copilot still has
    newestState, \* the session directory that changed last
    opened      \* Copilot sessions that have existed

launchVars == <<order, stage, child, evidence, outcome, alive, newestState, opened>>

NoChild == [kind |-> "none", session |-> NoSessionId, hooked |-> FALSE, end |-> "none", wells |-> 0]
NoEvidence == [artifact |-> FALSE, names |-> NoSessionId, audit |-> 0, seen |-> 0, lists |-> FALSE]
Undecided == [state |-> "pending", session |-> NoSessionId]

Orders == [provider : Providers, action : {"review", "resume", "return"},
           interactive : BOOLEAN, locator : SessionNumbers, bundle : BOOLEAN,
           bound : BOOLEAN]    \* bound: one binding on the command's surface

(* A review has nothing on record; a recorded locator is of its provider. *)
Sensible(o) ==
    /\ o.locator \in {NoSessionId, IF o.provider = "copilot" THEN Earlier ELSE Synthetic}
    /\ o.action = "review" => o.locator = NoSessionId /\ ~o.bundle
    /\ o.action = "return" => o.provider # "reseed_only"
    /\ o.provider # "copilot" => o.interactive
    /\ ~o.bound => o.provider = "opencode" /\ o.action = "return"

LaunchInit ==
    /\ order \in [Attempts -> {o \in Orders : Sensible(o)}]
    /\ stage = [a \in Attempts |-> "ready"]
    /\ child = [a \in Attempts |-> NoChild]
    /\ evidence = [a \in Attempts |-> NoEvidence]
    /\ outcome = [a \in Attempts |-> Undecided]
    /\ opened = 1
    /\ alive \in {{}, {Earlier}}
    /\ newestState \in {NoSessionId, Earlier}

AttemptEnds(a, state, id) ==
    /\ stage' = [stage EXCEPT ![a] = "done"]
    /\ outcome' = [outcome EXCEPT ![a] = [state |-> state, session |-> id]]

AttemptFails(a, state) == AttemptEnds(a, state, NoSessionId)

------------------------------------------------------------------------------
(* Which strategy a resume takes. *)

(* reopened: "usable", "unavailable".  Roger wrote the locator's context,  *)
(* so a session that reopens is of the right target, and the adapter's     *)
(* errors never say that state is missing.                                 *)
Strategy(reopens, bundle, reopened) ==
    IF reopens /\ reopened = "usable" THEN "reopen"
    ELSE IF bundle THEN "reseed" ELSE "fail_closed"

(* The process a Copilot attempt starts next. *)
NextKind(a) ==
    IF order[a].action = "review" THEN "start"
    ELSE IF order[a].locator # NoSessionId /\ child[a].kind = "none" THEN "reopen"
    ELSE IF order[a].bundle THEN "reseed" ELSE "none"

------------------------------------------------------------------------------
(* Copilot. *)

NoBundle(a) ==
    /\ order[a].provider = "copilot" /\ stage[a] = "ready"
    /\ NextKind(a) = "none"
    /\ AttemptFails(a, "failed_session_binding")
    /\ UNCHANGED <<order, child, evidence, alive, newestState, opened>>

(* A directory cannot be made, the hooks cannot be installed, or the binary *)
(* cannot be run.                                                           *)
CannotSpawn(a) ==
    /\ order[a].provider = "copilot" /\ stage[a] = "ready"
    /\ NextKind(a) # "none"
    /\ AttemptFails(a, "failed_spawn")
    /\ UNCHANGED <<order, child, evidence, alive, newestState, opened>>

(* The session a child opens: the recorded one while Copilot has it. *)
Spawn(a) ==
    LET kind == NextKind(a)
    IN  /\ order[a].provider = "copilot" /\ stage[a] = "ready"
        /\ kind # "none"
        /\ kind # "reopen" => opened < MaxProviderSessions
        /\ stage' = [stage EXCEPT ![a] = "running"]
        /\ opened' = IF kind = "reopen" THEN opened ELSE opened + 1
        /\ alive' = IF kind = "reopen" THEN alive ELSE alive \cup {opened + 1}
        /\ child' = [child EXCEPT ![a] =
                        [NoChild EXCEPT !.kind = kind, !.wells = child[a].wells, !.session =
                            IF kind # "reopen" THEN opened + 1
                            ELSE IF order[a].locator \in alive THEN order[a].locator
                            ELSE NoSessionId]]
        /\ UNCHANGED <<order, evidence, outcome, newestState>>

Running(a) == stage[a] = "running" /\ child[a].session \in 1..MaxProviderSessions

(* Copilot writes into the directory of the session it has open. *)
WritesState(a) ==
    /\ Running(a) /\ order[a].provider = "copilot"
    /\ newestState # child[a].session
    /\ newestState' = child[a].session
    /\ UNCHANGED <<order, stage, child, evidence, outcome, alive, opened>>

(* session-start.sh: an audit line, then the artifact.  With neither a     *)
(* session in its input nor a directory the artifact has an empty id.      *)
HookFires(a) ==
    /\ Running(a) /\ order[a].provider = "copilot" /\ ~child[a].hooked
    /\ child' = [child EXCEPT ![a].hooked = TRUE]
    /\ \E id \in {child[a].session, newestState} :
          evidence' = [evidence EXCEPT ![a].audit = @ + 1, ![a].artifact = TRUE, ![a].names = id]
    /\ UNCHANGED <<order, stage, outcome, alive, newestState, opened>>

(* The hook is killed between the two, by its timeout. *)
HookDies(a) ==
    /\ Running(a) /\ order[a].provider = "copilot" /\ ~child[a].hooked
    /\ child' = [child EXCEPT ![a].hooked = TRUE]
    /\ evidence' = [evidence EXCEPT ![a].audit = @ + 1]
    /\ UNCHANGED <<order, stage, outcome, alive, newestState, opened>>

(* Copilot ends.  It cannot end well without a session. *)
ChildEnds(a, end) ==
    /\ stage[a] = "running"
    /\ end = "ok" => child[a].session # NoSessionId
    /\ stage' = [stage EXCEPT ![a] = "ended"]
    /\ child' = [child EXCEPT ![a].end = end, ![a].wells = IF end = "ok" THEN @ + 1 ELSE @]
    /\ UNCHANGED <<order, evidence, outcome, alive, newestState, opened>>

(* Copilot discards the state of a session that is not open. *)
Discard(s) ==
    /\ s \in alive
    /\ \A a \in Attempts : stage[a] = "running" => child[a].session # s
    /\ alive' = alive \ {s}
    /\ UNCHANGED <<order, stage, child, evidence, outcome, newestState, opened>>

(* Another Copilot, of whomever, opens a session or writes into its own. *)
Elsewhere ==
    /\ opened' \in {opened, opened + 1} /\ opened' <= MaxProviderSessions
    /\ newestState' \in 1..opened' /\ newestState' # newestState
    /\ alive' = IF opened' = opened THEN alive ELSE alive \cup {opened'}
    /\ UNCHANGED <<order, stage, child, evidence, outcome>>

(* Only a crash whose words say the session is gone, and only a captured   *)
(* child has words.                                                        *)
RequiresReseed(a) == child[a].end = "says_gone" /\ ~order[a].interactive

\* Mutant: a reopened session may be any.
WronglyNamed(a) == evidence[a].names = NoSessionId

(* The artifact names no session, or not the one that was reopened. *)
Misnamed(a) ==
    \/ evidence[a].names = NoSessionId
    \/ child[a].kind = "reopen" /\ evidence[a].names # order[a].locator

(* A whole session-start artifact of the provider is in place. *)
Readable(a) == evidence[a].artifact

(* Why an ended child is not a verified session; "none" when it is one. *)
Rejection(a) ==
    IF child[a].end # "ok" THEN "failed_spawn"
    ELSE IF ~Readable(a) \/ Misnamed(a) THEN "failed_provider_verification"
    ELSE "none"

(* scan_copilot_hook_audit_dir: the audit lines on disk. *)
Scanned(a) == evidence[a].audit

\* Mutant: the capture is not written again once the session is verified.
CapturedOnce(a, verified) == [evidence[a] EXCEPT !.seen = Scanned(a)]

(* The capture is written after the child ended, with the audit lines seen *)
(* then, and again with the artifacts when the session is verified.        *)
Captured(a, verified) ==
    [evidence[a] EXCEPT !.seen = Scanned(a), !.lists = verified]

VerifiedState(kind) ==
    CASE kind = "start" -> "verified_started"
      [] kind = "reopen" -> "verified_reopened"
      [] kind = "reseed" -> "verified_reseeded"

CaptureFails(a) ==
    /\ stage[a] = "ended" /\ order[a].provider = "copilot"
    /\ AttemptFails(a, "failed_session_binding")
    /\ UNCHANGED <<order, child, evidence, alive, newestState, opened>>

Settle(a) ==
    /\ stage[a] = "ended" /\ order[a].provider = "copilot"
    /\ evidence' = [evidence EXCEPT ![a] = Captured(a, Rejection(a) = "none")]
    /\ \/ /\ Rejection(a) = "none"
          /\ AttemptEnds(a, VerifiedState(child[a].kind), evidence[a].names)
       \/ /\ Rejection(a) # "none" /\ child[a].kind = "reopen" /\ RequiresReseed(a)
          /\ stage' = [stage EXCEPT ![a] = "ready"]
          /\ UNCHANGED outcome
       \/ /\ Rejection(a) # "none" /\ ~(child[a].kind = "reopen" /\ RequiresReseed(a))
          /\ AttemptFails(a, Rejection(a))
    /\ UNCHANGED <<order, child, alive, newestState, opened>>

------------------------------------------------------------------------------
(* The other providers. *)

StartSynthetic(a) ==
    /\ order[a].provider # "copilot" /\ order[a].action = "review" /\ stage[a] = "ready"
    /\ AttemptEnds(a, "verified_started", Synthetic)
    /\ UNCHANGED <<order, child, evidence, alive, newestState, opened>>

(* opencode --session, with the operator's terminal. *)
ReopenOpenCode(a) ==
    /\ order[a].provider = "opencode" /\ order[a].action # "review" /\ stage[a] = "ready"
    /\ order[a].locator # NoSessionId
    /\ stage' = [stage EXCEPT ![a] = "running"]
    /\ child' = [child EXCEPT ![a] = [NoChild EXCEPT !.kind = "reopen", !.session = Synthetic]]
    /\ UNCHANGED <<order, evidence, outcome, alive, newestState, opened>>

Reopened(a) == IF child[a].end = "ok" THEN "usable" ELSE "unavailable"

(* The process, if one was run, has ended. *)
OpenCodeTried(a) ==
    \/ stage[a] = "ready" /\ order[a].locator = NoSessionId
    \/ stage[a] = "ended"

Link(a, reopens, reopened) ==
    /\ CASE Strategy(reopens, order[a].bundle, reopened) = "reopen" ->
                AttemptEnds(a, "verified_reopened", order[a].locator)
         [] Strategy(reopens, order[a].bundle, reopened) = "reseed" ->
                AttemptEnds(a, "verified_reseeded", Synthetic)
         [] OTHER -> AttemptFails(a, "failed_spawn")
    /\ UNCHANGED <<order, child, evidence, alive, newestState, opened>>

LinkOpenCode(a) ==
    /\ order[a].provider = "opencode" /\ order[a].action = "resume"
    /\ OpenCodeTried(a)
    /\ Link(a, TRUE, Reopened(a))

(* A return asks for the binding only when the process has ended. *)
ReturnOpenCode(a) ==
    /\ order[a].provider = "opencode" /\ order[a].action = "return"
    /\ OpenCodeTried(a)
    /\ IF order[a].bound THEN Link(a, TRUE, Reopened(a))
       ELSE /\ AttemptFails(a, "failed_spawn")
            /\ UNCHANGED <<order, child, evidence, alive, newestState, opened>>

LinkReseedOnly(a) ==
    /\ order[a].provider = "reseed_only" /\ order[a].action # "review" /\ stage[a] = "ready"
    /\ Link(a, FALSE, "unavailable")

LaunchNext ==
    \/ \E a \in Attempts :
          \/ NoBundle(a)
          \/ CannotSpawn(a)
          \/ Spawn(a)
          \/ WritesState(a)
          \/ HookFires(a)
          \/ HookDies(a)
          \/ \E end \in ChildEndings \ {"none"} : ChildEnds(a, end)
          \/ CaptureFails(a)
          \/ Settle(a)
          \/ StartSynthetic(a)
          \/ ReopenOpenCode(a)
          \/ LinkOpenCode(a)
          \/ ReturnOpenCode(a)
          \/ LinkReseedOnly(a)
    \/ \E s \in alive : Discard(s)
    \/ Elsewhere

LaunchSpec == LaunchInit /\ [][LaunchNext]_launchVars

------------------------------------------------------------------------------
(* Properties. *)

(* Every field has a value of its kind; a finished attempt names a session *)
(* exactly when it reports a verified one, and it is never an empty id.    *)
LaunchTypeOK ==
    /\ order \in [Attempts -> Orders]
    /\ stage \in [Attempts -> {"ready", "running", "ended", "done"}]
    /\ child \in [Attempts -> [kind : ChildKinds, session : SessionNumbers, hooked : BOOLEAN,
                               end : ChildEndings, wells : 0..2]]
    /\ evidence \in [Attempts -> [artifact : BOOLEAN, names : SessionNumbers, audit : 0..2, seen : 0..2,
                                  lists : BOOLEAN]]
    /\ outcome \in [Attempts -> [state : {"pending"} \cup Verified \cup LaunchFailures,
                                 session : SessionNumbers]]
    /\ alive \subseteq 1..opened
    /\ newestState \in 0..opened
    /\ opened \in 1..MaxProviderSessions
    /\ \A a \in Attempts : (outcome[a].state \in Verified) <=> (outcome[a].session # NoSessionId)

(* launch_copilot_session with an expected id, reopen_by_locator: an       *)
(* attempt that reports a reopened session records the session that its    *)
(* process had open and that was on record, whatever the hook named, and   *)
(* the process ended well.                                                 *)
ReopenedIsOwn ==
    \A a \in Attempts : outcome[a].state = "verified_reopened" =>
        /\ outcome[a].session = order[a].locator
        /\ child[a].session = order[a].locator
        /\ child[a].end = "ok"

(* launch_copilot_resume_or_return_session and link_or_resume_*: a resume  *)
(* or a return without a resume bundle never opens a session other than    *)
(* the one on record, and none when nothing is on record.                  *)
FreshNeedsBundle ==
    \A a \in Attempts : order[a].action # "review" /\ ~order[a].bundle =>
        /\ child[a].session \in {NoSessionId, order[a].locator}
        /\ outcome[a].session \in {NoSessionId, order[a].locator}

(* An attempt opens no second session after the operator worked in a first *)
(* one that ended well: what was decided there would be out of Roger's     *)
(* sight.                                                                  *)
OneSessionPerAttempt ==
    \A a \in Attempts :
        /\ child[a].wells <= 1
        /\ child[a].kind = "reseed" => child[a].wells = (IF child[a].end = "ok" THEN 1 ELSE 0)

(* persist_copilot_launch_capture: when Copilot is reported verified, the  *)
(* capture on disk covers every audit line of the attempt's hooks, those   *)
(* of a reopen that failed before included, and lists its artifacts.       *)
EvidenceIsComplete ==
    \A a \in Attempts :
        order[a].provider = "copilot" /\ outcome[a].state \in Verified =>
            /\ evidence[a].artifact /\ evidence[a].lists
            /\ evidence[a].seen = evidence[a].audit /\ evidence[a].audit > 0

(* What a launch attempt opens and what it keeps as evidence, whatever the *)
(* child process does.                                                     *)
LaunchInv ==
    /\ LaunchTypeOK
    /\ FreshNeedsBundle
    /\ OneSessionPerAttempt
    /\ EvidenceIsComplete

==============================================================================
