------------------------------ MODULE BridgeHost ------------------------------
(* The browser extension and the native host. A click in the panel opens a   *)
(* port; the browser starts rr as a host process for it, which reads one     *)
(* message, streams progress, runs an rr command as a child, and writes one  *)
(* reply. The extension gives up by its own clocks. Neither side learns what *)
(* becomes of the other: the port closes under a host, and a host that is    *)
(* killed leaves its child running.                                          *)
EXTENDS Naturals, Sequences, FiniteSets

CONSTANTS Clicks,      \* clicks, page loads and start-ups of the extension
          Days,        \* what is asked for: each a function from clicks to sets of actions
          NoSession,
          SessionIds,  \* the sessions there can be of this pull request
          MaxHostKills \* bound: hosts that are killed

Launches == {"start_review", "resume_review"}
Reads == {"show_drafts", "search", "timeline"}
Writes == {"triage_finding", "revise_draft", "request_clarification"}
Registration == "register_extension_identity"
Status == "roger_bridge_status"
SUPPORTED_ACTIONS == Launches \cup Reads \cup Writes \cup {"show_findings"}

ASSUME BridgeConstants ==
    /\ Days \subseteq [Clicks -> SUBSET (SUPPORTED_ACTIONS \cup {Registration, Status, "other"})]
    /\ NoSession \notin SessionIds /\ MaxHostKills \in Nat

VARIABLES day,       \* the one of Days; no step changes it
          live,      \* the sessions of the pull request
          effects,   \* history: <<click, session>> launched, <<click, "write">> committed
          idOnFile,  \* did an extension register its id
          panel,     \* the extension's side of each click
          host,      \* the host process of each click
          child,     \* the rr command a host has started
          wire,      \* frames written and not yet delivered
          hostKills

bridgeVars == <<day, live, effects, idOnFile, panel, host, child, wire, hostKills>>

Progress == [kind |-> "progress"]
\* BridgeResponse, and what the panel makes of it. `mode` stands for its
\* failure_kind; "native" is a success. `status` is the session whose attention
\* state it carries.
Reply(ok, mode, session, status) ==
    [kind |-> "final", ok |-> ok, mode |-> mode, session |-> session, status |-> status]
Failure(mode) == Reply(FALSE, mode, NoSession, NoSession)
Unanswered == Failure("none")

NoClick == [pc |-> "idle", action |-> "other", complete |-> TRUE, session |-> NoSession,
            acked |-> FALSE, answer |-> Unanswered]
NoHost == [pc |-> "none", mode |-> "none", session |-> NoSession, status |-> NoSession]
NoChild == [pc |-> "none", outcome |-> "none", session |-> NoSession]

BridgeInit ==
    /\ day \in Days
    /\ live \in {{}} \cup {{s} : s \in SessionIds}
    /\ effects = {} /\ idOnFile = FALSE
    /\ panel = [c \in Clicks |-> NoClick]
    /\ host = [c \in Clicks |-> NoHost]
    /\ child = [c \in Clicks |-> NoChild]
    /\ wire = [c \in Clicks |-> <<>>]
    /\ hostKills = 0

----------------------------------------------------------------------------
(* The extension: background/main.js                                         *)

\* settle: the port is disconnected with the answer; what was not delivered is lost.
Settle(c, answer) ==
    /\ panel' = [panel EXCEPT ![c].pc = "settled", ![c].acked = FALSE, ![c].answer = answer]
    /\ wire' = [wire EXCEPT ![c] = <<>>]

\* What a click gets when its port says nothing more. handleLaunchMessage turns
\* native_error into "Native Messaging unavailable; launch blocked."
Fallback(action) == IF action = Status THEN "launch_only" ELSE "unavailable"

\* dispatchNative and dispatchNativeStatus. An unknown action is refused here;
\* the browser may have no host to start.
Click(c) ==
    /\ panel[c].pc = "idle"
    /\ \E action \in day[c], complete \in BOOLEAN, session \in live \cup {NoSession} :
         /\ session # NoSession => action = "resume_review"
         /\ complete \/ action \in Writes \cup {"search", Registration}
         /\ LET asked == [NoClick EXCEPT !.action = action, !.complete = complete,
                                         !.session = session]
            IN \/ /\ action = "other"
                  /\ panel' = [panel EXCEPT ![c] =
                       [asked EXCEPT !.pc = "settled", !.answer = Failure("invalid_request")]]
                  /\ UNCHANGED host
               \/ /\ action # "other"
                  /\ panel' = [panel EXCEPT ![c] =
                       [asked EXCEPT !.pc = "settled", !.answer = Failure(Fallback(action))]]
                  /\ UNCHANGED host
               \/ /\ action # "other"
                  /\ panel' = [panel EXCEPT ![c] = [asked EXCEPT !.pc = "waiting"]]
                  /\ host' = [host EXCEPT ![c].pc = "started"]
    /\ UNCHANGED <<day, live, effects, idOnFile, child, wire, hostKills>>

\* port.onMessage: any frame retires the first-frame watchdog; the first that is
\* no progress settles.
Receive(c) ==
    /\ panel[c].pc = "waiting" /\ wire[c] # <<>>
    /\ IF Head(wire[c]) = Progress
       THEN panel' = [panel EXCEPT ![c].acked = TRUE] /\ wire' = [wire EXCEPT ![c] = Tail(@)]
       ELSE Settle(c, Head(wire[c]))
    /\ UNCHANGED <<day, live, effects, idOnFile, host, child, hostKills>>

\* port.onDisconnect: the host has ended, and all it wrote was delivered.
Disconnected(c) ==
    /\ panel[c].pc = "waiting" /\ wire[c] = <<>> /\ host[c].pc = "ended"
    /\ Settle(c, Failure(Fallback(panel[c].action)))
    /\ UNCHANGED <<day, live, effects, idOnFile, host, child, hostKills>>

\* 10 s for the first frame of a launch.
FirstFrameTimeout(c) ==
    /\ panel[c].pc = "waiting" /\ ~panel[c].acked /\ panel[c].action # Status
    /\ Settle(c, Failure("unavailable"))
    /\ UNCHANGED <<day, live, effects, idOnFile, host, child, hostKills>>

\* Mutant: the first frame retires both watchdogs.
TimeoutUnacked(c) ==
    /\ panel[c].pc = "waiting" /\ ~panel[c].acked
    /\ Settle(c, Failure(Fallback(panel[c].action)))
    /\ UNCHANGED <<day, live, effects, idOnFile, host, child, hostKills>>

\* 120 s for the reply of a launch, 4 s for the one of a status probe.
Timeout(c) ==
    /\ panel[c].pc = "waiting"
    /\ Settle(c, Failure(Fallback(panel[c].action)))
    /\ UNCHANGED <<day, live, effects, idOnFile, host, child, hostKills>>

----------------------------------------------------------------------------
(* The host: run_native_host_mode                                            *)

\* A frame can be written while the port is open.
Open(c) == panel[c].pc = "waiting"
Write(c, frame) == wire' = [wire EXCEPT ![c] = Append(@, frame)]
HostTo(c, pc) ==
    host' = [host EXCEPT ![c] = IF pc = "ended" THEN [NoHost EXCEPT !.pc = pc]
                                ELSE [host[c] EXCEPT !.pc = pc]]
Answers(c, mode) == host' = [host EXCEPT ![c].pc = "reply", ![c].mode = mode]

\* Unreadable: too long, no JSON, or an intent without its fields.
ReadMessage(c) ==
    /\ host[c].pc = "started"
    /\ \/ Answers(c, "unreadable") /\ UNCHANGED wire
       \/ /\ panel[c].action = Status
          /\ HostTo(c, "probe") /\ UNCHANGED wire
       \/ /\ panel[c].action # Status
          /\ IF Open(c) THEN Write(c, Progress) /\ HostTo(c, "preflight")
             ELSE HostTo(c, "ended") /\ UNCHANGED wire
    /\ UNCHANGED <<day, live, effects, idOnFile, panel, child, hostKills>>

\* answer_bridge_status_probe: the newest session. Only states in the canonical
\* set, and no older than 300 s, are mirrored (bounded_status). A query that fails
\* has found no session.
AnswerProbe(c) ==
    /\ host[c].pc = "probe"
    /\ \E found \in {<<"no_local_session", NoSession>>} \cup
                    ({"bounded_status", "session_inventory"} \X live) :
         LET frame == Reply(TRUE, found[1], found[2],
                            IF found[1] = "bounded_status" THEN found[2] ELSE NoSession)
         IN wire' = IF Open(c) THEN [wire EXCEPT ![c] = Append(@, frame)] ELSE wire
    /\ HostTo(c, "ended")
    /\ UNCHANGED <<day, live, effects, idOnFile, panel, child, hostKills>>

ProbeWithoutStore(c) ==
    /\ host[c].pc = "probe"
    /\ wire' = IF Open(c) THEN [wire EXCEPT ![c] = Append(@, Failure("launch_only"))] ELSE wire
    /\ HostTo(c, "ended")
    /\ UNCHANGED <<day, live, effects, idOnFile, panel, child, hostKills>>

\* BridgePreflight::check: the binary, the data directory and gh. A registration
\* does not need them. A host whose port is gone ends here.
Preflight(c) ==
    /\ host[c].pc = "preflight"
    /\ \/ /\ IF panel[c].action = Registration THEN HostTo(c, "register")
             ELSE Answers(c, "preflight_failed")
          /\ UNCHANGED wire
       \/ IF Open(c)
          THEN /\ Write(c, Progress)
               /\ HostTo(c, IF panel[c].action = Registration THEN "register" ELSE "dispatch")
          ELSE HostTo(c, "ended") /\ UNCHANGED wire
    /\ UNCHANGED <<day, live, effects, idOnFile, panel, child, hostKills>>

\* handle_extension_registration_intent.
Register(c) ==
    /\ host[c].pc = "register"
    /\ \/ panel[c].complete /\ idOnFile' = TRUE /\ Answers(c, "native")
       \/ Answers(c, "refused") /\ UNCHANGED idOnFile
    /\ UNCHANGED <<day, live, effects, panel, child, wire, hostKills>>

\* Mutant: the fields are looked at when the child has been started.
DispatchUnchecked(c) ==
    /\ host[c].pc = "dispatch"
    /\ \/ panel[c].complete /\ Answers(c, "cli_spawn_failed") /\ UNCHANGED child
       \/ /\ child' = [child EXCEPT ![c].pc = "running"]
          /\ IF panel[c].complete THEN HostTo(c, "child") ELSE Answers(c, "missing_field")
    /\ UNCHANGED <<day, live, effects, idOnFile, panel, wire, hostKills>>

\* handle_local_parity_action, bridge_dispatch_spec: the child is started from a
\* neutral directory. A field that is missing, a body that cannot be staged
\* or a binary that does not start is reported instead.
Dispatch(c) ==
    /\ host[c].pc = "dispatch"
    /\ \/ ~panel[c].complete /\ Answers(c, "missing_field") /\ UNCHANGED child
       \/ panel[c].complete /\ Answers(c, "cli_spawn_failed") /\ UNCHANGED child
       \/ /\ panel[c].complete
          /\ child' = [child EXCEPT ![c].pc = "running"]
          /\ HostTo(c, "child")
    /\ UNCHANGED <<day, live, effects, idOnFile, panel, wire, hostKills>>

\* The outcomes of a command that its caller relays as a success.
allowed_outcomes(action) ==
    CASE action \in Launches -> {"complete", "degraded"}
      [] action \in Reads \cup {"show_findings"} -> {"complete", "empty"}
      [] OTHER -> {"complete"}

StatusFollows == Launches \cup {"show_findings"}

\* After the child: relay its refusal, the sessions a resume may pick from, or
\* its success; a launch and show_findings read the session's status first.
AfterChild(c) ==
    LET action == panel[c].action
        outcome == child[c].outcome
        Replies(mode) == [host[c] EXCEPT !.pc = "reply", !.mode = mode]
    IN
    IF outcome = "unreadable" THEN Replies("robot_schema_mismatch")
    ELSE IF action = "resume_review" /\ outcome = "candidates" THEN Replies("picker_required")
    ELSE IF outcome \notin allowed_outcomes(action) THEN Replies("cli_outcome_not_safe")
    ELSE IF action \notin StatusFollows THEN Replies("native")
    ELSE IF child[c].session = NoSession THEN Replies("missing_session_id")
    ELSE [host[c] EXCEPT !.pc = "readback", !.session = child[c].session]

Collect(c) ==
    /\ host[c].pc = "child" /\ child[c].pc = "exited"
    /\ host' = [host EXCEPT ![c] = AfterChild(c)]
    /\ child' = [child EXCEPT ![c] = [NoChild EXCEPT !.pc = "exited"]]
    /\ UNCHANGED <<day, live, effects, idOnFile, panel, wire, hostKills>>

\* Mutant: a status that cannot be read takes nothing from the success.
AfterStatusAnyway(outcome, named, wanted) ==
    IF outcome = "complete" /\ named # wanted THEN "robot_schema_mismatch" ELSE "native"

\* build_bridge_status_snapshot: the status must be complete, and name the
\* session that the command named.
AfterStatus(outcome, named, wanted) ==
    IF outcome = "not started" THEN "cli_spawn_failed"
    ELSE IF outcome = "unreadable" THEN "robot_schema_mismatch"
    ELSE IF outcome # "complete" THEN "cli_outcome_not_safe"
    ELSE IF named # wanted THEN "robot_schema_mismatch" ELSE "native"

\* `rr status --session`: another child, of what the store then holds.
Readback(c) ==
    /\ host[c].pc = "readback"
    /\ \E outcome \in {"not started", "unreadable", "complete", "blocked", "error"},
          read \in live \cup {NoSession} :
         LET named == IF outcome = "complete" THEN read ELSE NoSession
             mode == AfterStatus(outcome, named, host[c].session)
         IN host' = [host EXCEPT ![c].pc = "reply", ![c].mode = mode,
                     ![c].status = IF mode = "native" THEN named ELSE NoSession]
    /\ UNCHANGED <<day, live, effects, idOnFile, panel, child, wire, hostKills>>

\* The reply carries what was read back; without a port it is lost.
WriteReply(c) ==
    /\ host[c].pc = "reply"
    /\ LET ok == host[c].mode = "native"
           frame == IF ok THEN Reply(TRUE, "native", host[c].session, host[c].status)
                    ELSE Failure(host[c].mode)
       IN wire' = IF Open(c) THEN [wire EXCEPT ![c] = Append(@, frame)] ELSE wire
    /\ HostTo(c, "ended")
    /\ UNCHANGED <<day, live, effects, idOnFile, panel, child, hostKills>>

----------------------------------------------------------------------------
(* The child commands, and the rest of the world                             *)

\* Nobody hears of a child whose host has ended.
Exits(c, outcome, session) ==
    child' = [child EXCEPT ![c] =
      IF host[c].pc = "ended" THEN [NoChild EXCEPT !.pc = "exited"]
      ELSE [pc |-> "exited", outcome |-> outcome, session |-> session]]

\* `rr review` starts a session or takes one that is there; `rr resume` re-enters
\* the one that is named, or one of those there are.
Launched(c) ==
    /\ child[c].pc = "running" /\ panel[c].action \in Launches
    /\ \E s \in IF panel[c].session # NoSession THEN {panel[c].session}
                ELSE IF panel[c].action = "resume_review" THEN live ELSE SessionIds :
         /\ live' = live \cup {s}
         /\ effects' = effects \cup {<<c, s>>}
         /\ \E outcome \in {"complete", "degraded", "unreadable"}, told \in {s, NoSession} :
              Exits(c, outcome, told)
    /\ UNCHANGED <<day, idOnFile, panel, host, wire, hostKills>>

\* Several sessions match, and none was named.
Candidates(c) ==
    /\ child[c].pc = "running" /\ panel[c].action = "resume_review"
    /\ panel[c].session = NoSession /\ Cardinality(live) > 1
    /\ Exits(c, "candidates", NoSession)
    /\ UNCHANGED <<day, live, effects, idOnFile, panel, host, wire, hostKills>>

\* rr triage, rr send edit and rr clarify; a command may fail after it wrote.
Written(c) ==
    /\ child[c].pc = "running" /\ panel[c].action \in Writes
    /\ effects' = effects \cup {<<c, "write">>}
    /\ \E outcome \in {"complete", "error", "unreadable"} : Exits(c, outcome, NoSession)
    /\ UNCHANGED <<day, live, idOnFile, panel, host, wire, hostKills>>

\* rr findings (whose reply names the session), rr search and rr timeline.
Read(c) ==
    /\ child[c].pc = "running" /\ panel[c].action \in Reads \cup {"show_findings"}
    /\ \E outcome \in {"complete", "empty"}, s \in live \cup {NoSession} :
         Exits(c, outcome, IF panel[c].action = "show_findings" THEN s ELSE NoSession)
    /\ UNCHANGED <<day, live, effects, idOnFile, panel, host, wire, hostKills>>

\* Any command may be blocked, fail, or print something else, having done nothing.
Refused(c) ==
    /\ child[c].pc = "running"
    /\ \E outcome \in {"blocked", "error", "unreadable"} : Exits(c, outcome, NoSession)
    /\ UNCHANGED <<day, live, effects, idOnFile, panel, host, wire, hostKills>>

\* The browser or the system ends the host; its child goes on.
KillHost(c) ==
    /\ hostKills < MaxHostKills /\ host[c].pc \notin {"none", "ended"}
    /\ HostTo(c, "ended")
    /\ child' = [child EXCEPT ![c] = IF @.pc = "exited" THEN [NoChild EXCEPT !.pc = "exited"] ELSE @]
    /\ hostKills' = hostKills + 1
    /\ UNCHANGED <<day, live, effects, idOnFile, panel, wire>>

BridgeNext ==
    \E c \in Clicks :
         \/ Click(c) \/ Receive(c) \/ Disconnected(c) \/ FirstFrameTimeout(c) \/ Timeout(c)
         \/ ReadMessage(c) \/ AnswerProbe(c) \/ ProbeWithoutStore(c) \/ Preflight(c)
         \/ Register(c) \/ Dispatch(c) \/ Collect(c) \/ Readback(c) \/ WriteReply(c)
         \/ Launched(c) \/ Candidates(c) \/ Written(c) \/ Read(c) \/ Refused(c) \/ KillHost(c)

\* Only the extension's own clock is sure to run: the host and its child may hang.
BridgeFairness == \A c \in Clicks : WF_bridgeVars(Timeout(c))

BridgeSpec == BridgeInit /\ [][BridgeNext]_bridgeVars /\ BridgeFairness
----------------------------------------------------------------------------
(* Properties                                                                *)

BridgeTypeOK ==
    /\ live \subseteq SessionIds
    /\ effects \subseteq Clicks \X (SessionIds \cup {"write"})
    /\ \A c \in Clicks :
         /\ Len(wire[c]) <= 3
         /\ panel[c].pc \in {"idle", "waiting", "settled"}
         /\ panel[c].answer.session \in SessionIds \cup {NoSession}
         /\ host[c].pc \in {"none", "started", "probe", "preflight", "register", "dispatch",
                            "child", "readback", "reply", "ended"}

\* "Build a fail-closed [...] response": a panel that reports success shows what
\* its own click brought about, in that click's own session, whatever other
\* clicks, late replies and dying hosts there are.
OkMeansDone ==
    \A c \in Clicks : panel[c].answer.ok =>
      /\ panel[c].action \in Launches => <<c, panel[c].answer.session>> \in effects
      /\ panel[c].action \in Writes => <<c, "write">> \in effects
      /\ panel[c].action = "resume_review" /\ panel[c].session # NoSession =>
           panel[c].answer.session = panel[c].session

\* A click that is answered by a refusal of the bridge itself, or by a choice of
\* sessions, has done nothing, and will do nothing later.
RefusedMeansNothing ==
    \A c \in Clicks :
      panel[c].answer.mode \in {"invalid_request", "unreadable", "preflight_failed", "missing_field",
                                "picker_required", "launch_only"} =>
        /\ \A e \in effects : e[1] # c
        /\ child[c].pc # "running"

\* A launch, or a list of findings, that the panel reports as done is about a
\* session that is in the store, and the attention state beside it is that
\* session's, read after the command: a status that is refused, unreadable or of
\* another session, or a host that dies between the two commands, leaves the
\* click without a success, although the launch has happened
\* (handle_bridge_intent).
OkIsReadBack ==
    \A c \in Clicks : panel[c].answer.ok /\ panel[c].action \in StatusFollows =>
      /\ panel[c].answer.session \in live
      /\ panel[c].answer.status = panel[c].answer.session

\* "a hung host can never wedge the worker": every click is answered, even if the
\* host or its child hangs for ever.
EveryClickAnswered ==
    \A c \in Clicks : panel[c].pc = "waiting" ~> panel[c].pc = "settled"

\* What a panel shows is what its click did, for successes and for refusals.
AnswersAreTrue ==
    /\ BridgeTypeOK
    /\ OkMeansDone
    /\ RefusedMeansNothing

=============================================================================
