--------------------------- MODULE BridgeHostProofs ---------------------------
(* Proofs about BridgeHost for any number of clicks and sessions, whatever   *)
(* is asked for on a day and however many hosts are killed.                  *)
EXTENDS BridgeHost, TLAPS

(* What is true of one click, whatever the others do.                        *)

Refusals == {"invalid_request", "unreadable", "preflight_failed", "missing_field",
             "picker_required", "launch_only"}
Modes == Refusals \cup {"none", "native", "unavailable", "refused", "cli_spawn_failed",
                        "robot_schema_mismatch", "cli_outcome_not_safe", "missing_session_id",
                        "no_local_session", "bounded_status", "session_inventory"}
Sessions == SessionIds \cup {NoSession}
Frames == [kind : {"final"}, ok : BOOLEAN, mode : Modes, session : Sessions,
           status : Sessions]

Commands == Launches \cup Reads \cup Writes \cup {"show_findings"}
Before == {"none", "started", "probe", "preflight", "register", "dispatch"}

PanelOf == [pc : {"idle", "waiting", "settled"}, action : Commands \cup {Registration, Status, "other"},
            complete : BOOLEAN, session : Sessions, acked : BOOLEAN, answer : Frames]
HostOf == [pc : Before \cup {"child", "readback", "reply", "ended"}, mode : Modes,
           session : Sessions, status : Sessions]
ChildOf == [pc : {"none", "running", "exited"},
            outcome : {"none", "complete", "degraded", "empty", "candidates", "blocked",
                       "error", "unreadable"},
            session : Sessions]

ClickType(p, h, k, w) ==
  /\ p \in PanelOf
  /\ h \in HostOf
  /\ k \in ChildOf
  /\ w \in Seq({Progress} \cup Frames)

\* How many frames a host has at most written when it stands at pc.
MostWritten(pc) == CASE pc \in {"none", "started", "probe"} -> 0
                  [] pc = "preflight" -> 1
                  [] pc = "ended" -> 3
                  [] OTHER -> 2

Untouched(c) == child[c].pc # "running" /\ \A e \in effects : e[1] # c

\* The click did what was asked, in session s.
Did(c, s) ==
  /\ panel[c].action \in Launches => <<c, s>> \in effects
  /\ panel[c].action \in Writes => <<c, "write">> \in effects
  /\ panel[c].session # NoSession => s = panel[c].session

\* Nothing of the click is to come.
Closed(c) == host[c].pc \in {"none", "ended"} \/ panel[c].action = Status

\* The attention state that x shows is of the session it names.
Mirrors(c, x) ==
  panel[c].action \in StatusFollows => x.session \in live /\ x.status = x.session

Truthful(c, f) ==
  /\ f.ok => Did(c, f.session) /\ Mirrors(c, f)
  /\ f.mode \in Refusals => Untouched(c) /\ Closed(c)

\* What the exit of a command says is so.
ExitIsTrue(c) ==
  LET k == child[c] IN
  /\ panel[c].action \in Launches /\ k.session # NoSession => Did(c, k.session)
  /\ panel[c].action \in Writes /\ k.outcome = "complete" => <<c, "write">> \in effects
  /\ k.outcome = "candidates" => \A e \in effects : e[1] # c

\* Where a host stands.
HostStands(c) ==
  LET a == panel[c].action
      h == host[c] IN
  /\ panel[c].pc = "idle" \/ a = "other" => h.pc = "none"
  /\ a = Status => h.pc \in {"none", "started", "probe", "reply", "ended"}
  /\ h.pc = "probe" => a = Status
  /\ h.pc = "register" => a = Registration
  /\ h.pc \in {"dispatch", "child", "readback"} => a \in Commands
  /\ h.pc \in Before \/ a = Status => child[c].pc = "none"
  /\ h.pc = "child" => child[c].pc # "none"
  /\ h.pc = "child" /\ child[c].pc = "exited" => ExitIsTrue(c)
  /\ h.pc = "readback" => a \notin Writes /\ Did(c, h.session) /\ h.session # NoSession
  /\ h.pc = "reply" /\ h.mode = "native" => Did(c, h.session) /\ Mirrors(c, h)
  /\ h.pc = "reply" /\ h.mode \in Refusals => Untouched(c)
  /\ child[c].pc # "exited" => \A e \in effects : e[1] # c
  /\ child[c].pc = "running" => h.pc \in {"child", "ended"}
  /\ panel[c].session # NoSession => a = "resume_review"

ClickInv(c) ==
  /\ ClickType(panel[c], host[c], child[c], wire[c])
  /\ Len(wire[c]) <= MostWritten(host[c].pc)
  /\ HostStands(c)
  /\ Truthful(c, panel[c].answer)
  /\ \A n \in DOMAIN wire[c] : wire[c][n] = Progress \/ Truthful(c, wire[c][n])

BridgeIInv ==
  /\ DOMAIN panel = Clicks /\ DOMAIN host = Clicks
  /\ DOMAIN child = Clicks /\ DOMAIN wire = Clicks
  /\ day \in Days /\ live \subseteq SessionIds
  /\ effects \subseteq Clicks \X (SessionIds \cup {"write"})
  /\ \A c \in Clicks : ClickInv(c)

-----------------------------------------------------------------------------
LEMMA InitialBridge == BridgeInit => BridgeIInv
<1> SUFFICES ASSUME BridgeInit PROVE BridgeIInv
  OBVIOUS
<1> USE BridgeConstants DEF BridgeInit
<1>1. day \in Days /\ live \subseteq SessionIds /\ effects = {}
  OBVIOUS
<1>2. ASSUME NEW c \in Clicks PROVE ClickInv(c)
  <2>1. panel[c] = NoClick /\ host[c] = NoHost /\ child[c] = NoChild /\ wire[c] = <<>>
    OBVIOUS
  <2>2. ClickType(panel[c], host[c], child[c], wire[c])
    BY <2>1 DEF ClickType, PanelOf, HostOf, ChildOf, NoClick, NoHost, NoChild, Unanswered, Failure, Reply, Frames,
       Modes, Refusals, Sessions, Before, Commands
  <2>3. Len(wire[c]) <= MostWritten(host[c].pc)
    BY <2>1 DEF MostWritten, NoHost
  <2>4. HostStands(c)
    BY <2>1 DEF HostStands, NoClick, NoHost, NoChild, Before, Refusals
  <2>5. Truthful(c, panel[c].answer)
    BY <2>1 DEF Truthful, NoClick, Unanswered, Failure, Reply, Refusals
  <2> QED BY <2>1, <2>2, <2>3, <2>4, <2>5 DEF ClickInv
<1> QED BY <1>1, <1>2 DEF BridgeIInv

\* What a step about click c may do.
Only(c) ==
  /\ DOMAIN panel' = Clicks /\ DOMAIN host' = Clicks
  /\ DOMAIN child' = Clicks /\ DOMAIN wire' = Clicks
  /\ \A d \in Clicks \ {c} : /\ panel'[d] = panel[d] /\ host'[d] = host[d]
                              /\ child'[d] = child[d] /\ wire'[d] = wire[d]
  /\ day' = day /\ live \subseteq live' /\ live' \subseteq SessionIds
  /\ effects \subseteq effects' /\ effects' \subseteq Clicks \X (SessionIds \cup {"write"})
  /\ \A e \in effects' : e \in effects \/ e[1] = c

\* What is true of a click stays true while a step is about another.
LEMMA OthersStay ==
  ASSUME BridgeIInv, NEW c \in Clicks, Only(c), ClickInv(c)'
  PROVE  BridgeIInv'
<1>1. ASSUME NEW d \in Clicks \ {c} PROVE ClickInv(d)'
  <2>1. /\ panel'[d] = panel[d] /\ host'[d] = host[d]
        /\ child'[d] = child[d] /\ wire'[d] = wire[d]
    BY DEF Only
  <2>2. ClickInv(d)
    BY DEF BridgeIInv
  <2>3. (\A e \in effects : e[1] # d) => (\A e \in effects' : e[1] # d)
    BY DEF Only
  <2>4. effects \subseteq effects'
    BY DEF Only
  <2>5. \A s : Did(d, s) => Did(d, s)'
    BY <2>1, <2>4 DEF Did
  <2>6. (Untouched(d) => Untouched(d)') /\ (Closed(d) => Closed(d)')
    BY <2>1, <2>3 DEF Untouched, Closed
  <2>10. \A x : Mirrors(d, x) => Mirrors(d, x)'
    BY <2>1 DEF Mirrors, Only
  <2>7. \A f : Truthful(d, f) => Truthful(d, f)'
    BY <2>5, <2>6, <2>10 DEF Truthful
  <2>8. ExitIsTrue(d) => ExitIsTrue(d)'
    BY <2>1, <2>3, <2>4, <2>5 DEF ExitIsTrue
  <2>9. HostStands(d)'
    BY <2>1, <2>2, <2>3, <2>5, <2>6, <2>8, <2>10 DEF ClickInv, HostStands
  <2> QED BY <2>1, <2>2, <2>7, <2>9 DEF ClickInv
<1> QED BY <1>1 DEF BridgeIInv, Only

-----------------------------------------------------------------------------
(* The extension's steps                                                     *)

\* An answer that is true settles a click.
LEMMA Settling ==
  ASSUME BridgeIInv, NEW c \in Clicks, NEW f \in Frames, Truthful(c, f),
         panel[c].pc = "waiting", Settle(c, f), UNCHANGED <<day, live, effects, host, child>>
  PROVE  Only(c) /\ ClickInv(c)'
<1> USE DEF Settle
<1>1. ClickInv(c)
  BY DEF BridgeIInv
<1>2. Only(c)
  BY DEF BridgeIInv, Only
<1>3. panel[c] \in PanelOf
  BY <1>1 DEF ClickInv, ClickType
<1>4. /\ panel'[c] = [panel[c] EXCEPT !.pc = "settled", !.acked = FALSE, !.answer = f]
      /\ wire'[c] = <<>>
  BY DEF BridgeIInv
<1>5. /\ panel'[c].pc = "settled" /\ panel'[c].action = panel[c].action
      /\ panel'[c].session = panel[c].session /\ panel'[c].answer = f
      /\ panel'[c] \in PanelOf
  <2>1. PICK p : p = panel[c]
    OBVIOUS
  <2>2. PICK q : q = [p EXCEPT !.pc = "settled", !.acked = FALSE, !.answer = f]
    OBVIOUS
  <2>3. q = panel'[c]
    BY <1>4, <2>1, <2>2
  <2>4. p \in PanelOf
    BY <1>3, <2>1
  <2>5. /\ q.pc = "settled" /\ q.action = p.action /\ q.session = p.session /\ q.answer = f
        /\ q \in PanelOf
    BY <2>2, <2>4 DEF PanelOf
  <2> QED BY <2>1, <2>3, <2>5
<1>6. ClickType(panel[c], host[c], child[c], wire[c])'
  BY <1>1, <1>4, <1>5 DEF ClickInv, ClickType
<1>7. (Len(wire[c]) <= MostWritten(host[c].pc))'
  BY <1>4 DEF MostWritten
<1>8. (\A s : Did(c, s)' <=> Did(c, s)) /\ (Untouched(c)' <=> Untouched(c))
      /\ (Closed(c)' <=> Closed(c)) /\ (\A x : Mirrors(c, x)' <=> Mirrors(c, x))
  BY <1>5 DEF Did, Untouched, Closed, Mirrors
<1>9. HostStands(c)'
  BY <1>1, <1>5, <1>8 DEF ClickInv, HostStands, ExitIsTrue
<1>10. Truthful(c, panel[c].answer)'
  BY <1>5, <1>8 DEF Truthful
<1> QED BY <1>2, <1>4, <1>6, <1>7, <1>9, <1>10 DEF ClickInv

\* What is said when nothing was answered.
LEMMA FallbackTrue ==
  ASSUME BridgeIInv, NEW c \in Clicks
  PROVE  /\ Failure(Fallback(panel[c].action)) \in Frames
         /\ Truthful(c, Failure(Fallback(panel[c].action)))
         /\ Failure("unavailable") \in Frames /\ Truthful(c, Failure("unavailable"))
<1>1. HostStands(c)
  BY DEF BridgeIInv, ClickInv
<1>2. panel[c].action = Status => Untouched(c)
  BY <1>1 DEF HostStands, Untouched
<1> QED BY <1>2 DEF Failure, Fallback, Reply, Frames, Modes, Refusals, Sessions, Truthful, Closed

LEMMA SettlingSteps ==
  ASSUME BridgeIInv, NEW c \in Clicks,
         Disconnected(c) \/ FirstFrameTimeout(c) \/ Timeout(c)
  PROVE  Only(c) /\ ClickInv(c)'
<1>1. PICK f \in {Failure(Fallback(panel[c].action)), Failure("unavailable")} : Settle(c, f)
  BY DEF Disconnected, FirstFrameTimeout, Timeout
<1>2. f \in Frames /\ Truthful(c, f)
  BY <1>1, FallbackTrue
<1> QED BY <1>1, <1>2, Settling DEF Disconnected, FirstFrameTimeout, Timeout

LEMMA ReceiveStep ==
  ASSUME BridgeIInv, NEW c \in Clicks, Receive(c)
  PROVE  Only(c) /\ ClickInv(c)'
<1> USE DEF Receive
<1>1. ClickInv(c)
  BY DEF BridgeIInv
<1>2. wire[c] \in Seq({Progress} \cup Frames) /\ wire[c] # <<>>
  BY <1>1 DEF ClickInv, ClickType
<1>3. CASE Head(wire[c]) = Progress
  <2>1. /\ panel'[c] = [panel[c] EXCEPT !.acked = TRUE]
        /\ wire'[c] = Tail(wire[c])
        /\ \A d \in Clicks \ {c} : panel'[d] = panel[d] /\ wire'[d] = wire[d]
        /\ DOMAIN panel' = Clicks /\ DOMAIN wire' = Clicks
    BY <1>3 DEF BridgeIInv
  <2>2. Only(c)
    BY <2>1 DEF BridgeIInv, Only
  <2>3. /\ Len(wire'[c]) <= Len(wire[c])
        /\ wire'[c] \in Seq({Progress} \cup Frames)
        /\ \A n \in DOMAIN wire'[c] : n + 1 \in DOMAIN wire[c] /\ wire'[c][n] = wire[c][n + 1]
    BY <1>2, <2>1
  <2>4. panel[c] \in PanelOf
    BY <1>1 DEF ClickInv, ClickType
  <2>5. /\ panel'[c].pc = panel[c].pc /\ panel'[c].action = panel[c].action
        /\ panel'[c].session = panel[c].session /\ panel'[c].answer = panel[c].answer
        /\ panel'[c] \in PanelOf
    BY <2>1, <2>4 DEF PanelOf
  <2>6. ClickType(panel[c], host[c], child[c], wire[c])'
    BY <1>1, <2>3, <2>5 DEF ClickInv, ClickType
  <2>7. (Len(wire[c]) <= MostWritten(host[c].pc))'
    <3>1. MostWritten(host[c].pc) \in Nat /\ MostWritten(host[c].pc)' = MostWritten(host[c].pc)
      BY DEF MostWritten
    <3> QED BY <1>1, <1>2, <2>3, <3>1 DEF ClickInv
  <2>8. (\A s : Did(c, s)' <=> Did(c, s)) /\ (Untouched(c)' <=> Untouched(c))
        /\ (Closed(c)' <=> Closed(c)) /\ (\A x : Mirrors(c, x)' <=> Mirrors(c, x))
    BY <2>5 DEF Did, Untouched, Closed, Mirrors
  <2>9. HostStands(c)'
    BY <1>1, <2>5, <2>8 DEF ClickInv, HostStands, ExitIsTrue
  <2>10. \A f : Truthful(c, f)' <=> Truthful(c, f)
    BY <2>8 DEF Truthful
  <2>11. (\A n \in DOMAIN wire[c] : wire[c][n] = Progress \/ Truthful(c, wire[c][n]))'
    BY <1>1, <2>3, <2>10 DEF ClickInv
  <2> QED BY <1>1, <2>2, <2>5, <2>6, <2>7, <2>9, <2>10, <2>11 DEF ClickInv
<1>4. CASE Head(wire[c]) # Progress
  <2>1. PICK f : f = Head(wire[c])
    OBVIOUS
  <2>2. f \in Frames /\ 1 \in DOMAIN wire[c] /\ f = wire[c][1]
    BY <1>2, <1>4, <2>1
  <2>3. Truthful(c, f)
    BY <1>1, <1>4, <2>1, <2>2 DEF ClickInv
  <2>4. Settle(c, f)
    BY <1>4, <2>1
  <2> QED BY <2>2, <2>3, <2>4, Settling
<1> QED BY <1>3, <1>4

LEMMA ClickStep ==
  ASSUME BridgeIInv, NEW c \in Clicks, Click(c)
  PROVE  Only(c) /\ ClickInv(c)'
<1>1. ClickInv(c)
  BY DEF BridgeIInv
<1>2. PICK action \in day[c], complete \in BOOLEAN, session \in live \cup {NoSession} :
        /\ session # NoSession => action = "resume_review"
        /\ LET asked == [NoClick EXCEPT !.action = action, !.complete = complete,
                                        !.session = session]
           IN \/ /\ action = "other"
                 /\ panel' = [panel EXCEPT ![c] =
                      [asked EXCEPT !.pc = "settled", !.answer = Failure("invalid_request")]]
                 /\ UNCHANGED host
              \/ /\ action # "other"
                 /\ panel' = [panel EXCEPT ![c] =
                      [asked EXCEPT !.pc = "settled", !.answer = Failure(Fallback(action))]]
                 /\ UNCHANGED host
              \/ /\ action # "other"
                 /\ panel' = [panel EXCEPT ![c] = [asked EXCEPT !.pc = "waiting"]]
                 /\ host' = [host EXCEPT ![c].pc = "started"]
  BY ZenonT(60) DEF Click
<1>3. /\ panel[c].pc = "idle" /\ UNCHANGED <<day, live, effects, child, wire>>
      /\ DOMAIN panel' = Clicks /\ DOMAIN host' = Clicks
      /\ \A d \in Clicks \ {c} : panel'[d] = panel[d] /\ host'[d] = host[d]
  BY <1>2 DEF BridgeIInv, Click
<1>4. Only(c)
  BY <1>3 DEF BridgeIInv, Only
<1>5. /\ host[c] \in HostOf /\ host[c].pc = "none" /\ child[c].pc = "none"
      /\ \A e \in effects : e[1] # c
      /\ wire[c] = <<>>
  <2>1. host[c].pc = "none" /\ child[c].pc = "none" /\ \A e \in effects : e[1] # c
    BY <1>1, <1>3 DEF ClickInv, HostStands, Before
  <2>2. Len(wire[c]) <= 0 /\ wire[c] \in Seq({Progress} \cup Frames)
    BY <1>1, <2>1 DEF ClickInv, ClickType, MostWritten
  <2> QED BY <1>1, <2>1, <2>2 DEF ClickInv, ClickType
<1>6. /\ action \in Commands \cup {Registration, Status, "other"}
      /\ session \in Sessions
  <2>1. day[c] \subseteq SUPPORTED_ACTIONS \cup {Registration, Status, "other"}
    BY BridgeConstants DEF BridgeIInv
  <2> QED BY <2>1 DEF BridgeIInv, SUPPORTED_ACTIONS, Commands, Sessions
<1>7. \E p \in PanelOf :
        /\ panel'[c] = p /\ p.action = action /\ p.session = session
        /\ \/ /\ p.pc = "settled" /\ host'[c] = host[c]
              /\ \/ p.answer = Failure(Fallback(action))
                 \/ p.answer = Failure("invalid_request")
           \/ /\ p.pc = "waiting" /\ host'[c] = [host[c] EXCEPT !.pc = "started"]
              /\ p.answer = Unanswered /\ action # "other"
  <2>1. PICK asked : asked = [NoClick EXCEPT !.action = action, !.complete = complete,
                                             !.session = session]
    OBVIOUS
  <2>2. /\ asked \in PanelOf /\ asked.action = action /\ asked.session = session
        /\ asked.answer = Unanswered
    BY <1>6, <2>1 DEF NoClick, PanelOf, Unanswered, Failure, Reply, Frames, Modes, Sessions
  <2>3. Failure("invalid_request") \in Frames /\ Failure(Fallback(action)) \in Frames
    BY DEF Failure, Fallback, Reply, Frames, Modes, Refusals, Sessions
  <2>4. ASSUME NEW f \in Frames, panel'[c] = [asked EXCEPT !.pc = "settled", !.answer = f]
        PROVE  /\ panel'[c] \in PanelOf /\ panel'[c].action = action
               /\ panel'[c].session = session /\ panel'[c].pc = "settled"
               /\ panel'[c].answer = f
    BY <2>2, <2>4 DEF PanelOf
  <2>5. ASSUME panel'[c] = [asked EXCEPT !.pc = "waiting"]
        PROVE  /\ panel'[c] \in PanelOf /\ panel'[c].action = action
               /\ panel'[c].session = session /\ panel'[c].pc = "waiting"
               /\ panel'[c].answer = Unanswered
    BY <2>2, <2>5 DEF PanelOf
  <2>6. \/ /\ panel'[c] = [asked EXCEPT !.pc = "settled", !.answer = Failure("invalid_request")]
           /\ host'[c] = host[c]
        \/ /\ panel'[c] = [asked EXCEPT !.pc = "settled", !.answer = Failure(Fallback(action))]
           /\ host'[c] = host[c]
        \/ /\ panel'[c] = [asked EXCEPT !.pc = "waiting"] /\ action # "other"
           /\ host'[c] = [host[c] EXCEPT !.pc = "started"]
    BY <1>2, <2>1 DEF BridgeIInv
  <2> QED BY <2>3, <2>4, <2>5, <2>6
<1>8. PICK p \in PanelOf :
        /\ panel'[c] = p /\ p.action = action /\ p.session = session
        /\ \/ /\ p.pc = "settled" /\ host'[c] = host[c]
              /\ \/ p.answer = Failure(Fallback(action))
                 \/ p.answer = Failure("invalid_request")
           \/ /\ p.pc = "waiting" /\ host'[c] = [host[c] EXCEPT !.pc = "started"]
              /\ p.answer = Unanswered /\ action # "other"
  BY <1>7
<1>9. /\ host'[c] \in HostOf
      /\ \/ host'[c].pc = "none"
         \/ host'[c].pc = "started" /\ p.pc = "waiting" /\ p.action # "other"
            /\ p.answer = Unanswered
  BY <1>5, <1>8 DEF HostOf, Before
<1>10. ClickType(panel[c], host[c], child[c], wire[c])'
  BY <1>1, <1>3, <1>8, <1>9 DEF ClickInv, ClickType
<1>11. (Len(wire[c]) <= MostWritten(host[c].pc))'
  BY <1>3, <1>5, <1>9 DEF MostWritten
<1>12. HostStands(c)'
  <2>1. child'[c].pc = "none" /\ (\A e \in effects' : e[1] # c)
    BY <1>3, <1>5
  <2> QED BY <1>2, <1>8, <1>9, <2>1 DEF HostStands, Before
<1>13. Truthful(c, panel[c].answer)'
  <2>1. Untouched(c)'
    BY <1>3, <1>5 DEF Untouched
  <2>2. ~p.answer.ok /\ (p.answer = Unanswered => p.answer.mode \notin Refusals)
    BY <1>8 DEF Unanswered, Failure, Reply, Refusals
  <2>3. host'[c].pc = "none" \/ p.answer = Unanswered
    BY <1>9
  <2> QED BY <1>8, <2>1, <2>2, <2>3 DEF Truthful, Closed
<1>14. wire'[c] = <<>>
  BY <1>3, <1>5
<1> QED BY <1>4, <1>10, <1>11, <1>12, <1>13, <1>14 DEF ClickInv

-----------------------------------------------------------------------------
(* The host's steps                                                          *)

\* The host of c goes to h, its child to k, and f may be written.
HostMove(c, h, k, f) ==
  /\ UNCHANGED <<day, live, effects, panel>>
  /\ host[c].pc \notin {"none", "ended"}
  /\ host' = [host EXCEPT ![c] = h]
  /\ (child' = child /\ k = child[c]) \/ child' = [child EXCEPT ![c] = k]
  /\ k.pc = "running" => child[c].pc = "running" \/ panel[c].action # Status
  /\ \/ wire' = wire /\ MostWritten(host[c].pc) <= MostWritten(h.pc)
     \/ /\ wire' = [wire EXCEPT ![c] = Append(wire[c], f)]
        /\ MostWritten(host[c].pc) < MostWritten(h.pc)

\* A host's step keeps what was said true, if what it says is.
LEMMA HostMoves ==
  ASSUME BridgeIInv, NEW c \in Clicks, NEW h \in HostOf, NEW k \in ChildOf,
         NEW f \in {Progress} \cup Frames, HostMove(c, h, k, f),
         f = Progress \/ Truthful(c, f)', HostStands(c)'
  PROVE  Only(c) /\ ClickInv(c)'
<1> USE DEF HostMove
<1>1. ClickInv(c)
  BY DEF BridgeIInv
<1>2. host'[c] = h /\ child'[c] = k /\ panel'[c] = panel[c]
  BY DEF BridgeIInv
<1>3. /\ wire[c] \in Seq({Progress} \cup Frames)
      /\ \/ wire'[c] = wire[c] /\ MostWritten(host[c].pc) <= MostWritten(h.pc)
         \/ wire'[c] = Append(wire[c], f) /\ MostWritten(host[c].pc) < MostWritten(h.pc)
  BY <1>1 DEF BridgeIInv, ClickInv, ClickType
<1>4. Only(c)
  BY DEF BridgeIInv, Only
<1>5. ClickType(panel[c], host[c], child[c], wire[c])'
  <2>1. wire'[c] \in Seq({Progress} \cup Frames)
    BY <1>3
  <2> QED BY <1>1, <1>2, <2>1 DEF ClickInv, ClickType
<1>6. (Len(wire[c]) <= MostWritten(host[c].pc))'
  <2>1. MostWritten(host[c].pc) \in Nat /\ MostWritten(h.pc) \in Nat
    BY DEF MostWritten
  <2>2. MostWritten(host[c].pc)' = MostWritten(h.pc)
    BY <1>2
  <2>3. Len(wire[c]) <= MostWritten(host[c].pc) /\ Len(wire[c]) \in Nat
    BY <1>1, <1>3 DEF ClickInv
  <2>4. Len(wire'[c]) = Len(wire[c]) \/ Len(wire'[c]) = Len(wire[c]) + 1
    BY <1>3
  <2>5. Len(wire'[c]) = Len(wire[c]) \/ MostWritten(host[c].pc) < MostWritten(h.pc)
    BY <1>3
  <2>6. MostWritten(host[c].pc) <= MostWritten(h.pc)
    BY <1>3, <2>1
  <2> QED BY <2>1, <2>2, <2>3, <2>4, <2>5, <2>6
<1>7. ASSUME NEW g PROVE Truthful(c, g) => Truthful(c, g)'
  <2>1. \A s : Did(c, s) => Did(c, s)'
    BY <1>2 DEF Did
  <2>2. Untouched(c) /\ Closed(c) => Untouched(c)' /\ Closed(c)'
    BY <1>2 DEF Untouched, Closed
  <2>3. \A x : Mirrors(c, x) => Mirrors(c, x)'
    BY <1>2 DEF Mirrors
  <2> QED BY <2>1, <2>2, <2>3 DEF Truthful
<1>8. Truthful(c, panel[c].answer)'
  BY <1>1, <1>2, <1>7 DEF ClickInv
<1>9. (\A n \in DOMAIN wire[c] : wire[c][n] = Progress \/ Truthful(c, wire[c][n]))'
  <2>1. ASSUME NEW n \in DOMAIN wire'[c]
        PROVE  \/ n \in DOMAIN wire[c] /\ wire'[c][n] = wire[c][n]
               \/ wire'[c][n] = f
    BY <1>3
  <2> QED BY <1>1, <1>7, <2>1 DEF ClickInv
<1> QED BY <1>4, <1>5, <1>6, <1>8, <1>9 DEF ClickInv

\* What a host's step leaves is a host.
LEMMA HostIsTyped ==
  ASSUME BridgeIInv, NEW c \in Clicks
  PROVE  /\ host[c] \in HostOf /\ child[c] \in ChildOf /\ HostStands(c)
         /\ \A pc \in Before \cup {"child", "readback", "reply"} :
              [host[c] EXCEPT !.pc = pc] \in HostOf
         /\ \A mode \in Modes : [host[c] EXCEPT !.pc = "reply", !.mode = mode] \in HostOf
         /\ [NoHost EXCEPT !.pc = "ended"] \in HostOf
<1>1. host[c] \in HostOf /\ child[c] \in ChildOf /\ HostStands(c)
  BY DEF BridgeIInv, ClickInv, ClickType
<1>2. PICK h \in HostOf : h = host[c]
  BY <1>1
<1>3. \A pc \in Before \cup {"child", "readback", "reply"} : [h EXCEPT !.pc = pc] \in HostOf
  BY DEF HostOf
<1>4. \A mode \in Modes : [h EXCEPT !.pc = "reply", !.mode = mode] \in HostOf
  BY DEF HostOf
<1>5. [NoHost EXCEPT !.pc = "ended"] \in HostOf
  BY DEF HostOf, NoHost, Modes, Sessions
<1> QED BY <1>1, <1>2, <1>3, <1>4, <1>5

\* The host of c ends, and f may be its last word.
Ends(c, f) ==
  /\ UNCHANGED <<day, live, effects, panel, child>>
  /\ host[c].pc \notin {"none", "ended"}
  /\ HostTo(c, "ended")
  /\ wire' \in {wire, [wire EXCEPT ![c] = Append(wire[c], f)]}

LEMMA HostEnds ==
  ASSUME BridgeIInv, NEW c \in Clicks, NEW f \in {Progress} \cup Frames,
         Ends(c, f), f = Progress \/ Truthful(c, f)'
  PROVE  Only(c) /\ ClickInv(c)'
<1> USE DEF Ends
<1>1. PICK h : h = [NoHost EXCEPT !.pc = "ended"]
  OBVIOUS
<1>2. h \in HostOf /\ h.pc = "ended"
  BY <1>1, HostIsTyped DEF NoHost
<1>3. host' = [host EXCEPT ![c] = h] /\ host'[c] = h
  BY <1>1 DEF HostTo, BridgeIInv
<1>4. HostStands(c)'
  <2>1. /\ HostStands(c) /\ panel'[c] = panel[c] /\ child'[c] = child[c]
        /\ effects' = effects
    BY HostIsTyped
  <2> QED BY <1>2, <1>3, <2>1 DEF HostStands, Before
<1>5. HostMove(c, h, child[c], f)
  <2>1. MostWritten(h.pc) = 3 /\ MostWritten(host[c].pc) \in 0..2
    BY <1>2 DEF MostWritten
  <2> QED BY <1>3, <2>1 DEF HostMove
<1> QED BY <1>2, <1>4, <1>5, HostIsTyped, HostMoves

\* The host of c goes on to h, and may tell of it.
GoesOn(c, h) ==
  /\ UNCHANGED <<day, live, effects, panel, child>>
  /\ host[c].pc \notin {"none", "ended"}
  /\ host' = [host EXCEPT ![c] = h]
  /\ \/ wire' = wire /\ MostWritten(host[c].pc) <= MostWritten(h.pc)
     \/ /\ wire' = [wire EXCEPT ![c] = Append(wire[c], Progress)]
        /\ MostWritten(host[c].pc) < MostWritten(h.pc)

LEMMA HostGoesOn ==
  ASSUME BridgeIInv, NEW c \in Clicks, NEW h \in HostOf, GoesOn(c, h), HostStands(c)'
  PROVE  Only(c) /\ ClickInv(c)'
<1>1. HostMove(c, h, child[c], Progress)
  BY DEF HostMove, GoesOn
<1> QED BY <1>1, HostIsTyped, HostMoves

LEMMA ReadMessageStep ==
  ASSUME BridgeIInv, NEW c \in Clicks, ReadMessage(c)
  PROVE  Only(c) /\ ClickInv(c)'
<1>1. /\ host[c].pc = "started" /\ UNCHANGED <<day, live, effects, panel, child>>
      /\ panel'[c] = panel[c] /\ child'[c] = child[c] /\ effects' = effects
  BY DEF ReadMessage
<1>2. MostWritten("started") = 0 /\ MostWritten("probe") = 0 /\ MostWritten("preflight") = 1
      /\ MostWritten("reply") = 2
  BY DEF MostWritten
<1>3. CASE Answers(c, "unreadable") /\ wire' = wire
  <2>1. PICK h \in HostOf : h = [host[c] EXCEPT !.pc = "reply", !.mode = "unreadable"]
    BY HostIsTyped DEF Modes, Refusals
  <2>2. h.pc = "reply" /\ h.mode = "unreadable" /\ h.session = host[c].session
    BY <2>1, HostIsTyped DEF HostOf
  <2>3. host' = [host EXCEPT ![c] = h] /\ host'[c] = h
    BY <1>3, <2>1 DEF Answers, BridgeIInv
  <2>4. HostStands(c)'
    BY <1>1, <2>2, <2>3, HostIsTyped DEF HostStands, Before, Untouched, Commands, Launches, Reads, Writes
  <2>5. GoesOn(c, h)
    BY <1>1, <1>2, <1>3, <2>2, <2>3 DEF GoesOn
  <2> QED BY <2>4, <2>5, HostGoesOn
<1>4. ASSUME NEW pc \in {"probe", "preflight"}, HostTo(c, pc),
             (pc = "probe") <=> (panel[c].action = Status),
             \/ wire' = wire /\ pc = "probe"
             \/ wire' = [wire EXCEPT ![c] = Append(wire[c], Progress)] /\ pc = "preflight"
      PROVE  Only(c) /\ ClickInv(c)'
  <2>1. PICK h \in HostOf : h = [host[c] EXCEPT !.pc = pc]
    BY HostIsTyped DEF Before
  <2>2. h.pc = pc
    BY <2>1, HostIsTyped DEF HostOf
  <2>3. host' = [host EXCEPT ![c] = h] /\ host'[c] = h
    BY <1>4, <2>1 DEF HostTo, BridgeIInv
  <2>4. HostStands(c)'
    BY <1>1, <1>4, <2>2, <2>3, HostIsTyped DEF HostStands, Before
  <2>5. GoesOn(c, h)
    BY <1>1, <1>2, <1>4, <2>2, <2>3 DEF GoesOn
  <2> QED BY <2>4, <2>5, HostGoesOn
<1>5. CASE HostTo(c, "ended") /\ wire' = wire
  <2>1. Ends(c, Progress)
    BY <1>1, <1>5 DEF Ends
  <2> QED BY <2>1, HostEnds
<1>6. CASE panel[c].action = Status /\ HostTo(c, "probe") /\ wire' = wire
  BY <1>4, <1>6
<1>7. CASE panel[c].action # Status /\ Write(c, Progress) /\ HostTo(c, "preflight")
  BY <1>4, <1>7 DEF Write
<1> QED BY <1>3, <1>5, <1>6, <1>7 DEF ReadMessage

\* What a status probe is answered.
LEMMA ProbeSteps ==
  ASSUME BridgeIInv, NEW c \in Clicks, AnswerProbe(c) \/ ProbeWithoutStore(c)
  PROVE  Only(c) /\ ClickInv(c)'
<1>1. /\ host[c].pc = "probe" /\ UNCHANGED <<day, live, effects, panel, child>>
      /\ HostTo(c, "ended")
  BY DEF AnswerProbe, ProbeWithoutStore
<1>2. PICK f \in Frames :
        /\ \/ f = Failure("launch_only")
           \/ f.ok /\ f.mode \notin Refusals
        /\ wire' \in {wire, [wire EXCEPT ![c] = Append(wire[c], f)]}
  <2>1. Failure("launch_only") \in Frames
    BY DEF Failure, Reply, Frames, Modes, Refusals, Sessions
  <2>2. \A m \in {"bounded_status", "session_inventory", "no_local_session"},
           s, t \in Sessions :
             /\ Reply(TRUE, m, s, t) \in Frames
             /\ Reply(TRUE, m, s, t).ok /\ Reply(TRUE, m, s, t).mode \notin Refusals
    BY DEF Reply, Frames, Modes, Refusals
  <2>3. live \subseteq Sessions /\ NoSession \in Sessions
    BY DEF BridgeIInv, Sessions
  <2>4. CASE AnswerProbe(c)
    <3>1. PICK found \in {<<"no_local_session", NoSession>>} \cup
                         ({"bounded_status", "session_inventory"} \X live) :
            LET frame == Reply(TRUE, found[1], found[2],
                               IF found[1] = "bounded_status" THEN found[2] ELSE NoSession)
            IN wire' = IF Open(c) THEN [wire EXCEPT ![c] = Append(@, frame)] ELSE wire
      BY <2>4 DEF AnswerProbe
    <3>2. /\ found[1] \in {"bounded_status", "session_inventory", "no_local_session"}
          /\ found[2] \in Sessions
      BY <2>3
    <3>6. PICK t \in Sessions :
            t = IF found[1] = "bounded_status" THEN found[2] ELSE NoSession
      BY <2>3, <3>2
    <3>3. PICK f : f = Reply(TRUE, found[1], found[2], t)
      OBVIOUS
    <3>4. f \in Frames /\ f.ok /\ f.mode \notin Refusals
      BY <2>2, <3>2, <3>3, <3>6
    <3>5. wire' \in {wire, [wire EXCEPT ![c] = Append(wire[c], f)]}
      BY <3>1, <3>3, <3>6
    <3> QED BY <3>4, <3>5
  <2>5. CASE ProbeWithoutStore(c)
    BY <2>1, <2>5 DEF ProbeWithoutStore
  <2> QED BY <2>4, <2>5
<1>3. Truthful(c, f)'
  <2>1. panel'[c] = panel[c] /\ panel[c].action = Status /\ HostStands(c)
    BY <1>1, HostIsTyped DEF HostStands
  <2>2. child'[c].pc = "none" /\ \A e \in effects' : e[1] # c
    BY <1>1, <2>1 DEF HostStands, Before
  <2>3. Untouched(c)' /\ Closed(c)'
    BY <2>1, <2>2 DEF Untouched, Closed
  <2>4. /\ Status \notin Launches \cup Writes \cup StatusFollows
        /\ panel[c].session # NoSession => FALSE
    BY <2>1 DEF Status, Launches, Writes, HostStands, StatusFollows
  <2>5. (\A s : Did(c, s)') /\ Mirrors(c, f)'
    BY <2>1, <2>4 DEF Did, Mirrors
  <2> QED BY <2>3, <2>5 DEF Truthful
<1>4. Ends(c, f)
  BY <1>1, <1>2 DEF Ends
<1> QED BY <1>3, <1>4, HostEnds

LEMMA PreflightStep ==
  ASSUME BridgeIInv, NEW c \in Clicks, Preflight(c)
  PROVE  Only(c) /\ ClickInv(c)'
<1>1. /\ host[c].pc = "preflight" /\ UNCHANGED <<day, live, effects, panel, child>>
      /\ panel'[c] = panel[c] /\ child'[c] = child[c] /\ effects' = effects
  BY DEF Preflight
<1>2. MostWritten("preflight") = 1 /\ MostWritten("register") = 2 /\ MostWritten("dispatch") = 2
      /\ MostWritten("reply") = 2
  BY DEF MostWritten
<1>3. /\ panel[c].action \in Commands \cup {Registration}
      /\ child[c].pc = "none" /\ (\A e \in effects : e[1] # c)
  <2>1. panel[c] \in PanelOf
    BY DEF BridgeIInv, ClickInv, ClickType
  <2>2. panel[c].action \in Commands \cup {Registration, Status, "other"}
    BY <2>1 DEF PanelOf
  <2> QED BY <1>1, <2>2, HostIsTyped DEF HostStands, Before
<1>4. CASE panel[c].action # Registration /\ Answers(c, "preflight_failed") /\ wire' = wire
  <2>1. PICK h \in HostOf : h = [host[c] EXCEPT !.pc = "reply", !.mode = "preflight_failed"]
    BY HostIsTyped DEF Modes, Refusals
  <2>2. h.pc = "reply" /\ h.mode = "preflight_failed"
    BY <2>1, HostIsTyped DEF HostOf
  <2>3. host' = [host EXCEPT ![c] = h] /\ host'[c] = h
    BY <1>4, <2>1 DEF Answers, BridgeIInv
  <2>4. HostStands(c)'
    BY <1>1, <1>3, <2>2, <2>3, HostIsTyped DEF HostStands, Before, Untouched
  <2>5. GoesOn(c, h)
    BY <1>1, <1>2, <1>4, <2>2, <2>3 DEF GoesOn
  <2> QED BY <2>4, <2>5, HostGoesOn
<1>5. ASSUME NEW pc \in {"register", "dispatch"}, HostTo(c, pc),
             (pc = "register") <=> (panel[c].action = Registration),
             wire' \in {wire, [wire EXCEPT ![c] = Append(wire[c], Progress)]}
      PROVE  Only(c) /\ ClickInv(c)'
  <2>1. PICK h \in HostOf : h = [host[c] EXCEPT !.pc = pc]
    BY HostIsTyped DEF Before
  <2>2. h.pc = pc
    BY <2>1, HostIsTyped DEF HostOf
  <2>3. host' = [host EXCEPT ![c] = h] /\ host'[c] = h
    BY <1>5, <2>1 DEF HostTo, BridgeIInv
  <2>4. HostStands(c)'
    BY <1>1, <1>3, <1>5, <2>2, <2>3, HostIsTyped DEF HostStands, Before
  <2>5. GoesOn(c, h)
    BY <1>1, <1>2, <1>5, <2>2, <2>3 DEF GoesOn
  <2> QED BY <2>4, <2>5, HostGoesOn
<1>6. CASE panel[c].action = Registration /\ HostTo(c, "register") /\ wire' = wire
  BY <1>5, <1>6
<1>7. CASE /\ Write(c, Progress)
           /\ HostTo(c, IF panel[c].action = Registration THEN "register" ELSE "dispatch")
  <2>1. PICK pc \in {"register", "dispatch"} :
          pc = IF panel[c].action = Registration THEN "register" ELSE "dispatch"
    OBVIOUS
  <2> QED BY <1>5, <1>7, <2>1 DEF Write
<1>8. CASE HostTo(c, "ended") /\ wire' = wire
  <2>1. Ends(c, Progress)
    BY <1>1, <1>8 DEF Ends
  <2> QED BY <2>1, HostEnds
<1> QED BY <1>4, <1>6, <1>7, <1>8 DEF Preflight

\* The host of c comes to its reply.
LEMMA Answering ==
  ASSUME BridgeIInv, NEW c \in Clicks, NEW mode \in Modes, Answers(c, mode)
  PROVE  \E h \in HostOf : /\ host' = [host EXCEPT ![c] = h] /\ host'[c] = h
                           /\ h.pc = "reply" /\ h.mode = mode /\ h.session = host[c].session
<1>1. PICK h \in HostOf : h = [host[c] EXCEPT !.pc = "reply", !.mode = mode]
  BY HostIsTyped
<1>2. h.pc = "reply" /\ h.mode = mode /\ h.session = host[c].session
  BY <1>1, HostIsTyped DEF HostOf
<1>3. host' = [host EXCEPT ![c] = h] /\ host'[c] = h
  BY <1>1 DEF Answers, BridgeIInv
<1> QED BY <1>2, <1>3

LEMMA RegisterStep ==
  ASSUME BridgeIInv, NEW c \in Clicks, Register(c)
  PROVE  Only(c) /\ ClickInv(c)'
<1>1. /\ host[c].pc = "register" /\ UNCHANGED <<day, live, effects, panel, child, wire>>
      /\ panel'[c] = panel[c] /\ child'[c] = child[c] /\ effects' = effects
  BY DEF Register
<1>2. PICK mode \in {"native", "refused"} : Answers(c, mode)
  BY DEF Register
<1>3. PICK h \in HostOf : /\ host' = [host EXCEPT ![c] = h] /\ host'[c] = h
                          /\ h.pc = "reply" /\ h.mode = mode
  BY <1>2, Answering DEF Modes
<1>4. HostStands(c)'
  <2>1. /\ panel[c].action = Registration /\ panel[c].session = NoSession
        /\ Registration \notin Launches \cup Writes \cup StatusFollows
    BY <1>1, HostIsTyped DEF HostStands, Registration, Launches, Writes, StatusFollows
  <2>2. (\A s : Did(c, s)') /\ Mirrors(c, h)'
    BY <1>1, <2>1 DEF Did, Mirrors
  <2> QED BY <1>1, <1>3, <2>2, HostIsTyped DEF HostStands, Before, Refusals
<1>5. GoesOn(c, h)
  BY <1>1, <1>3 DEF GoesOn, MostWritten
<1> QED BY <1>4, <1>5, HostGoesOn

\* Reading the session back writes nothing: as many frames may be out after it as before.
LEMMA NoneBeforeTheReply == MostWritten("readback") <= MostWritten("reply")
<1>1. MostWritten("readback") = 2 /\ MostWritten("reply") = 2
  BY DEF MostWritten
<1>2. PICK n \in Nat : n = 2
  OBVIOUS
<1> QED BY <1>1, <1>2

LEMMA ReadbackStep ==
  ASSUME BridgeIInv, NEW c \in Clicks, Readback(c)
  PROVE  Only(c) /\ ClickInv(c)'
<1>1. /\ host[c].pc = "readback" /\ UNCHANGED <<day, live, effects, panel, child, wire>>
      /\ panel'[c] = panel[c] /\ child'[c] = child[c] /\ effects' = effects
  BY DEF Readback
<1>2. PICK outcome \in {"not started", "unreadable", "complete", "blocked", "error"},
           named \in live \cup {NoSession} :
        LET mode == AfterStatus(outcome, named, host[c].session)
        IN host' = [host EXCEPT ![c].pc = "reply", ![c].mode = mode,
                    ![c].status = IF mode = "native" THEN named ELSE NoSession]
  <2>1. PICK outcome \in {"not started", "unreadable", "complete", "blocked", "error"},
             read \in live \cup {NoSession} :
          LET told == IF outcome = "complete" THEN read ELSE NoSession
              mode == AfterStatus(outcome, told, host[c].session)
          IN host' = [host EXCEPT ![c].pc = "reply", ![c].mode = mode,
                      ![c].status = IF mode = "native" THEN told ELSE NoSession]
    BY DEF Readback
  <2>2. PICK told \in live \cup {NoSession} :
          told = IF outcome = "complete" THEN read ELSE NoSession
    OBVIOUS
  <2> QED BY <2>1, <2>2
<1>6. PICK mode : mode = AfterStatus(outcome, named, host[c].session)
  OBVIOUS
<1>7. /\ mode \in {"native", "cli_spawn_failed", "robot_schema_mismatch", "cli_outcome_not_safe"}
      /\ mode = "native" => named = host[c].session
  BY <1>6 DEF AfterStatus
<1>8. PICK t \in Sessions : t = IF mode = "native" THEN named ELSE NoSession
  BY DEF BridgeIInv, Sessions
<1>9. PICK h : h = [host[c] EXCEPT !.pc = "reply", !.mode = mode, !.status = t]
  OBVIOUS
<1>10. /\ h \in HostOf /\ h.pc = "reply" /\ h.mode = mode /\ h.status = t
       /\ h.session = host[c].session
  <2>1. PICK g \in HostOf : g = host[c]
    BY HostIsTyped
  <2>2. h = [g EXCEPT !.pc = "reply", !.mode = mode, !.status = t]
    BY <1>9, <2>1
  <2>3. mode \in Modes
    BY <1>7 DEF Modes
  <2>4. /\ h \in HostOf /\ h.pc = "reply" /\ h.mode = mode /\ h.status = t
        /\ h.session = g.session
    BY <2>2, <2>3 DEF HostOf
  <2> QED BY <2>1, <2>4
<1>3. host' = [host EXCEPT ![c] = h] /\ host'[c] = h
  BY <1>2, <1>6, <1>8, <1>9 DEF BridgeIInv
<1>4. HostStands(c)'
  <2>1. /\ Did(c, host[c].session) /\ panel[c].action # Status
        /\ host[c].session \in Sessions \ {NoSession}
    BY <1>1, HostIsTyped DEF HostStands, HostOf
  <2>2. Did(c, h.session)'
    BY <1>1, <1>10, <2>1 DEF Did
  <2>3. mode = "native" => Mirrors(c, h)'
    BY <1>1, <1>3, <1>7, <1>8, <1>10, <2>1 DEF Mirrors
  <2> QED BY <1>1, <1>3, <1>7, <1>10, <2>1, <2>2, <2>3, HostIsTyped
          DEF HostStands, Before, Refusals
<1>5. GoesOn(c, h)
  <2>1. MostWritten(host[c].pc) <= MostWritten(h.pc)
    <3>1. host[c].pc = "readback" /\ h.pc = "reply"
      BY <1>1, <1>10
    <3> QED BY ONLY <3>1, NoneBeforeTheReply
  <2>2. host[c].pc \notin {"none", "ended"}
    BY <1>1
  <2>3. UNCHANGED <<day, live, effects, panel, child>> /\ wire' = wire
    BY <1>1
  <2>4. host' = [host EXCEPT ![c] = h]
    BY <1>3
  <2> QED BY <2>1, <2>2, <2>3, <2>4 DEF GoesOn
<1> QED BY <1>4, <1>5, <1>10, HostGoesOn

\* The reply is what was done.
LEMMA WriteReplyStep ==
  ASSUME BridgeIInv, NEW c \in Clicks, WriteReply(c)
  PROVE  Only(c) /\ ClickInv(c)'
<1>1. /\ host[c].pc = "reply" /\ UNCHANGED <<day, live, effects, panel, child>>
      /\ panel'[c] = panel[c] /\ child'[c] = child[c] /\ effects' = effects
      /\ HostTo(c, "ended")
  BY DEF WriteReply
<1>2. PICK ok \in BOOLEAN : ok = (host[c].mode = "native")
  OBVIOUS
<1>4. PICK f : f = IF ok THEN Reply(TRUE, "native", host[c].session, host[c].status)
                   ELSE Failure(host[c].mode)
  OBVIOUS
<1>5. /\ f \in Frames /\ f.ok = ok /\ f.mode = host[c].mode
      /\ ok => f.session = host[c].session /\ f.status = host[c].status
  <2>1. /\ host[c].mode \in Modes /\ host[c].session \in Sessions
        /\ host[c].status \in Sessions /\ NoSession \in Sessions
    BY HostIsTyped DEF HostOf, Sessions
  <2> QED BY <1>2, <1>4, <2>1 DEF Reply, Failure, Frames
<1>6. wire' \in {wire, [wire EXCEPT ![c] = Append(wire[c], f)]}
  BY <1>2, <1>4 DEF WriteReply
<1>7. Truthful(c, f)'
  <2>1. ok => Did(c, f.session) /\ Mirrors(c, host[c])
    BY <1>1, <1>2, <1>5, HostIsTyped DEF HostStands
  <2>2. f.mode \in Refusals => Untouched(c)
    BY <1>1, <1>5, HostIsTyped DEF HostStands
  <2>3. host'[c].pc = "ended"
    BY <1>1 DEF HostTo, NoHost, BridgeIInv
  <2>4. /\ Did(c, f.session) => Did(c, f.session)'
        /\ Untouched(c) => Untouched(c)'
        /\ Closed(c)'
    BY <1>1, <2>3 DEF Did, Untouched, Closed
  <2>5. ok => Mirrors(c, f)'
    BY <1>1, <1>5, <2>1 DEF Mirrors
  <2> QED BY <1>5, <2>1, <2>2, <2>4, <2>5 DEF Truthful
<1>8. Ends(c, f)
  BY <1>1, <1>6 DEF Ends
<1> QED BY <1>5, <1>7, <1>8, HostEnds

LEMMA DispatchStep ==
  ASSUME BridgeIInv, NEW c \in Clicks, Dispatch(c)
  PROVE  Only(c) /\ ClickInv(c)'
<1>1. /\ host[c].pc = "dispatch" /\ UNCHANGED <<day, live, effects, panel, wire>>
      /\ panel'[c] = panel[c] /\ effects' = effects
  BY DEF Dispatch
<1>2. /\ panel[c].action \in Commands /\ panel[c].action # Status
      /\ child[c].pc = "none" /\ (\A e \in effects : e[1] # c)
  BY <1>1, HostIsTyped DEF HostStands, Before, Commands, Launches, Reads, Writes, Status
<1>3. CASE /\ Answers(c, "missing_field") \/ Answers(c, "cli_spawn_failed")
           /\ UNCHANGED child
  <2>1. PICK mode \in {"missing_field", "cli_spawn_failed"} : Answers(c, mode)
    BY <1>3
  <2>2. PICK h \in HostOf : /\ host' = [host EXCEPT ![c] = h] /\ host'[c] = h
                            /\ h.pc = "reply" /\ h.mode = mode
    BY <2>1, Answering DEF Modes, Refusals
  <2>3. child'[c] = child[c] /\ Untouched(c)'
    BY <1>1, <1>2, <1>3 DEF Untouched
  <2>4. HostStands(c)'
    BY <1>1, <1>2, <2>2, <2>3, HostIsTyped DEF HostStands, Before
  <2>5. GoesOn(c, h)
    BY <1>1, <1>3, <2>2 DEF GoesOn, MostWritten
  <2> QED BY <2>4, <2>5, HostGoesOn
<1>4. CASE child' = [child EXCEPT ![c].pc = "running"] /\ HostTo(c, "child")
  <2>1. PICK k : k = [child[c] EXCEPT !.pc = "running"]
    OBVIOUS
  <2>2. k \in ChildOf /\ k.pc = "running"
    BY <2>1, HostIsTyped DEF ChildOf
  <2>3. child' = [child EXCEPT ![c] = k] /\ child'[c] = k
    BY <1>4, <2>1 DEF BridgeIInv
  <2>4. PICK h : h = [host[c] EXCEPT !.pc = "child"]
    OBVIOUS
  <2>5. h \in HostOf /\ h.pc = "child"
    BY <2>4, HostIsTyped DEF HostOf
  <2>6. host' = [host EXCEPT ![c] = h] /\ host'[c] = h
    BY <1>4, <2>4 DEF HostTo, BridgeIInv
  <2>7. HostStands(c)'
    BY <1>1, <1>2, <2>2, <2>3, <2>5, <2>6, HostIsTyped DEF HostStands, Before
  <2>8. HostMove(c, h, k, Progress)
    BY <1>1, <1>2, <2>3, <2>5, <2>6 DEF HostMove, MostWritten
  <2> QED BY <2>2, <2>5, <2>7, <2>8, HostMoves
<1> QED BY <1>3, <1>4 DEF Dispatch

\* What the host makes of the exit of its child.
LEMMA AfterTheChild ==
  ASSUME BridgeIInv, NEW c \in Clicks, host[c].pc = "child", child[c].pc = "exited"
  PROVE  \E h \in HostOf :
           /\ h = AfterChild(c)
           /\ \/ /\ h.pc = "reply" /\ h.mode = "native"
                 /\ Did(c, h.session) /\ panel[c].action \notin StatusFollows
              \/ /\ h.pc = "reply" /\ h.mode = "picker_required" /\ \A e \in effects : e[1] # c
              \/ h.pc = "reply" /\ h.mode \notin Refusals \cup {"native"}
              \/ /\ h.pc = "readback" /\ panel[c].action \notin Writes
                 /\ Did(c, h.session) /\ h.session # NoSession
<1>1. /\ panel[c].action \in Commands /\ ExitIsTrue(c)
      /\ panel[c].session # NoSession => panel[c].action = "resume_review"
  BY HostIsTyped DEF HostStands
<1>2. ASSUME NEW mode \in Modes
      PROVE  \E h \in HostOf : /\ h = [host[c] EXCEPT !.pc = "reply", !.mode = mode]
                               /\ h.pc = "reply" /\ h.mode = mode
  <2>1. PICK h \in HostOf : h = [host[c] EXCEPT !.pc = "reply", !.mode = mode]
    BY HostIsTyped
  <2>2. h.pc = "reply" /\ h.mode = mode
    BY <2>1, HostIsTyped DEF HostOf
  <2> QED BY <2>1, <2>2
<1>3. ASSUME NEW s \in Sessions
      PROVE  \E h \in HostOf : /\ h = [host[c] EXCEPT !.pc = "readback", !.session = s]
                               /\ h.pc = "readback" /\ h.session = s
  <2>1. PICK h : h = [host[c] EXCEPT !.pc = "readback", !.session = s]
    OBVIOUS
  <2>2. h \in HostOf /\ h.pc = "readback" /\ h.session = s
    BY <2>1, HostIsTyped DEF HostOf
  <2> QED BY <2>1, <2>2
<1>4. child[c].session \in Sessions
  BY HostIsTyped DEF ChildOf
<1>5. {"robot_schema_mismatch", "picker_required", "cli_outcome_not_safe", "native",
       "missing_session_id"} \subseteq Modes
  BY DEF Modes, Refusals
<1>6. {"robot_schema_mismatch", "cli_outcome_not_safe", "missing_session_id"}
        \cap (Refusals \cup {"native"}) = {}
  BY DEF Refusals
<1>7. CASE child[c].outcome = "unreadable"
  BY <1>2, <1>5, <1>6, <1>7 DEF AfterChild
<1>8. CASE /\ child[c].outcome # "unreadable"
           /\ panel[c].action = "resume_review" /\ child[c].outcome = "candidates"
  <2>1. \A e \in effects : e[1] # c
    BY <1>1, <1>8 DEF ExitIsTrue
  <2> QED BY <1>2, <1>5, <1>8, <2>1 DEF AfterChild
<1>9. CASE /\ child[c].outcome # "unreadable"
           /\ ~(panel[c].action = "resume_review" /\ child[c].outcome = "candidates")
  <2>1. CASE child[c].outcome \notin allowed_outcomes(panel[c].action)
    BY <1>2, <1>5, <1>6, <1>9, <2>1 DEF AfterChild
  <2>2. CASE /\ child[c].outcome \in allowed_outcomes(panel[c].action)
             /\ panel[c].action \notin StatusFollows
    <3>1. panel[c].action \notin Launches /\ panel[c].session = NoSession
      BY <1>1, <2>2 DEF Launches, StatusFollows
    <3>2. panel[c].action \in Writes => child[c].outcome = "complete"
      BY <2>2 DEF allowed_outcomes, Launches, Reads, Writes, StatusFollows
    <3>3. \A s : Did(c, s)
      BY <1>1, <3>1, <3>2 DEF ExitIsTrue, Did
    <3>4. AfterChild(c) = [host[c] EXCEPT !.pc = "reply", !.mode = "native"]
      BY <1>9, <2>2 DEF AfterChild
    <3>5. PICK h \in HostOf : /\ h = [host[c] EXCEPT !.pc = "reply", !.mode = "native"]
                              /\ h.pc = "reply" /\ h.mode = "native"
      BY <1>2, <1>5
    <3> QED BY <2>2, <3>3, <3>4, <3>5
  <2>3. CASE /\ child[c].outcome \in allowed_outcomes(panel[c].action)
             /\ panel[c].action \in StatusFollows
             /\ child[c].session = NoSession
    BY <1>2, <1>5, <1>6, <1>9, <2>3 DEF AfterChild
  <2>4. CASE /\ child[c].outcome \in allowed_outcomes(panel[c].action)
             /\ panel[c].action \in StatusFollows
             /\ child[c].session # NoSession
    <3>1. Did(c, child[c].session)
      <4>1. CASE panel[c].action \in Launches
        BY <1>1, <2>4, <4>1 DEF ExitIsTrue
      <4>2. CASE panel[c].action \notin Launches
        BY <1>1, <2>4, <4>2 DEF Did, Launches, Writes, StatusFollows
      <4> QED BY <4>1, <4>2
    <3>2. AfterChild(c) = [host[c] EXCEPT !.pc = "readback", !.session = child[c].session]
      BY <1>9, <2>4 DEF AfterChild
    <3>3. PICK h \in HostOf :
            /\ h = [host[c] EXCEPT !.pc = "readback", !.session = child[c].session]
            /\ h.pc = "readback" /\ h.session = child[c].session
      BY <1>3, <1>4
    <3>4. panel[c].action \notin Writes
      BY <2>4 DEF StatusFollows, Launches, Writes
    <3> QED BY <2>4, <3>1, <3>2, <3>3, <3>4
  <2> QED BY <2>1, <2>2, <2>3, <2>4
<1> QED BY <1>7, <1>8, <1>9

LEMMA CollectStep ==
  ASSUME BridgeIInv, NEW c \in Clicks, Collect(c)
  PROVE  Only(c) /\ ClickInv(c)'
<1>1. /\ host[c].pc = "child" /\ child[c].pc = "exited"
      /\ UNCHANGED <<day, live, effects, panel, wire>>
      /\ panel'[c] = panel[c] /\ effects' = effects
  BY DEF Collect
<1>2. PICK h \in HostOf :
        /\ h = AfterChild(c)
        /\ \/ /\ h.pc = "reply" /\ h.mode = "native"
              /\ Did(c, h.session) /\ panel[c].action \notin StatusFollows
           \/ /\ h.pc = "reply" /\ h.mode = "picker_required" /\ \A e \in effects : e[1] # c
           \/ h.pc = "reply" /\ h.mode \notin Refusals \cup {"native"}
           \/ /\ h.pc = "readback" /\ panel[c].action \notin Writes
              /\ Did(c, h.session) /\ h.session # NoSession
  BY <1>1, AfterTheChild
<1>3. host' = [host EXCEPT ![c] = h] /\ host'[c] = h
  BY <1>2 DEF Collect, BridgeIInv
<1>4. PICK k : k = [NoChild EXCEPT !.pc = "exited"]
  OBVIOUS
<1>5. k \in ChildOf /\ k.pc = "exited"
  BY <1>4 DEF NoChild, ChildOf, Sessions
<1>6. child' = [child EXCEPT ![c] = k] /\ child'[c] = k
  BY <1>4 DEF Collect, BridgeIInv
<1>7. HostStands(c)'
  <2>1. Did(c, h.session) => Did(c, h.session)'
    BY <1>1, <1>3 DEF Did
  <2>2. (\A e \in effects : e[1] # c) => Untouched(c)'
    BY <1>1, <1>5, <1>6 DEF Untouched
  <2>3. panel[c].action \in Commands /\ panel[c].action # Status
    BY <1>1, HostIsTyped DEF HostStands, Commands, Launches, Reads, Writes, Status
  <2>4. panel[c].pc # "idle" /\ panel[c].action # "other"
        /\ (panel[c].session # NoSession => panel[c].action = "resume_review")
    BY <1>1, HostIsTyped DEF HostStands
  <2>5. h.pc \in {"reply", "readback"}
        /\ (h.pc = "reply" /\ h.mode = "native" => Did(c, h.session)' /\ Mirrors(c, h)')
        /\ (h.pc = "reply" /\ h.mode \in Refusals => Untouched(c)')
        /\ (h.pc = "readback" => panel[c].action \notin Writes /\ Did(c, h.session)'
                               /\ h.session # NoSession)
    BY <1>1, <1>2, <2>1, <2>2 DEF Refusals, Mirrors
  <2> QED BY <1>1, <1>3, <1>5, <1>6, <2>3, <2>4, <2>5 DEF HostStands, Before
<1>8. HostMove(c, h, k, Progress)
  <2>1. MostWritten(host[c].pc) = 2 /\ MostWritten(h.pc) = 2
    BY <1>1, <1>2 DEF MostWritten
  <2> QED BY <1>1, <1>3, <1>5, <1>6, <2>1 DEF HostMove
<1> QED BY <1>5, <1>7, <1>8, HostMoves

LEMMA KillHostStep ==
  ASSUME BridgeIInv, NEW c \in Clicks, KillHost(c)
  PROVE  Only(c) /\ ClickInv(c)'
<1>1. /\ host[c].pc \notin {"none", "ended"} /\ HostTo(c, "ended")
      /\ UNCHANGED <<day, live, effects, panel, wire>>
      /\ panel'[c] = panel[c] /\ effects' = effects
  BY DEF KillHost
<1>2. PICK h : h = [NoHost EXCEPT !.pc = "ended"]
  OBVIOUS
<1>3. h \in HostOf /\ h.pc = "ended"
  BY <1>2, HostIsTyped DEF NoHost
<1>4. host' = [host EXCEPT ![c] = h] /\ host'[c] = h
  BY <1>1, <1>2 DEF HostTo, BridgeIInv
<1>5. PICK k : k = IF child[c].pc = "exited" THEN [NoChild EXCEPT !.pc = "exited"] ELSE child[c]
  OBVIOUS
<1>6. k \in ChildOf /\ k.pc = child[c].pc
  BY <1>5, HostIsTyped DEF NoChild, ChildOf, Sessions
<1>7. child' = [child EXCEPT ![c] = k] /\ child'[c] = k
  BY <1>5 DEF KillHost, BridgeIInv
<1>8. HostStands(c)'
  BY <1>1, <1>3, <1>4, <1>6, <1>7, HostIsTyped DEF HostStands, Before
<1>9. HostMove(c, h, k, Progress)
  <2>1. MostWritten(h.pc) = 3 /\ MostWritten(host[c].pc) \in 0..2
    BY <1>1, <1>3 DEF MostWritten
  <2> QED BY <1>1, <1>4, <1>6, <1>7, <2>1 DEF HostMove
<1> QED BY <1>3, <1>6, <1>8, <1>9, HostMoves

-----------------------------------------------------------------------------
(* The children's steps                                                      *)

\* The child of c exits as k, having done x or nothing.
ChildExits(c, k, x) ==
  /\ UNCHANGED <<day, panel, host, wire>>
  /\ child[c].pc = "running"
  /\ child' = [child EXCEPT ![c] = k] /\ k.pc = "exited"
  /\ live \subseteq live' /\ live' \subseteq SessionIds
  /\ effects' \in {effects, effects \cup {<<c, x>>}}

\* A command that does something, and says so truly, takes nothing back.
LEMMA ChildMoves ==
  ASSUME BridgeIInv, NEW c \in Clicks, NEW k \in ChildOf,
         NEW x \in SessionIds \cup {"write"}, ChildExits(c, k, x),
         host[c].pc = "child" => ExitIsTrue(c)'
  PROVE  Only(c) /\ ClickInv(c)'
<1> USE DEF ChildExits
<1>1. ClickInv(c) /\ HostStands(c)
  BY HostIsTyped DEF BridgeIInv
<1>2. child'[c] = k /\ panel'[c] = panel[c] /\ host'[c] = host[c] /\ wire'[c] = wire[c]
  BY DEF BridgeIInv
<1>3. effects \subseteq effects'
  OBVIOUS
<1>4. Only(c)
  BY DEF BridgeIInv, Only
<1>5. ClickType(panel[c], host[c], child[c], wire[c])'
  BY <1>1, <1>2 DEF ClickInv, ClickType
<1>6. host[c].pc \in {"child", "ended"} /\ panel[c].action # Status
  BY <1>1 DEF HostStands
<1>7. HostStands(c)'
  <2>1. Mirrors(c, host[c]) => Mirrors(c, host[c])'
    BY <1>2 DEF Mirrors
  <2> QED BY <1>1, <1>2, <1>6, <2>1 DEF HostStands, Before
<1>8. ASSUME NEW f PROVE Truthful(c, f) => Truthful(c, f)'
  <2>1. \A s : Did(c, s) => Did(c, s)'
    BY <1>2, <1>3 DEF Did
  <2>2. ~Untouched(c)
    BY DEF Untouched
  <2>3. Mirrors(c, f) => Mirrors(c, f)'
    BY <1>2 DEF Mirrors
  <2> QED BY <2>1, <2>2, <2>3 DEF Truthful
<1>9. Truthful(c, panel[c].answer)'
  BY <1>1, <1>2, <1>8 DEF ClickInv
<1>10. (\A n \in DOMAIN wire[c] : wire[c][n] = Progress \/ Truthful(c, wire[c][n]))'
  BY <1>1, <1>2, <1>8 DEF ClickInv
<1>11. (Len(wire[c]) <= MostWritten(host[c].pc))'
  BY <1>1, <1>2 DEF ClickInv
<1> QED BY <1>4, <1>5, <1>7, <1>9, <1>10, <1>11 DEF ClickInv

\* What is heard of a child's exit.
LEMMA Exiting ==
  ASSUME BridgeIInv, NEW c \in Clicks, NEW session \in Sessions,
         NEW outcome \in {"none", "complete", "degraded", "empty", "candidates", "blocked",
                          "error", "unreadable"},
         Exits(c, outcome, session)
  PROVE  \E k \in ChildOf :
           /\ child' = [child EXCEPT ![c] = k] /\ child'[c] = k /\ k.pc = "exited"
           /\ host[c].pc = "child" => k.outcome = outcome /\ k.session = session
<1>1. CASE host[c].pc = "ended"
  <2>1. PICK k : k = [NoChild EXCEPT !.pc = "exited"]
    OBVIOUS
  <2>2. k \in ChildOf /\ k.pc = "exited"
    BY <2>1 DEF NoChild, ChildOf, Sessions
  <2>3. child' = [child EXCEPT ![c] = k] /\ child'[c] = k
    BY <1>1, <2>1 DEF Exits, BridgeIInv
  <2> QED BY <1>1, <2>2, <2>3
<1>2. CASE host[c].pc # "ended"
  <2>1. PICK k : k = [pc |-> "exited", outcome |-> outcome, session |-> session]
    OBVIOUS
  <2>2. k \in ChildOf /\ k.pc = "exited" /\ k.outcome = outcome /\ k.session = session
    BY <2>1 DEF ChildOf
  <2>3. child' = [child EXCEPT ![c] = k] /\ child'[c] = k
    BY <1>2, <2>1 DEF Exits, BridgeIInv
  <2> QED BY <2>2, <2>3
<1> QED BY <1>1, <1>2

\* A launch that tells of a session is launched in it.
LEMMA LaunchedStep ==
  ASSUME BridgeIInv, NEW c \in Clicks, Launched(c)
  PROVE  Only(c) /\ ClickInv(c)'
<1>1. /\ child[c].pc = "running" /\ panel[c].action \in Launches
      /\ UNCHANGED <<day, panel, host, wire>> /\ panel'[c] = panel[c]
  BY DEF Launched
<1>2. PICK s \in IF panel[c].session # NoSession THEN {panel[c].session}
                 ELSE IF panel[c].action = "resume_review" THEN live ELSE SessionIds :
        /\ live' = live \cup {s} /\ effects' = effects \cup {<<c, s>>}
        /\ \E outcome \in {"complete", "degraded", "unreadable"}, told \in {s, NoSession} :
             Exits(c, outcome, told)
  BY DEF Launched
<1>3. PICK outcome \in {"complete", "degraded", "unreadable"}, told \in {s, NoSession} :
        Exits(c, outcome, told)
  BY <1>2
<1>4. s \in SessionIds
  <2>1. panel[c].session \in Sessions
    BY DEF BridgeIInv, ClickInv, ClickType, PanelOf
  <2> QED BY <2>1 DEF BridgeIInv, Sessions
<1>5. PICK k \in ChildOf :
        /\ child' = [child EXCEPT ![c] = k] /\ child'[c] = k /\ k.pc = "exited"
        /\ host[c].pc = "child" => k.outcome = outcome /\ k.session = told
  BY <1>3, <1>4, Exiting DEF Sessions
<1>6. host[c].pc = "child" => ExitIsTrue(c)'
  <2>1. Did(c, s)'
    BY <1>1, <1>2 DEF Did, Launches, Writes
  <2> QED BY <1>1, <1>3, <1>5, <2>1 DEF ExitIsTrue, Launches, Writes
<1>7. ChildExits(c, k, s)
  BY <1>1, <1>2, <1>4, <1>5 DEF ChildExits, BridgeIInv
<1> QED BY <1>4, <1>6, <1>7, ChildMoves

LEMMA WrittenStep ==
  ASSUME BridgeIInv, NEW c \in Clicks, Written(c)
  PROVE  Only(c) /\ ClickInv(c)'
<1>1. /\ child[c].pc = "running" /\ panel[c].action \in Writes
      /\ UNCHANGED <<day, live, panel, host, wire>> /\ panel'[c] = panel[c]
      /\ effects' = effects \cup {<<c, "write">>}
  BY DEF Written
<1>2. PICK outcome \in {"complete", "error", "unreadable"} : Exits(c, outcome, NoSession)
  BY DEF Written
<1>3. PICK k \in ChildOf :
        /\ child' = [child EXCEPT ![c] = k] /\ child'[c] = k /\ k.pc = "exited"
        /\ host[c].pc = "child" => k.outcome = outcome /\ k.session = NoSession
  BY <1>2, Exiting DEF Sessions
<1>4. host[c].pc = "child" => ExitIsTrue(c)'
  BY <1>1, <1>2, <1>3 DEF ExitIsTrue, Launches, Writes
<1>5. ChildExits(c, k, "write")
  BY <1>1, <1>3 DEF ChildExits, BridgeIInv
<1> QED BY <1>4, <1>5, ChildMoves

\* The commands that do nothing: a read, a choice of sessions, a refusal.
LEMMA HarmlessSteps ==
  ASSUME BridgeIInv, NEW c \in Clicks, Candidates(c) \/ Read(c) \/ Refused(c)
  PROVE  Only(c) /\ ClickInv(c)'
<1>1. /\ child[c].pc = "running" /\ UNCHANGED <<day, live, effects, panel, host, wire>>
      /\ panel'[c] = panel[c] /\ effects' = effects
  BY DEF Candidates, Read, Refused
<1>2. PICK outcome \in {"complete", "empty", "candidates", "blocked", "error", "unreadable"},
           s \in Sessions :
        /\ Exits(c, outcome, s)
        /\ panel[c].action \in Launches => s = NoSession
        /\ panel[c].action \in Writes => outcome # "complete"
  <2>1. live \subseteq Sessions /\ NoSession \in Sessions
    BY DEF BridgeIInv, Sessions
  <2>2. CASE Candidates(c)
    BY <2>1, <2>2 DEF Candidates
  <2>3. CASE Read(c)
    <3>1. PICK outcome \in {"complete", "empty"}, s \in live \cup {NoSession} :
            Exits(c, outcome, IF panel[c].action = "show_findings" THEN s ELSE NoSession)
      BY <2>3 DEF Read
    <3>2. PICK t \in Sessions : t = IF panel[c].action = "show_findings" THEN s ELSE NoSession
      BY <2>1
    <3>3. panel[c].action \notin Launches \cup Writes
      BY <2>3 DEF Read, Launches, Reads, Writes
    <3>4. Exits(c, outcome, t)
      BY <3>1, <3>2
    <3> QED BY <3>3, <3>4
  <2>4. CASE Refused(c)
    <3>1. PICK outcome \in {"blocked", "error", "unreadable"} : Exits(c, outcome, NoSession)
      BY <2>4 DEF Refused
    <3> QED BY <2>1, <3>1
  <2> QED BY <2>2, <2>3, <2>4
<1>3. PICK k \in ChildOf :
        /\ child' = [child EXCEPT ![c] = k] /\ child'[c] = k /\ k.pc = "exited"
        /\ host[c].pc = "child" => k.outcome = outcome /\ k.session = s
  BY <1>2, Exiting
<1>4. \A e \in effects : e[1] # c
  BY <1>1, HostIsTyped DEF HostStands
<1>5. host[c].pc = "child" => ExitIsTrue(c)'
  BY <1>1, <1>2, <1>3, <1>4 DEF ExitIsTrue
<1>6. ChildExits(c, k, "write")
  BY <1>1, <1>3 DEF ChildExits, BridgeIInv
<1> QED BY <1>5, <1>6, ChildMoves

-----------------------------------------------------------------------------
StepOf(c) ==
  \/ Click(c) \/ Receive(c) \/ Disconnected(c) \/ FirstFrameTimeout(c) \/ Timeout(c)
  \/ ReadMessage(c) \/ AnswerProbe(c) \/ ProbeWithoutStore(c) \/ Preflight(c)
  \/ Register(c) \/ Dispatch(c) \/ Collect(c) \/ Readback(c) \/ WriteReply(c)
  \/ Launched(c) \/ Candidates(c) \/ Written(c) \/ Read(c) \/ Refused(c) \/ KillHost(c)

LEMMA EveryStep ==
  ASSUME BridgeIInv, NEW c \in Clicks, StepOf(c)
  PROVE  Only(c) /\ ClickInv(c)'
BY ClickStep, ReceiveStep, SettlingSteps, ReadMessageStep, ProbeSteps, PreflightStep,
   RegisterStep, DispatchStep, CollectStep, ReadbackStep, WriteReplyStep, LaunchedStep,
   WrittenStep, HarmlessSteps, KillHostStep DEF StepOf

LEMMA BridgeStep == BridgeIInv /\ [BridgeNext]_bridgeVars => BridgeIInv'
<1> SUFFICES ASSUME BridgeIInv, [BridgeNext]_bridgeVars PROVE BridgeIInv'
  OBVIOUS
<1>1. CASE UNCHANGED bridgeVars
  <2>1. ASSUME NEW c \in Clicks PROVE ClickInv(c)'
    <3>1. UNCHANGED <<panel, host, child, wire, effects, live>> /\ ClickInv(c)
      BY <1>1 DEF bridgeVars, BridgeIInv
    <3>2. HostStands(c)'
      BY <3>1 DEF ClickInv, HostStands, ExitIsTrue, Did, Untouched, Mirrors
    <3>3. \A f : Truthful(c, f) => Truthful(c, f)'
      BY <3>1 DEF Truthful, Did, Untouched, Closed, Mirrors
    <3>4. ClickType(panel[c], host[c], child[c], wire[c])'
          /\ (Len(wire[c]) <= MostWritten(host[c].pc))'
      BY <3>1 DEF ClickInv
    <3> QED BY <3>1, <3>2, <3>3, <3>4 DEF ClickInv
  <2> QED BY <1>1, <2>1 DEF BridgeIInv, bridgeVars
<1>2. CASE BridgeNext
  <2>1. PICK c \in Clicks : StepOf(c)
    BY <1>2 DEF BridgeNext, StepOf
  <2>2. Only(c) /\ ClickInv(c)'
    BY <2>1, EveryStep
  <2> QED BY <2>2, OthersStay
<1> QED BY <1>1, <1>2

LEMMA BridgeHolds == BridgeSpec => []BridgeIInv
<1> QED BY InitialBridge, BridgeStep, PTL DEF BridgeSpec

LEMMA InvariantAnswers == BridgeIInv => AnswersAreTrue
<1> SUFFICES ASSUME BridgeIInv PROVE AnswersAreTrue
  OBVIOUS
<1>1. ASSUME NEW c \in Clicks
      PROVE  /\ panel[c] \in PanelOf /\ host[c] \in HostOf /\ HostStands(c)
             /\ Truthful(c, panel[c].answer) /\ Len(wire[c]) <= 3
  <2>1. ClickInv(c)
    BY DEF BridgeIInv
  <2>2. MostWritten(host[c].pc) \in 0..3
    BY DEF MostWritten
  <2>3. Len(wire[c]) \in Nat
    BY <2>1 DEF ClickInv, ClickType
  <2> QED BY <2>1, <2>2, <2>3 DEF ClickInv, ClickType
<1>2. BridgeTypeOK
  <2>1. \A c \in Clicks : /\ panel[c].pc \in {"idle", "waiting", "settled"}
                          /\ panel[c].answer.session \in SessionIds \cup {NoSession}
                          /\ host[c].pc \in Before \cup {"child", "readback", "reply", "ended"}
    BY <1>1 DEF PanelOf, HostOf, Frames, Sessions
  <2> QED BY <1>1, <2>1 DEF BridgeIInv, BridgeTypeOK, Before
<1>3. OkMeansDone
  BY <1>1 DEF OkMeansDone, Truthful, Did
<1>4. RefusedMeansNothing
  BY <1>1 DEF RefusedMeansNothing, Truthful, Untouched, Refusals
<1> QED BY <1>2, <1>3, <1>4 DEF AnswersAreTrue

(* What a panel shows is what its click did: a success is of a launch or a   *)
(* write that happened, in the session it names; after a refusal of the      *)
(* bridge nothing was done. However many clicks there are, whatever session  *)
(* another launches, whichever hosts die and whatever their children go on   *)
(* to do (run_native_host_mode, bridge_dispatch_spec, background/main.js).   *)
THEOREM AnswersTrue == BridgeSpec => []AnswersAreTrue
BY BridgeHolds, InvariantAnswers, PTL

(* A success of a launch, or of a list of findings, is about a session that  *)
(* is in the store, and the attention state it shows is that session's:      *)
(* a readback that fails, or is of another session, leaves no success,       *)
(* however many clicks launch at once and whatever is killed                 *)
(* (handle_bridge_intent, build_bridge_status_snapshot).                     *)
THEOREM SuccessIsReadBack == BridgeSpec => []OkIsReadBack
<1>1. BridgeIInv => OkIsReadBack
  BY DEF BridgeIInv, ClickInv, Truthful, Mirrors, OkIsReadBack
<1> QED BY <1>1, BridgeHolds, PTL
=============================================================================
