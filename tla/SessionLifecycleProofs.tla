----------------------- MODULE SessionLifecycleProofs -----------------------
(* What the commands and workers of any number of processes make of the     *)
(* sessions of a pull request, however they overlap, fail and are retried.  *)
EXTENDS SessionLifecycle, FiniteSetTheorems, SequenceTheorems, TLAPS

\* A process that has an attempt of its own to settle.
Holding == {"task", "provision", "provision_run", "launch", "finalize",
            "demote", "demote_put", "fail"}

\* A hosted start has written its session row; a start has not.
Provisioned(ph, l) ==
  /\ ph \in {"provision_run", "launch", "finalize", "demote", "demote_put"}
  /\ l.action = "start_review" /\ l.provider = "hosted"
Unborn(ph, l) ==
  /\ ph \in Holding /\ l.action = "start_review"
  /\ ph \in {"task", "provision"} \/ l.provider = "linked"

\* A process that works with a row it has read.
Reads(ph, l) ==
  \/ ph \in {"abandon", "insert", "launch", "finalize"}
     /\ l.action # "start_review"
  \/ ph \in {"demote_put", "w_record", "w_ready", "w_reload"}

Held(l) ==
  /\ l.run \in DOMAIN attempts
  /\ attempts[l.run].session = l.session
  /\ attempts[l.run].action = l.action
  /\ attempts[l.run].state # "verified"

\* What was read of a row is still so, unless its version says otherwise.
ReadRow(l) ==
  /\ l.session \in Known
  /\ l.provider = session[l.session].provider
  /\ l.locator => session[l.session].locator
  /\ l.version <= session[l.session].version
  /\ l.version = session[l.session].version => l.seen = announced[l.session]

\* What a process in phase ph with local state l relies on.
Stands(ph, l) ==
  /\ ph \in Holding => Held(l)
  /\ ph = "reenter" => l.session \in Known /\ l.action # "start_review"
  /\ ph = "abandon" => l.action # "start_review"
  /\ ph \in {"task", "provision", "provision_run", "demote", "demote_put"} =>
       l.action = "start_review"
  /\ ph \in {"provision", "provision_run", "demote", "demote_put"} =>
       l.provider = "hosted"
  /\ Provisioned(ph, l) => /\ l.session \in Known
                           /\ session[l.session].provider = "hosted"
                           /\ ~session[l.session].locator
  /\ Unborn(ph, l) => session[l.session] = NoSession
  /\ Reads(ph, l) => ReadRow(l)
  /\ ph = "finalize" /\ l.action # "start_review" =>
       session[l.session].locator
  /\ ph = "w_bind" => l.session \in Sessions

\* An identifier is minted by one start, and a row is of a minted session.
MintOnce ==
  \A i, j \in DOMAIN attempts :
    /\ attempts[i].session = attempts[j].session
    /\ attempts[i].action = "start_review"
    /\ attempts[j].action = "start_review"
    => i = j
Minted ==
  \A s \in Known : \E i \in DOMAIN attempts : attempts[i].session = s

\* A run is of an attempt; a row that cannot be resumed is of a hosted start.
RunsCommitted ==
  \A s \in Sessions : \A i \in DOMAIN runs[s] :
    /\ runs[s][i] \in DOMAIN attempts
    /\ \/ attempts[runs[s][i]].state = "verified"
       \/ /\ attempts[runs[s][i]].action = "start_review"
          /\ s \in Known /\ session[s].provider = "hosted"
Located ==
  \A s \in Known :
    /\ session[s].provider = "linked" => session[s].locator
    /\ session[s].attention = "review_failed" => ~session[s].locator

OwnAttempts ==
  \A p, q \in Procs :
    /\ pc[p] \in Holding /\ pc[q] \in Holding
    /\ local[p].run = local[q].run
    => p = q

RowsInv ==
  /\ Minted
  /\ RunsCommitted
  /\ SessionsVerified
  /\ Located
  /\ ReentriesSeeAnnouncements

LifecycleIInv ==
  /\ TypeOK
  /\ MintOnce
  /\ OwnAttempts
  /\ RowsInv
  /\ \A p \in Procs : Stands(pc[p], local[p])
-----------------------------------------------------------------------------
(* Types.                                                                  *)

LEMMA InitialLifecycle == Init => LifecycleIInv
<1> SUFFICES ASSUME Init PROVE LifecycleIInv
  OBVIOUS
<1>1. TypeOK
  BY LifecycleAssumption, NoSessionAssumption
     DEF Init, TypeOK, Phases, Local, Blank, Actions, Failures
<1>2. Known = {}
  BY DEF Init, Known
<1>3. MintOnce /\ OwnAttempts
  BY DEF Init, MintOnce, OwnAttempts, Holding
<1>4. RowsInv
  BY <1>2 DEF Init, RowsInv, Minted, RunsCommitted, SessionsVerified,
              Located, ReentriesSeeAnnouncements
<1>5. \A p \in Procs : Stands(pc[p], local[p])
  BY DEF Init, Stands, Holding, Provisioned, Unborn, Reads
<1> QED BY <1>1, <1>3, <1>4, <1>5 DEF LifecycleIInv

LEMMA BlankType == Blank \in Local /\ "idle" \in Phases
BY DEF Blank, Local, Actions, Failures, Phases

LEMMA RowType ==
  ASSUME TypeOK, NEW s \in Known
  PROVE  s \in Sessions /\ session[s] \in Row /\ announced[s] \in Nat
BY DEF TypeOK, Known

LEMMA LocalType ==
  ASSUME TypeOK, NEW p \in Procs
  PROVE  pc[p] \in Phases /\ local[p] \in Local
BY DEF TypeOK

LEMMA ReadingType ==
  ASSUME TypeOK, NEW l \in Local, NEW s \in Known
  PROVE  /\ Reading(l, s) \in Local
         /\ Reading(l, s).session = s
         /\ Reading(l, s).action = l.action
         /\ Reading(l, s).run = l.run
         /\ Reading(l, s).provider = session[s].provider
         /\ Reading(l, s).version = session[s].version
         /\ Reading(l, s).locator = session[s].locator
         /\ Reading(l, s).seen = announced[s]
BY RowType DEF Reading, Local, Row

LEMMA GotoType ==
  ASSUME TypeOK, NEW p \in Procs, NEW ph \in Phases, NEW l \in Local,
         Goto(p, ph, l)
  PROVE  /\ pc' \in [Procs -> Phases] /\ local' \in [Procs -> Local]
         /\ pc'[p] = ph /\ (ph # "idle" => local'[p] = l)
         /\ \A q \in Procs \ {p} : pc'[q] = pc[q] /\ local'[q] = local[q]
BY BlankType DEF TypeOK, Goto

LEMMA HeldType ==
  ASSUME TypeOK, NEW l \in Local, Held(l)
  PROVE  /\ l.session \in Sessions /\ l.run \in Nat
         /\ l.run \in DOMAIN attempts /\ attempts[l.run] \in Attempt
<1>1. attempts \in [1..Len(attempts) -> Attempt]
  BY DEF TypeOK
<1>2. attempts[l.run] \in Attempt /\ l.run \in Nat
  BY <1>1 DEF Held, Local
<1> QED BY <1>2 DEF Held, Attempt

-----------------------------------------------------------------------------
(* What a step of one process leaves to the others.                        *)

\* A step that settles the start of session s0, or verifies the attempt n0.
Evolves(s0, n0) ==
  /\ DOMAIN attempts \subseteq DOMAIN attempts'
  /\ \A i \in DOMAIN attempts :
       /\ attempts'[i].session = attempts[i].session
       /\ attempts'[i].action = attempts[i].action
       /\ attempts[i].state = "verified" => attempts'[i].state = "verified"
       /\ attempts'[i].state = "verified" =>
            i = n0 \/ attempts[i].state = "verified"
  /\ \A s \in Known :
       /\ session'[s] # NoSession
       /\ session'[s].provider = session[s].provider
       /\ session[s].locator => session'[s].locator
       /\ session'[s].locator => s = s0 \/ session[s].locator
       /\ session[s].version <= session'[s].version
       /\ session'[s].version = session[s].version =>
            announced'[s] = announced[s]
  /\ \A s \in Sessions \ Known : s # s0 => session'[s] = NoSession

\* Whatever a process relies on survives the steps of the others.
LEMMA StandsKept ==
  ASSUME TypeOK, TypeOK', NEW s0, NEW n0, Evolves(s0, n0),
         NEW ph, NEW l \in Local, Stands(ph, l),
         ph \in Holding => l.run # n0,
         ph \in Holding /\ l.action = "start_review" => l.session # s0
  PROVE  Stands(ph, l)'
<1>1. Held(l) /\ l.run # n0 => Held(l)'
  BY DEF Held, Evolves
<1>2. \A s \in Known : s \in Known'
  BY DEF Evolves, Known
<1>3. ReadRow(l) => ReadRow(l)'
  <2> SUFFICES ASSUME ReadRow(l) PROVE ReadRow(l)'
    OBVIOUS
  <2>1. PICK s : s = l.session
    OBVIOUS
  <2>2. s \in Known /\ s \in Known'
    BY <1>2, <2>1 DEF ReadRow
  <2>3. session[s].version \in Nat /\ session'[s].version \in Nat
    <3>1. session[s] \in Row /\ session'[s] \in Row
      BY <2>2 DEF TypeOK, Known
    <3> QED BY <3>1 DEF Row
  <2>4. l.version \in Nat
    BY DEF Local
  <2>5. /\ session'[s].provider = session[s].provider
        /\ session[s].locator => session'[s].locator
        /\ session[s].version <= session'[s].version
        /\ session'[s].version = session[s].version =>
             announced'[s] = announced[s]
    BY <2>2 DEF Evolves
  <2>6. /\ l.provider = session[s].provider
        /\ l.locator => session[s].locator
        /\ l.version <= session[s].version
        /\ l.version = session[s].version => l.seen = announced[s]
    BY <2>1 DEF ReadRow
  <2>7. /\ l.version <= session'[s].version
        /\ l.version = session'[s].version => l.seen = announced'[s]
    BY <2>3, <2>4, <2>5, <2>6
  <2> QED BY <2>1, <2>2, <2>5, <2>6, <2>7 DEF ReadRow
<1>4. ph \in Holding => l.session \in Sessions
  BY HeldType DEF Stands
<1>5. Provisioned(ph, l) \/ Unborn(ph, l) =>
        ph \in Holding /\ l.action = "start_review"
  BY DEF Provisioned, Unborn, Holding
<1>6. Provisioned(ph, l) => /\ l.session \in Known'
                            /\ session'[l.session].provider = "hosted"
                            /\ ~session'[l.session].locator
  BY <1>2, <1>5 DEF Stands, Evolves
<1>7. Unborn(ph, l) => session'[l.session] = NoSession
  <2>1. Unborn(ph, l) => l.session \in Sessions \ Known /\ l.session # s0
    BY <1>4, <1>5 DEF Stands, Known
  <2> QED BY <2>1 DEF Evolves
<1>8. ph = "finalize" /\ l.action # "start_review" =>
        session'[l.session].locator
  <2>1. ph = "finalize" /\ l.action # "start_review" =>
          l.session \in Known /\ session[l.session].locator
    BY DEF Stands, Reads, ReadRow
  <2> QED BY <2>1 DEF Evolves
<1> QED BY <1>1, <1>2, <1>3, <1>6, <1>7, <1>8
        DEF Stands, Provisioned, Unborn, Reads

LEMMA OthersStand ==
  ASSUME LifecycleIInv, TypeOK', NEW s0, NEW n0, Evolves(s0, n0),
         NEW p \in Procs, NEW ph, NEW l, Stands(ph, l)', pc'[p] = ph,
         local'[p] = l \/ ph = "idle",
         \A q \in Procs \ {p} : pc'[q] = pc[q] /\ local'[q] = local[q],
         n0 \in DOMAIN attempts => pc[p] \in Holding /\ local[p].run = n0,
         s0 \in Sessions => /\ pc[p] \in Holding /\ local[p].session = s0
                            /\ local[p].action = "start_review",
         ph \in Holding => \/ pc[p] \in Holding /\ l.run = local[p].run
                           \/ l.run \notin DOMAIN attempts
  PROVE  OwnAttempts' /\ (\A q \in Procs : Stands(pc[q], local[q]))'
<1>1. ASSUME NEW q \in Procs \ {p}, pc[q] \in Holding
      PROVE  /\ local[q].run # n0 /\ (pc[p] \in Holding => local[q].run # local[p].run)
             /\ local[q].action = "start_review" => local[q].session # s0
             /\ local[q].run \in DOMAIN attempts
  <2>1. Held(local[q]) /\ local[q] \in Local
    BY <1>1, LocalType DEF LifecycleIInv, Stands
  <2>2. pc[p] \in Holding => local[q].run # local[p].run
    BY <1>1 DEF LifecycleIInv, OwnAttempts
  <2>3. local[q].run # n0 /\ local[q].run \in DOMAIN attempts
    BY <2>1, <2>2 DEF Held
  <2>4. ASSUME local[q].action = "start_review", local[q].session = s0
        PROVE  FALSE
    <3>1. local[q].session \in Sessions
      BY <2>1, HeldType DEF LifecycleIInv
    <3>2. /\ pc[p] \in Holding /\ local[p].session = s0
          /\ local[p].action = "start_review"
      BY <2>4, <3>1
    <3>3. Held(local[p])
      BY <3>2 DEF LifecycleIInv, Stands
    <3> QED BY <2>1, <2>2, <2>4, <3>2, <3>3 DEF Held, LifecycleIInv, MintOnce
  <2> QED BY <2>2, <2>3, <2>4
<1>2. OwnAttempts'
  <2> SUFFICES ASSUME NEW q \in Procs, NEW r \in Procs, q # r,
                      pc'[q] \in Holding, pc'[r] \in Holding,
                      local'[q].run = local'[r].run
               PROVE  FALSE
    BY DEF OwnAttempts
  <2>1. CASE q # p /\ r # p
    BY <2>1 DEF LifecycleIInv, OwnAttempts
  <2>2. ASSUME NEW t \in Procs \ {p}, ph \in Holding, pc[t] \in Holding,
               local[t].run = l.run
        PROVE  FALSE
    BY <1>1, <2>2
  <2>3. ph \in Holding => local'[p] = l
    BY DEF Holding
  <2> QED BY <2>1, <2>2, <2>3
<1>3. ASSUME NEW q \in Procs
      PROVE  Stands(pc[q], local[q])'
  <2>1. CASE q = p
    <3>1. CASE ph = "idle"
      BY <2>1, <3>1 DEF Stands, Holding, Provisioned, Unborn, Reads
    <3> QED BY <2>1, <3>1
  <2>2. CASE q # p
    <3>1. PICK qph, ql : qph = pc[q] /\ ql = local[q]
      OBVIOUS
    <3>2. Stands(qph, ql) /\ ql \in Local
      BY <3>1, LocalType DEF LifecycleIInv
    <3>3. /\ qph \in Holding => ql.run # n0
          /\ qph \in Holding /\ ql.action = "start_review" => ql.session # s0
      BY <1>1, <2>2, <3>1
    <3>4. Stands(qph, ql)'
      BY <3>2, <3>3, StandsKept DEF LifecycleIInv
    <3>5. qph = pc'[q] /\ ql = local'[q]
      BY <2>2, <3>1
    <3> QED BY <3>4, <3>5
  <2> QED BY <2>1, <2>2
<1> QED BY <1>2, <1>3

LEMMA EvolvesUnchanged ==
  ASSUME TypeOK, UNCHANGED <<session, attempts, announced>>
  PROVE  Evolves(NoSession, 0)
<1>1. \A s \in Known : session[s].version \in Nat
  BY RowType DEF Row
<1> QED BY <1>1 DEF Evolves, Known

LEMMA NoneBorn ==
  ASSUME TypeOK
  PROVE  NoSession \notin Sessions /\ 0 \notin DOMAIN attempts
<1>1. attempts \in Seq(Attempt)
  BY DEF TypeOK
<1> QED BY <1>1, NoSessionAssumption

\* A step that changes no row, run or attempt.
LEMMA LocalStep ==
  ASSUME LifecycleIInv, NEW p \in Procs, NEW ph \in Phases, NEW l \in Local,
         Goto(p, ph, l), UNCHANGED <<session, runs, attempts, announced, acked>>,
         taskFile' \in [Sessions -> Nat], results' \in Seq(Result),
         ph = "idle" \/ Stands(ph, l),
         ph \in Holding => pc[p] \in Holding /\ l.run = local[p].run
  PROVE  LifecycleIInv'
<1>1. /\ pc' \in [Procs -> Phases] /\ local' \in [Procs -> Local]
      /\ pc'[p] = ph /\ (ph # "idle" => local'[p] = l)
      /\ \A q \in Procs \ {p} : pc'[q] = pc[q] /\ local'[q] = local[q]
  BY GotoType DEF LifecycleIInv
<1>2. TypeOK'
  BY <1>1 DEF LifecycleIInv, TypeOK
<1>3. MintOnce' /\ RowsInv'
  BY DEF LifecycleIInv, MintOnce, RowsInv, Minted, RunsCommitted, Known,
         SessionsVerified, Located, ReentriesSeeAnnouncements
<1>4. Evolves(NoSession, 0)
  BY EvolvesUnchanged DEF LifecycleIInv
<1>5. Stands(ph, l)'
  BY DEF Stands, Held, Known, ReadRow, Holding, Provisioned, Unborn, Reads
<1>6. NoSession \notin Sessions /\ 0 \notin DOMAIN attempts
  BY NoneBorn DEF LifecycleIInv
<1>7. OwnAttempts' /\ (\A q \in Procs : Stands(pc[q], local[q]))'
  BY <1>1, <1>2, <1>4, <1>5, <1>6, OthersStand
<1> QED BY <1>2, <1>3, <1>7 DEF LifecycleIInv

-----------------------------------------------------------------------------
(* The steps that change no row, run or attempt.                           *)

LEMMA StoreTypes ==
  ASSUME TypeOK
  PROVE  taskFile \in [Sessions -> Nat] /\ results \in Seq(Result)
BY DEF TypeOK

LEMMA Quiet ==
  ASSUME LifecycleIInv, UNCHANGED <<store, taskFile, announced, acked>>
  PROVE  /\ UNCHANGED <<session, runs, attempts, announced, acked>>
         /\ taskFile' \in [Sessions -> Nat] /\ results' \in Seq(Result)
BY StoreTypes DEF store, LifecycleIInv

\* A command that starts a session, and one that re-enters one.
LEMMA StartsNew ==
  ASSUME LifecycleIInv, NEW p \in Procs, NEW provider \in Providers,
         Goto(p, "insert", [Blank EXCEPT !.provider = provider]),
         UNCHANGED <<store, taskFile, announced, acked>>
  PROVE  LifecycleIInv'
<1>1. PICK l : l = [Blank EXCEPT !.provider = provider]
  OBVIOUS
<1>2. provider \in {"hosted", "linked"}
  BY LifecycleAssumption
<1>3. l \in Local /\ l.action = "start_review"
  BY <1>1, <1>2, BlankType DEF Local, Blank
<1>4. Stands("insert", l)
  BY <1>3 DEF Stands, Holding, Provisioned, Unborn, Reads
<1>5. "insert" \in Phases /\ "insert" \notin Holding
  BY DEF Phases, Holding
<1> QED BY <1>1, <1>3, <1>4, <1>5, Quiet, LocalStep

LEMMA Reenters ==
  ASSUME LifecycleIInv, NEW p \in Procs, NEW s \in Known,
         NEW action \in {"resume_review", "return_to_roger"},
         Goto(p, "reenter", [Blank EXCEPT !.action = action, !.session = s]),
         UNCHANGED <<store, taskFile, announced, acked>>
  PROVE  LifecycleIInv'
<1>1. PICK l : l = [Blank EXCEPT !.action = action, !.session = s]
  OBVIOUS
<1>2. l.session = s /\ l.action = action /\ s \in Sessions
  BY <1>1 DEF Known, Blank
<1>3. l \in Local
  BY <1>1, <1>2, BlankType DEF Local, Blank, Actions
<1>4. Stands("reenter", l)
  BY <1>2 DEF Stands, Holding, Provisioned, Unborn, Reads
<1>5. "reenter" \in Phases /\ "reenter" \notin Holding
  BY DEF Phases, Holding
<1> QED BY <1>1, <1>3, <1>4, <1>5, Quiet, LocalStep

LEMMA StartKeeps ==
  ASSUME LifecycleIInv, NEW p \in Procs, Review(p) \/ Fresh(p) \/ Resume(p)
  PROVE  LifecycleIInv'
<1>1. CASE Review(p)
  <2>1. Reusable \subseteq Known
    BY DEF Reusable
  <2> QED BY <1>1, <2>1, StartsNew, Reenters DEF Review
<1>2. CASE Fresh(p)
  BY <1>2, StartsNew DEF Fresh
<1>3. CASE Resume(p)
  <2>1. PICK s \in Known, kind \in Kinds \cap {"resume", "return"} :
          Goto(p, "reenter",
               [Blank EXCEPT !.session = s,
                             !.action = IF kind = "resume" THEN "resume_review"
                                        ELSE "return_to_roger"])
    BY <1>3 DEF Resume
  <2>2. PICK action \in {"resume_review", "return_to_roger"} :
          action = IF kind = "resume" THEN "resume_review" ELSE "return_to_roger"
    OBVIOUS
  <2>3. [Blank EXCEPT !.session = s, !.action = action]
          = [Blank EXCEPT !.action = action, !.session = s]
    BY DEF Blank
  <2>4. Goto(p, "reenter", [Blank EXCEPT !.action = action, !.session = s])
    BY <2>1, <2>2, <2>3
  <2> QED BY <1>3, <2>4, Reenters DEF Resume
<1> QED BY <1>1, <1>2, <1>3

\* A row that was just read is as it was read.
LEMMA JustRead ==
  ASSUME TypeOK, NEW l \in Local, NEW s \in Known
  PROVE  ReadRow(Reading(l, s))
<1>1. session[s].version \in Nat
  BY RowType DEF Row
<1> QED BY <1>1, ReadingType DEF ReadRow

LEMMA Standing ==
  ASSUME LifecycleIInv, NEW p \in Procs
  PROVE  Stands(pc[p], local[p]) /\ local[p] \in Local
BY LocalType DEF LifecycleIInv

LEMMA ReenterKeeps ==
  ASSUME LifecycleIInv, NEW p \in Procs, Reenter(p)
  PROVE  LifecycleIInv'
<1>1. PICK l : l = local[p]
  OBVIOUS
<1>2. l \in Local /\ l.session \in Known /\ l.action # "start_review"
  BY <1>1, Standing DEF Reenter, Stands
<1>3. PICK r : r = Reading(l, l.session)
  OBVIOUS
<1>4. r \in Local /\ r.action = l.action /\ ReadRow(r)
  BY <1>2, <1>3, ReadingType, JustRead DEF LifecycleIInv
<1>5. Stands("abandon", r)
  BY <1>2, <1>4 DEF Stands, Holding, Provisioned, Unborn
<1>6. "abandon" \in Phases /\ "abandon" \notin Holding
  BY DEF Phases, Holding
<1>7. Goto(p, "abandon", r) /\ UNCHANGED <<store, taskFile, announced, acked>>
  BY <1>1, <1>3 DEF Reenter
<1> QED BY <1>4, <1>5, <1>6, <1>7, Quiet, LocalStep

\* Where a launch, a final transaction or a demotion that failed goes to.
LEMMA FailureStands ==
  ASSUME TypeOK, NEW l \in Local, NEW ph \in {"launch", "finalize"}, Stands(ph, l)
  PROVE  /\ Stands(FailurePhase(l), l)
         /\ FailurePhase(l) \in Phases /\ FailurePhase(l) \in Holding
<1>1. Held(l)
  BY DEF Stands, Holding
<1>2. CASE FailurePhase(l) = "demote"
  <2>1. l.action = "start_review" /\ l.provider = "hosted"
    BY <1>2 DEF FailurePhase, Provisions
  <2>2. l.session \in Known /\ session[l.session].provider = "hosted"
        /\ ~session[l.session].locator
    BY <2>1 DEF Stands, Provisioned
  <2> QED BY <1>1, <1>2, <2>1, <2>2 DEF Stands, Holding, Provisioned, Unborn, Reads, Phases
<1>3. CASE FailurePhase(l) = "fail"
  <2>1. Unborn("fail", l) => Unborn(ph, l)
    BY DEF Unborn, Holding
  <2>2. Unborn("fail", l) => session[l.session] = NoSession
    BY <2>1 DEF Stands
  <2> QED BY <1>1, <1>3, <2>2 DEF Stands, Holding, Provisioned, Reads, Phases
<1> QED BY <1>2, <1>3 DEF FailurePhase

LEMMA LaunchFailedKeeps ==
  ASSUME LifecycleIInv, NEW p \in Procs, LaunchFailed(p)
  PROVE  LifecycleIInv'
<1>1. PICK l : l = local[p]
  OBVIOUS
<1>2. l \in Local /\ Stands("launch", l)
  BY <1>1, Standing DEF LaunchFailed
<1>3. PICK ph : ph = FailurePhase(l)
  OBVIOUS
<1>4. ph \in Phases /\ Stands(ph, l) /\ pc[p] \in Holding
  BY <1>2, <1>3, FailureStands DEF LifecycleIInv, LaunchFailed, Holding
<1>5. Goto(p, ph, l) /\ UNCHANGED <<store, taskFile, announced, acked>>
  BY <1>1, <1>3 DEF LaunchFailed
<1> QED BY <1>1, <1>2, <1>4, <1>5, Quiet, LocalStep

\* What went wrong is recorded with a process's state, which relies on the same.
LEMMA Failing ==
  ASSUME NEW l \in Local, NEW failure \in Failures, NEW ph,
         Stands(ph, l)
  PROVE  /\ [l EXCEPT !.failure = failure] \in Local
         /\ Stands(ph, [l EXCEPT !.failure = failure])
         /\ FailurePhase([l EXCEPT !.failure = failure]) = FailurePhase(l)
         /\ [l EXCEPT !.failure = failure].run = l.run
<1>1. PICK m : m = [l EXCEPT !.failure = failure]
  OBVIOUS
<1>2. m \in Local /\ m.run = l.run /\ m.session = l.session /\ m.action = l.action
      /\ m.provider = l.provider /\ m.version = l.version /\ m.seen = l.seen
      /\ m.locator = l.locator
  BY <1>1 DEF Local
<1>3. Stands(ph, m)
  BY <1>2 DEF Stands, Held, ReadRow, Provisioned, Unborn, Reads
<1>4. FailurePhase(m) = FailurePhase(l)
  BY <1>2 DEF FailurePhase, Provisions
<1> QED BY <1>1, <1>2, <1>3, <1>4

LEMMA FinalizeFailsKeeps ==
  ASSUME LifecycleIInv, NEW p \in Procs, FinalizeFails(p)
  PROVE  LifecycleIInv'
<1>1. PICK l : l = local[p]
  OBVIOUS
<1>2. PICK m : m = [l EXCEPT !.failure = "failed_commit"]
  OBVIOUS
<1>3. l \in Local /\ Stands("finalize", l) /\ "failed_commit" \in Failures
  BY <1>1, Standing DEF FinalizeFails, Failures
<1>4. m \in Local /\ Stands("finalize", m) /\ m.run = l.run
      /\ FailurePhase(m) = FailurePhase(l)
  BY <1>2, <1>3, Failing
<1>5. PICK ph : ph = FailurePhase(m)
  OBVIOUS
<1>6. ph \in Phases /\ Stands(ph, m) /\ pc[p] \in Holding
  BY <1>4, <1>5, FailureStands DEF LifecycleIInv, FinalizeFails, Holding
<1>7. Goto(p, ph, m) /\ UNCHANGED <<store, taskFile, announced, acked>>
  BY <1>1, <1>2, <1>4, <1>5 DEF FinalizeFails
<1> QED BY <1>1, <1>4, <1>6, <1>7, Quiet, LocalStep

LEMMA ReentryConflictKeeps ==
  ASSUME LifecycleIInv, NEW p \in Procs, ReentryConflict(p)
  PROVE  LifecycleIInv'
<1>1. PICK l : l = local[p]
  OBVIOUS
<1>2. PICK m : m = [l EXCEPT !.failure = "failed_session_binding"]
  OBVIOUS
<1>3. l \in Local /\ Stands("finalize", l) /\ l.action # "start_review"
      /\ "failed_session_binding" \in Failures
  BY <1>1, Standing DEF ReentryConflict, Failures
<1>4. m \in Local /\ Stands("finalize", m) /\ m.run = l.run
      /\ FailurePhase(m) = FailurePhase(l)
  BY <1>2, <1>3, Failing
<1>5. FailurePhase(m) = "fail"
  BY <1>3, <1>4 DEF FailurePhase
<1>6. "fail" \in Phases /\ Stands("fail", m) /\ pc[p] \in Holding
  BY <1>4, <1>5, FailureStands DEF LifecycleIInv, ReentryConflict, Holding
<1>7. Goto(p, "fail", m) /\ UNCHANGED <<store, taskFile, announced, acked>>
  BY <1>1, <1>2 DEF ReentryConflict
<1> QED BY <1>1, <1>4, <1>6, <1>7, Quiet, LocalStep

LEMMA DemoteKeeps ==
  ASSUME LifecycleIInv, NEW p \in Procs, Demote(p)
  PROVE  LifecycleIInv'
<1>1. PICK l : l = local[p]
  OBVIOUS
<1>2. l \in Local /\ Stands("demote", l)
  BY <1>1, Standing DEF Demote
<1>3. l.action = "start_review" /\ l.provider = "hosted" /\ Held(l)
  BY <1>2 DEF Stands, Holding
<1>4. l.session \in Known /\ session[l.session].provider = "hosted"
      /\ ~session[l.session].locator
  BY <1>2, <1>3 DEF Stands, Provisioned
<1>5. PICK r : r = Reading(l, l.session)
  OBVIOUS
<1>6. r \in Local /\ r.action = l.action /\ r.session = l.session
      /\ r.run = l.run /\ r.provider = "hosted" /\ ReadRow(r)
  BY <1>2, <1>4, <1>5, ReadingType, JustRead DEF LifecycleIInv
<1>7. Held(r)
  BY <1>3, <1>6 DEF Held
<1>8. Stands("demote_put", r)
  BY <1>3, <1>4, <1>6, <1>7 DEF Stands, Holding, Provisioned, Unborn
<1>9. "demote_put" \in Phases /\ pc[p] \in Holding
  BY DEF Phases, Holding, Demote
<1>10. Goto(p, "demote_put", r) /\ UNCHANGED <<store, taskFile, announced, acked>>
  BY <1>1, <1>5 DEF Demote
<1> QED BY <1>1, <1>6, <1>8, <1>9, <1>10, Quiet, LocalStep

LEMMA FileNamesRun ==
  ASSUME TypeOK, NEW l \in Local, NamesRun(l)
  PROVE  taskFile' \in [Sessions -> Nat]
<1>1. l.run \in Nat
  BY DEF Local
<1> QED BY <1>1 DEF NamesRun, TypeOK

LEMMA StageTaskKeeps ==
  ASSUME LifecycleIInv, NEW p \in Procs, StageTask(p)
  PROVE  LifecycleIInv'
<1>1. PICK l : l = local[p]
  OBVIOUS
<1>2. l \in Local /\ Stands("task", l)
  BY <1>1, Standing DEF StageTask
<1>3. PICK ph : ph = IF Provisions(l) THEN "provision" ELSE "launch"
  OBVIOUS
<1>4. /\ l.action = "start_review" /\ Held(l)
      /\ session[l.session] = NoSession
      /\ l.provider = "hosted" \/ l.provider = "linked"
  BY <1>2 DEF Stands, Holding, Unborn, Local
<1>5. Stands(ph, l)
  BY <1>3, <1>4 DEF Stands, Holding, Provisioned, Unborn, Reads, Provisions
<1>6. ph \in Phases /\ pc[p] \in Holding
  BY <1>3 DEF Phases, Holding, StageTask
<1>7. taskFile' \in [Sessions -> Nat]
  BY <1>1, <1>2, FileNamesRun DEF StageTask, LifecycleIInv
<1>8. UNCHANGED <<session, runs, attempts, announced, acked>> /\ results' \in Seq(Result)
  BY StoreTypes DEF StageTask, store, LifecycleIInv
<1>9. Goto(p, ph, l)
  BY <1>1, <1>3 DEF StageTask
<1> QED BY <1>1, <1>2, <1>5, <1>6, <1>7, <1>8, <1>9, LocalStep

\* A process that ends.
LEMMA Ends ==
  ASSUME LifecycleIInv, NEW p \in Procs, NEW l \in Local, Goto(p, "idle", l),
         UNCHANGED <<session, runs, attempts, announced, acked>>,
         taskFile' \in [Sessions -> Nat], results' \in Seq(Result)
  PROVE  LifecycleIInv'
<1>1. "idle" \in Phases /\ "idle" \notin Holding
  BY DEF Phases, Holding
<1> QED BY <1>1, LocalStep

LEMMA RebindKeeps ==
  ASSUME LifecycleIInv, NEW p \in Procs, Rebind(p)
  PROVE  LifecycleIInv'
<1>1. PICK l : l = local[p]
  OBVIOUS
<1>2. l \in Local /\ NamesRun(l) /\ Goto(p, "idle", l)
  BY <1>1, Standing DEF Rebind
<1>3. UNCHANGED <<session, runs, attempts, announced, acked>> /\ results' \in Seq(Result)
  BY StoreTypes DEF Rebind, store, LifecycleIInv
<1> QED BY <1>2, <1>3, FileNamesRun, Ends DEF LifecycleIInv

LEMMA StopKeeps ==
  ASSUME LifecycleIInv, NEW p \in Procs, Stop(p)
  PROVE  LifecycleIInv'
BY Quiet, BlankType, Ends DEF Stop

LEMMA AgentReadKeeps ==
  ASSUME LifecycleIInv, NEW p \in Procs, AgentRead(p)
  PROVE  LifecycleIInv'
<1>1. PICK s \in Sessions :
        Goto(p, "w_bind", [Blank EXCEPT !.session = s, !.run = taskFile[s]])
  BY DEF AgentRead
<1>2. PICK l : l = [Blank EXCEPT !.session = s, !.run = taskFile[s]]
  OBVIOUS
<1>3. taskFile[s] \in Nat
  BY DEF LifecycleIInv, TypeOK
<1>4. l \in Local /\ l.session = s
  BY <1>2, <1>3, BlankType DEF Local, Blank
<1>5. Stands("w_bind", l)
  BY <1>4 DEF Stands, Holding, Provisioned, Unborn, Reads
<1>6. "w_bind" \in Phases /\ "w_bind" \notin Holding
  BY DEF Phases, Holding
<1>7. UNCHANGED <<store, taskFile, announced, acked>>
  BY DEF AgentRead
<1> QED BY <1>1, <1>2, <1>4, <1>5, <1>6, <1>7, Quiet, LocalStep

LEMMA AgentBindKeeps ==
  ASSUME LifecycleIInv, NEW p \in Procs, AgentBind(p)
  PROVE  LifecycleIInv'
<1>1. PICK l : l = local[p]
  OBVIOUS
<1>2. l \in Local /\ UNCHANGED <<store, taskFile, announced, acked>>
  BY <1>1, Standing DEF AgentBind
<1>3. ASSUME l.session \in Known, Goto(p, "w_record", Reading(l, l.session))
      PROVE  LifecycleIInv'
  <2>1. PICK r : r = Reading(l, l.session)
    OBVIOUS
  <2>2. r \in Local /\ ReadRow(r)
    BY <1>2, <1>3, <2>1, ReadingType, JustRead DEF LifecycleIInv
  <2>3. Stands("w_record", r)
    BY <2>2 DEF Stands, Holding, Provisioned, Unborn
  <2>4. "w_record" \in Phases /\ "w_record" \notin Holding
    BY DEF Phases, Holding
  <2> QED BY <1>2, <1>3, <2>1, <2>2, <2>3, <2>4, Quiet, LocalStep
<1>4. ASSUME Goto(p, "idle", l) PROVE LifecycleIInv'
  BY <1>2, <1>4, Quiet, Ends
<1> QED BY <1>1, <1>3, <1>4 DEF AgentBind

LEMMA AgentRecordKeeps ==
  ASSUME LifecycleIInv, NEW p \in Procs, AgentRecord(p)
  PROVE  LifecycleIInv'
<1>1. PICK l : l = local[p]
  OBVIOUS
<1>2. l \in Local /\ Stands("w_record", l)
  BY <1>1, Standing DEF AgentRecord
<1>3. ReadRow(l)
  BY <1>2 DEF Stands, Reads
<1>4. [session |-> l.session, run |-> l.run] \in Result
  BY <1>2, <1>3 DEF ReadRow, Known, Local, Result
<1>5. results' \in Seq(Result)
  BY <1>1, <1>4, StoreTypes DEF AgentRecord, LifecycleIInv
<1>6. /\ UNCHANGED <<session, runs, attempts, announced, acked>>
      /\ taskFile' \in [Sessions -> Nat]
  BY StoreTypes DEF AgentRecord, LifecycleIInv
<1>7. Stands("w_ready", l)
  BY <1>3 DEF Stands, Holding, Provisioned, Unborn
<1>8. "w_ready" \in Phases /\ "w_ready" \notin Holding
  BY DEF Phases, Holding
<1>9. Goto(p, "w_ready", l) \/ Goto(p, "idle", l)
  BY <1>1 DEF AgentRecord
<1> QED BY <1>2, <1>5, <1>6, <1>7, <1>8, <1>9, LocalStep, Ends

LEMMA AgentReloadKeeps ==
  ASSUME LifecycleIInv, NEW p \in Procs, AgentReload(p)
  PROVE  LifecycleIInv'
<1>1. PICK l : l = local[p]
  OBVIOUS
<1>2. l \in Local /\ Stands("w_reload", l)
  BY <1>1, Standing DEF AgentReload
<1>3. l.session \in Known
  BY <1>2 DEF Stands, Reads, ReadRow
<1>4. PICK r : r = Reading(l, l.session)
  OBVIOUS
<1>5. r \in Local /\ ReadRow(r)
  BY <1>2, <1>3, <1>4, ReadingType, JustRead DEF LifecycleIInv
<1>6. PICK m : m = [r EXCEPT !.retried = TRUE]
  OBVIOUS
<1>7. m \in Local /\ ReadRow(m)
  BY <1>5, <1>6 DEF ReadRow, Local
<1>8. Stands("w_ready", m)
  BY <1>7 DEF Stands, Holding, Provisioned, Unborn
<1>9. "w_ready" \in Phases /\ "w_ready" \notin Holding
  BY DEF Phases, Holding
<1>10. Goto(p, "w_ready", m) /\ UNCHANGED <<store, taskFile, announced, acked>>
  BY <1>1, <1>4, <1>6 DEF AgentReload
<1> QED BY <1>7, <1>8, <1>9, <1>10, Quiet, LocalStep

-----------------------------------------------------------------------------
(* The steps that change an attempt.                                       *)

\* The rows as they are after a step that leaves sessions and runs alone.
LEMMA RowsKept ==
  ASSUME TypeOK, RowsInv, NEW s0, NEW n0, Evolves(s0, n0),
         UNCHANGED <<session, runs, announced, acked>>
  PROVE  RowsInv'
<1>1. Known' = Known
  BY DEF Known
<1>2. ASSUME NEW i \in DOMAIN attempts
      PROVE  /\ i \in DOMAIN attempts'
             /\ attempts'[i].session = attempts[i].session
             /\ attempts'[i].action = attempts[i].action
             /\ attempts[i].state = "verified" => attempts'[i].state = "verified"
  BY DEF Evolves
<1>3. Minted'
  BY <1>1, <1>2 DEF RowsInv, Minted
<1>4. RunsCommitted'
  BY <1>1, <1>2 DEF RowsInv, RunsCommitted
<1>5. SessionsVerified'
  BY <1>1, <1>2 DEF RowsInv, SessionsVerified
<1>6. Located' /\ ReentriesSeeAnnouncements'
  BY <1>1 DEF RowsInv, Located, ReentriesSeeAnnouncements
<1> QED BY <1>3, <1>4, <1>5, <1>6 DEF RowsInv

LEMMA AttemptStep ==
  ASSUME LifecycleIInv, NEW p \in Procs, NEW ph \in Phases, NEW l \in Local,
         Goto(p, ph, l), attempts' \in Seq(Attempt), MintOnce',
         UNCHANGED <<session, runs, taskFile, results, announced, acked>>,
         NEW n0, Evolves(NoSession, n0),
         n0 \in DOMAIN attempts => pc[p] \in Holding /\ local[p].run = n0,
         ph = "idle" \/ Stands(ph, l)',
         ph \in Holding => \/ pc[p] \in Holding /\ l.run = local[p].run
                           \/ l.run \notin DOMAIN attempts
  PROVE  LifecycleIInv'
<1>1. /\ pc' \in [Procs -> Phases] /\ local' \in [Procs -> Local]
      /\ pc'[p] = ph /\ (ph # "idle" => local'[p] = l)
      /\ \A q \in Procs \ {p} : pc'[q] = pc[q] /\ local'[q] = local[q]
  BY GotoType DEF LifecycleIInv
<1>2. TypeOK'
  BY <1>1 DEF LifecycleIInv, TypeOK
<1>3. RowsInv'
  BY RowsKept DEF LifecycleIInv
<1>4. Stands(ph, l)'
  BY DEF Stands, Holding, Provisioned, Unborn, Reads
<1>5. NoSession \notin Sessions
  BY NoneBorn DEF LifecycleIInv
<1>6. OwnAttempts' /\ (\A q \in Procs : Stands(pc[q], local[q]))'
  BY <1>1, <1>2, <1>4, <1>5, OthersStand
<1> QED BY <1>2, <1>3, <1>6 DEF LifecycleIInv

\* The rows do not move: only the attempts tell Stands from what it was.
LEMMA StandsWithRows ==
  ASSUME NEW ph, NEW l, Stands(ph, l), UNCHANGED <<session, announced>>,
         ph \in Holding => Held(l)'
  PROVE  Stands(ph, l)'
BY DEF Stands, Known, ReadRow, Provisioned, Unborn, Reads

LEMMA AbandonKeeps ==
  ASSUME LifecycleIInv, NEW p \in Procs, Abandon(p)
  PROVE  LifecycleIInv'
<1>1. PICK l : l = local[p]
  OBVIOUS
<1>2. l \in Local /\ Stands("abandon", l)
  BY <1>1, Standing DEF Abandon
<1>3. /\ attempts' = [i \in DOMAIN attempts |->
                        IF Abandons(attempts[i], l)
                        THEN [attempts[i] EXCEPT !.state = "abandoned"]
                        ELSE attempts[i]]
      /\ Goto(p, "insert", l)
      /\ UNCHANGED <<session, runs, taskFile, results, announced, acked>>
  BY <1>1 DEF Abandon
<1>4. attempts \in Seq(Attempt) /\ DOMAIN attempts = 1..Len(attempts) /\ Len(attempts) \in Nat
  BY DEF LifecycleIInv, TypeOK
<1>5. ASSUME NEW i \in DOMAIN attempts
      PROVE  /\ attempts'[i] \in Attempt
             /\ attempts'[i].session = attempts[i].session
             /\ attempts'[i].action = attempts[i].action
             /\ attempts'[i].state = "verified" <=> attempts[i].state = "verified"
  <2>1. attempts[i] \in Attempt
    BY <1>4
  <2> QED BY <1>3, <2>1 DEF Attempt, Abandons, InFlight, Terminal
<1>6. DOMAIN attempts' = DOMAIN attempts
  BY <1>3
<1>7. attempts' \in Seq(Attempt)
  BY <1>3, <1>4, <1>5, <1>6
<1>8. MintOnce'
  BY <1>5, <1>6 DEF LifecycleIInv, MintOnce
<1>9. Evolves(NoSession, 0)
  <2>1. \A s \in Known : session[s].version \in Nat
    BY RowType DEF Row, LifecycleIInv
  <2> QED BY <1>3, <1>5, <1>6, <2>1 DEF Evolves, Known
<1>10. "insert" \in Phases /\ "insert" \notin Holding
  BY DEF Phases, Holding
<1>11. Stands("insert", l)'
  <2>1. l.action # "start_review" /\ ReadRow(l)
    BY <1>2 DEF Stands, Reads
  <2>2. ReadRow(l)'
    BY <1>3, <2>1 DEF ReadRow, Known
  <2> QED BY <2>1, <2>2 DEF Stands, Holding, Provisioned, Unborn
<1>12. 0 \notin DOMAIN attempts
  BY NoneBorn DEF LifecycleIInv
<1> QED BY <1>2, <1>3, <1>7, <1>8, <1>9, <1>10, <1>11, <1>12, AttemptStep

LEMMA StateSet ==
  ASSUME TypeOK, MintOnce, NEW l \in Local, Held(l), NEW state \in InFlight \cup Terminal,
         SetState(l.run, state)
  PROVE  /\ attempts' \in Seq(Attempt) /\ MintOnce'
         /\ DOMAIN attempts' = DOMAIN attempts
         /\ \A i \in DOMAIN attempts :
              /\ attempts'[i].session = attempts[i].session
              /\ attempts'[i].action = attempts[i].action
              /\ attempts'[i].state = IF i = l.run THEN state ELSE attempts[i].state
<1>1. attempts \in Seq(Attempt) /\ DOMAIN attempts = 1..Len(attempts) /\ Len(attempts) \in Nat
  BY DEF TypeOK
<1>2. l.run \in DOMAIN attempts /\ attempts[l.run] \in Attempt
  BY HeldType
<1>3. DOMAIN attempts' = DOMAIN attempts
  BY DEF SetState
<1>4. ASSUME NEW i \in DOMAIN attempts
      PROVE  /\ attempts'[i] \in Attempt
             /\ attempts'[i].session = attempts[i].session
             /\ attempts'[i].action = attempts[i].action
             /\ attempts'[i].state = IF i = l.run THEN state ELSE attempts[i].state
  <2>1. attempts[i] \in Attempt
    BY <1>1
  <2>2. CASE i = l.run
    <3>1. attempts'[i] = [attempts[i] EXCEPT !.state = state]
      BY <2>2 DEF SetState
    <3> QED BY <2>1, <2>2, <3>1 DEF Attempt
  <2>3. CASE i # l.run
    <3>1. attempts'[i] = attempts[i]
      BY <2>3 DEF SetState
    <3> QED BY <2>1, <2>3, <3>1
  <2> QED BY <2>2, <2>3
<1>5. attempts' \in Seq(Attempt)
  <2>1. attempts' = [i \in 1..Len(attempts) |-> attempts'[i]]
    BY <1>1 DEF SetState
  <2> QED BY <1>1, <1>4, <2>1
<1>6. MintOnce'
  BY <1>3, <1>4 DEF MintOnce
<1> QED BY <1>3, <1>4, <1>5, <1>6

LEMMA LaunchedKeeps ==
  ASSUME LifecycleIInv, NEW p \in Procs, Launched(p)
  PROVE  LifecycleIInv'
<1>1. PICK l : l = local[p]
  OBVIOUS
<1>2. l \in Local /\ Stands("launch", l) /\ Held(l)
  BY <1>1, Standing DEF Launched, Stands, Holding
<1>3. PICK state : state = "awaiting_provider_verification"
  OBVIOUS
<1>4. state \in InFlight \cup Terminal /\ state # "verified"
  BY <1>3 DEF InFlight
<1>5. /\ l.action = "start_review" \/ l.provider = "linked" \/ l.locator
      /\ SetState(l.run, state) /\ Goto(p, "finalize", l)
      /\ UNCHANGED <<session, runs, taskFile, results, announced, acked>>
  BY <1>1, <1>3 DEF Launched
<1>6. /\ attempts' \in Seq(Attempt) /\ MintOnce'
      /\ DOMAIN attempts' = DOMAIN attempts
      /\ \A i \in DOMAIN attempts :
           /\ attempts'[i].session = attempts[i].session
           /\ attempts'[i].action = attempts[i].action
           /\ attempts'[i].state = IF i = l.run THEN state ELSE attempts[i].state
  BY <1>2, <1>4, <1>5, StateSet DEF LifecycleIInv
<1>7. attempts[l.run].state # "verified" /\ l.run \in DOMAIN attempts
  BY <1>2 DEF Held
<1>8. Evolves(NoSession, l.run)
  <2>1. \A s \in Known : session[s].version \in Nat
    BY RowType DEF Row, LifecycleIInv
  <2> QED BY <1>4, <1>5, <1>6, <1>7, <2>1 DEF Evolves, Known
<1>9. Held(l)'
  BY <1>2, <1>4, <1>6 DEF Held
<1>10. Stands("finalize", l)
  <2>1. l.action # "start_review" => ReadRow(l)
    BY <1>2 DEF Stands, Reads
  <2>2. l.action # "start_review" => session[l.session].locator
    <3> SUFFICES ASSUME l.action # "start_review" PROVE session[l.session].locator
      OBVIOUS
    <3>1. CASE l.locator
      BY <2>1, <3>1 DEF ReadRow
    <3>2. CASE l.provider = "linked"
      BY <2>1, <3>2 DEF ReadRow, LifecycleIInv, RowsInv, Located
    <3> QED BY <1>5, <3>1, <3>2
  <2>3. Provisioned("finalize", l) => Provisioned("launch", l)
    BY DEF Provisioned
  <2>4. Unborn("finalize", l) => Unborn("launch", l)
    BY DEF Unborn, Holding
  <2>5. Provisioned("finalize", l) => /\ l.session \in Known
                                      /\ session[l.session].provider = "hosted"
                                      /\ ~session[l.session].locator
    BY <1>2, <2>3 DEF Stands
  <2>6. Unborn("finalize", l) => session[l.session] = NoSession
    BY <1>2, <2>4 DEF Stands
  <2>7. Reads("finalize", l) => ReadRow(l)
    BY <2>1 DEF Reads
  <2> QED BY <1>2, <2>2, <2>5, <2>6, <2>7 DEF Stands
<1>11. Stands("finalize", l)'
  BY <1>5, <1>9, <1>10, StandsWithRows
<1>12. "finalize" \in Phases /\ pc[p] \in Holding
  BY DEF Phases, Holding, Launched
<1> QED BY <1>1, <1>2, <1>5, <1>6, <1>8, <1>11, <1>12, AttemptStep

LEMMA FailKeeps ==
  ASSUME LifecycleIInv, NEW p \in Procs, Fail(p)
  PROVE  LifecycleIInv'
<1>1. PICK l : l = local[p]
  OBVIOUS
<1>2. l \in Local /\ Held(l)
  BY <1>1, Standing DEF Fail, Stands, Holding
<1>3. PICK state : state = l.failure
  OBVIOUS
<1>4. state \in InFlight \cup Terminal /\ state # "verified"
  BY <1>2, <1>3 DEF Terminal, Local, Failures
<1>5. /\ SetState(l.run, state) /\ Goto(p, "idle", l)
      /\ UNCHANGED <<session, runs, taskFile, results, announced, acked>>
  BY <1>1, <1>3 DEF Fail
<1>6. /\ attempts' \in Seq(Attempt) /\ MintOnce'
      /\ DOMAIN attempts' = DOMAIN attempts
      /\ \A i \in DOMAIN attempts :
           /\ attempts'[i].session = attempts[i].session
           /\ attempts'[i].action = attempts[i].action
           /\ attempts'[i].state = IF i = l.run THEN state ELSE attempts[i].state
  BY <1>2, <1>4, <1>5, StateSet DEF LifecycleIInv
<1>7. attempts[l.run].state # "verified" /\ l.run \in DOMAIN attempts
  BY <1>2 DEF Held
<1>8. Evolves(NoSession, l.run)
  <2>1. \A s \in Known : session[s].version \in Nat
    BY RowType DEF Row, LifecycleIInv
  <2> QED BY <1>4, <1>5, <1>6, <1>7, <2>1 DEF Evolves, Known
<1>9. "idle" \in Phases /\ "idle" \notin Holding /\ pc[p] \in Holding
  BY DEF Phases, Holding, Fail
<1> QED BY <1>1, <1>2, <1>5, <1>6, <1>8, <1>9, AttemptStep

LEMMA InsertKeeps ==
  ASSUME LifecycleIInv, NEW p \in Procs, Insert(p)
  PROVE  LifecycleIInv'
<1>1. PICK l : l = local[p]
  OBVIOUS
<1>2. l \in Local /\ Stands("insert", l)
  BY <1>1, Standing DEF Insert
<1>3. PICK s \in IF l.action = "start_review"
                 THEN Sessions \ {attempts[i].session : i \in DOMAIN attempts}
                 ELSE {l.session} :
        /\ attempts' = Append(attempts, [action |-> l.action, session |-> s,
                                         state |-> "dispatching"])
        /\ Goto(p, IF l.action = "start_review" THEN "task" ELSE "launch",
                [l EXCEPT !.session = s, !.run = Len(attempts) + 1])
  BY <1>1 DEF Insert
<1>4. PICK n : n = Len(attempts) + 1
  OBVIOUS
<1>5. PICK m : m = [l EXCEPT !.session = s, !.run = n]
  OBVIOUS
<1>6. PICK ph : ph = IF l.action = "start_review" THEN "task" ELSE "launch"
  OBVIOUS
<1>7. PICK a : a = [action |-> l.action, session |-> s, state |-> "dispatching"]
  OBVIOUS
<1>8. l.action # "start_review" => ReadRow(l)
  BY <1>2 DEF Stands, Reads
<1>9. s \in Sessions
  BY <1>3, <1>8 DEF ReadRow, Known
<1>10. /\ attempts \in Seq(Attempt) /\ DOMAIN attempts = 1..Len(attempts)
       /\ Len(attempts) \in Nat /\ n \in Nat
  BY <1>4 DEF LifecycleIInv, TypeOK
<1>11. a \in Attempt
  BY <1>2, <1>7, <1>9 DEF Attempt, Local, InFlight
<1>12. m \in Local /\ m.session = s /\ m.run = n /\ m.action = l.action
       /\ m.provider = l.provider /\ m.version = l.version /\ m.seen = l.seen
       /\ m.locator = l.locator
  BY <1>2, <1>5, <1>9, <1>10 DEF Local
<1>13. /\ attempts' = Append(attempts, a) /\ attempts' \in Seq(Attempt)
       /\ DOMAIN attempts' = DOMAIN attempts \cup {n} /\ n \notin DOMAIN attempts
       /\ attempts'[n] = a
       /\ \A i \in DOMAIN attempts : attempts'[i] = attempts[i]
  <2>1. attempts' = Append(attempts, a)
    BY <1>3, <1>7
  <2> QED BY <2>1, <1>4, <1>10, <1>11
<1>14. UNCHANGED <<session, runs, taskFile, results, announced, acked>>
  BY DEF Insert
<1>15. MintOnce'
  <2>1. ASSUME NEW i \in DOMAIN attempts, a.action = "start_review"
        PROVE  attempts[i].session # s
    BY <1>3, <1>7, <2>1
  <2> QED BY <1>7, <1>13, <2>1 DEF LifecycleIInv, MintOnce
<1>16. Evolves(NoSession, 0)
  <2>1. \A t \in Known : session[t].version \in Nat
    BY RowType DEF Row, LifecycleIInv
  <2> QED BY <1>13, <1>14, <2>1 DEF Evolves, Known
<1>17. Held(m)'
  BY <1>7, <1>12, <1>13 DEF Held
<1>18. l.action = "start_review" => session[s] = NoSession
  <2>1. l.action = "start_review" => s \notin Known
    BY <1>3 DEF LifecycleIInv, RowsInv, Minted
  <2> QED BY <1>9, <2>1 DEF Known
<1>19. Stands(ph, m)'
  <2>1. CASE l.action = "start_review"
    <3>1. ph = "task" /\ session'[s] = NoSession
      BY <1>6, <1>14, <1>18, <2>1
    <3> QED BY <1>12, <1>17, <2>1, <3>1 DEF Stands, Holding, Provisioned, Reads
  <2>2. CASE l.action # "start_review"
    <3>1. ph = "launch" /\ s = l.session
      BY <1>3, <1>6, <2>2
    <3>2. ReadRow(m)'
      BY <1>8, <1>12, <1>14, <2>2, <3>1 DEF ReadRow, Known
    <3> QED BY <1>12, <1>17, <2>2, <3>1, <3>2 DEF Stands, Provisioned, Unborn
  <2> QED BY <2>1, <2>2
<1>20. ph \in Phases
  BY <1>6 DEF Phases
<1>21. 0 \notin DOMAIN attempts
  BY NoneBorn DEF LifecycleIInv
<1>22. Goto(p, ph, m)
  BY <1>3, <1>4, <1>5, <1>6
<1> QED BY <1>12, <1>13, <1>14, <1>15, <1>16, <1>19, <1>20, <1>21, <1>22, AttemptStep

-----------------------------------------------------------------------------
(* The steps that change a row or a run.                                   *)

\* What is left to show of them: the rows themselves, and that the process
\* and the others still stand.
LEMMA RowStep ==
  ASSUME LifecycleIInv, NEW p \in Procs, NEW ph \in Phases, NEW l \in Local,
         Goto(p, ph, l), UNCHANGED <<taskFile, results>>,
         attempts' \in Seq(Attempt), MintOnce',
         session' \in [Sessions -> Row \cup {NoSession}],
         runs' \in [Sessions -> Seq(Nat)],
         announced' \in [Sessions -> Nat], acked' \in [Sessions -> Nat],
         NEW s0, NEW n0, Evolves(s0, n0),
         n0 \in DOMAIN attempts => pc[p] \in Holding /\ local[p].run = n0,
         s0 \in Sessions => /\ pc[p] \in Holding /\ local[p].session = s0
                            /\ local[p].action = "start_review",
         ph = "idle" \/ Stands(ph, l)',
         ph \in Holding => pc[p] \in Holding /\ l.run = local[p].run,
         RowsInv'
  PROVE  LifecycleIInv'
<1>1. /\ pc' \in [Procs -> Phases] /\ local' \in [Procs -> Local]
      /\ pc'[p] = ph /\ (ph # "idle" => local'[p] = l)
      /\ \A q \in Procs \ {p} : pc'[q] = pc[q] /\ local'[q] = local[q]
  BY GotoType DEF LifecycleIInv
<1>2. TypeOK'
  BY <1>1 DEF LifecycleIInv, TypeOK
<1>3. Stands(ph, l)'
  BY DEF Stands, Holding, Provisioned, Unborn, Reads
<1>4. OwnAttempts' /\ (\A q \in Procs : Stands(pc[q], local[q]))'
  BY <1>1, <1>2, <1>3, OthersStand
<1> QED BY <1>2, <1>4 DEF LifecycleIInv

LEMMA StateTypes ==
  ASSUME TypeOK
  PROVE  /\ session \in [Sessions -> Row \cup {NoSession}]
         /\ runs \in [Sessions -> Seq(Nat)] /\ attempts \in Seq(Attempt)
         /\ announced \in [Sessions -> Nat] /\ acked \in [Sessions -> Nat]
BY DEF TypeOK

LEMMA ProvisionKeeps ==
  ASSUME LifecycleIInv, NEW p \in Procs, Provision(p)
  PROVE  LifecycleIInv'
<1>1. PICK l : l = local[p]
  OBVIOUS
<1>2. /\ l \in Local /\ Held(l) /\ l.action = "start_review"
      /\ l.provider = "hosted" /\ session[l.session] = NoSession
  BY <1>1, Standing DEF Provision, Stands, Holding, Unborn
<1>3. PICK s : s = l.session
  OBVIOUS
<1>4. PICK row : row = [provider |-> l.provider, attention |-> "review_launched",
                        version |-> 0, locator |-> FALSE]
  OBVIOUS
<1>5. /\ session' = [session EXCEPT ![s] = row] /\ Goto(p, "provision_run", l)
      /\ UNCHANGED <<runs, attempts, taskFile, results, announced, acked>>
  BY <1>1, <1>3, <1>4 DEF Provision
<1>6. s \in Sessions /\ s \notin Known /\ attempts[l.run].session = s
      /\ l.run \in DOMAIN attempts
  BY <1>2, <1>3, HeldType DEF LifecycleIInv, Known, Held
<1>7. row \in Row /\ row # NoSession /\ row.provider = "hosted" /\ ~row.locator
      /\ row.attention = "review_launched"
  <2>1. row \in Row /\ row.provider = "hosted" /\ ~row.locator
        /\ row.attention = "review_launched"
    BY <1>2, <1>4 DEF Row, Attentions
  <2> QED BY <2>1, NoSessionAssumption
<1>8. session \in [Sessions -> Row \cup {NoSession}]
  BY StateTypes DEF LifecycleIInv
<1>9. /\ session' \in [Sessions -> Row \cup {NoSession}]
      /\ session'[s] = row /\ \A t \in Sessions \ {s} : session'[t] = session[t]
  BY <1>5, <1>6, <1>7, <1>8
<1>10. Known' = Known \cup {s}
  BY <1>6, <1>7, <1>9 DEF Known
<1>11. Evolves(s, 0)
  <2>1. \A t \in Known : session[t].version \in Nat /\ t # s /\ t \in Sessions
    BY <1>6, RowType DEF Row, LifecycleIInv
  <2> QED BY <1>5, <1>6, <1>9, <2>1 DEF Evolves, Known
<1>12. RowsInv'
  <2>1. Minted'
    BY <1>5, <1>6, <1>10 DEF LifecycleIInv, RowsInv, Minted
  <2>2. RunsCommitted'
    BY <1>5, <1>6, <1>7, <1>9, <1>10 DEF LifecycleIInv, RowsInv, RunsCommitted, Known
  <2>3. SessionsVerified' /\ Located' /\ ReentriesSeeAnnouncements'
    BY <1>5, <1>6, <1>7, <1>9, <1>10
       DEF LifecycleIInv, RowsInv, SessionsVerified, Located, ReentriesSeeAnnouncements, Known
  <2> QED BY <2>1, <2>2, <2>3 DEF RowsInv
<1>13. MintOnce'
  BY <1>5 DEF LifecycleIInv, MintOnce
<1>14. Stands("provision_run", l)'
  <2>1. Held(l)'
    BY <1>2, <1>5 DEF Held
  <2> QED BY <1>2, <1>3, <1>7, <1>9, <1>10, <2>1 DEF Stands, Provisioned, Unborn, Reads
<1>15. "provision_run" \in Phases /\ pc[p] \in Holding /\ 0 \notin DOMAIN attempts
  BY NoneBorn DEF Phases, Holding, Provision, LifecycleIInv
<1>16. attempts' \in Seq(Attempt) /\ runs' \in [Sessions -> Seq(Nat)]
       /\ announced' \in [Sessions -> Nat] /\ acked' \in [Sessions -> Nat]
  BY <1>5, StateTypes DEF LifecycleIInv
<1> QED BY <1>1, <1>2, <1>3, <1>5, <1>9, <1>11, <1>12, <1>13, <1>14, <1>15, <1>16, RowStep

LEMMA ProvisionRunKeeps ==
  ASSUME LifecycleIInv, NEW p \in Procs, ProvisionRun(p)
  PROVE  LifecycleIInv'
<1>1. PICK l : l = local[p]
  OBVIOUS
<1>2. l \in Local /\ Held(l) /\ Stands("provision_run", l)
      /\ l.action = "start_review" /\ l.provider = "hosted"
  BY <1>1, Standing DEF ProvisionRun, Stands, Holding
<1>3. PICK s : s = l.session
  OBVIOUS
<1>4. /\ s \in Known /\ session[s].provider = "hosted" /\ ~session[s].locator
      /\ s \in Sessions /\ l.run \in Nat /\ l.run \in DOMAIN attempts
      /\ attempts[l.run].action = "start_review"
  BY <1>2, <1>3, HeldType DEF Stands, Provisioned, Held, LifecycleIInv
<1>5. /\ runs' = [runs EXCEPT ![s] = Append(@, l.run)] /\ Goto(p, "launch", l)
      /\ UNCHANGED <<session, attempts, taskFile, results, announced, acked>>
  BY <1>1, <1>3 DEF ProvisionRun
<1>6. /\ runs' \in [Sessions -> Seq(Nat)]
      /\ \A t \in Sessions : \A i \in DOMAIN runs'[t] :
           \/ i \in DOMAIN runs[t] /\ runs'[t][i] = runs[t][i]
           \/ t = s /\ runs'[t][i] = l.run
  <2>1. runs \in [Sessions -> Seq(Nat)] /\ runs[s] \in Seq(Nat)
    BY <1>4, StateTypes DEF LifecycleIInv
  <2> QED BY <1>4, <1>5, <2>1
<1>7. Known' = Known
  BY <1>5 DEF Known
<1>8. RowsInv'
  <2>1. RunsCommitted'
    BY <1>4, <1>5, <1>6, <1>7 DEF LifecycleIInv, RowsInv, RunsCommitted
  <2>2. Minted' /\ SessionsVerified' /\ Located' /\ ReentriesSeeAnnouncements'
    BY <1>5, <1>7 DEF LifecycleIInv, RowsInv, Minted, SessionsVerified, Located,
                      ReentriesSeeAnnouncements
  <2> QED BY <2>1, <2>2 DEF RowsInv
<1>9. Evolves(NoSession, 0)
  BY <1>5, EvolvesUnchanged DEF LifecycleIInv
<1>10. MintOnce'
  BY <1>5 DEF LifecycleIInv, MintOnce
<1>11. Stands("launch", l)'
  <2>1. Held(l)'
    BY <1>2, <1>5 DEF Held
  <2>2. Provisioned("launch", l) /\ ~Unborn("launch", l) /\ ~Reads("launch", l)
    BY <1>2 DEF Provisioned, Unborn, Reads
  <2>3. session'[s].provider = "hosted" /\ ~session'[s].locator
    BY <1>4, <1>5
  <2> QED BY <1>2, <1>3, <1>4, <1>7, <2>1, <2>2, <2>3 DEF Stands, Provisioned, Unborn, Reads
<1>12. "launch" \in Phases /\ pc[p] \in Holding /\ 0 \notin DOMAIN attempts
       /\ NoSession \notin Sessions
  BY NoneBorn DEF Phases, Holding, ProvisionRun, LifecycleIInv
<1>13. /\ attempts' \in Seq(Attempt) /\ session' \in [Sessions -> Row \cup {NoSession}]
       /\ announced' \in [Sessions -> Nat] /\ acked' \in [Sessions -> Nat]
  BY <1>5, StateTypes DEF LifecycleIInv
<1> QED BY <1>1, <1>2, <1>5, <1>6, <1>8, <1>9, <1>10, <1>11, <1>12, <1>13, RowStep

\* The row of s is replaced by a newer one of the same provider.
LEMMA RowReplaced ==
  ASSUME TypeOK, NEW s \in Known, NEW row \in Row,
         session' = [session EXCEPT ![s] = row],
         row.provider = session[s].provider,
         session[s].version < row.version,
         \A t \in Sessions \ {s} : announced'[t] = announced[t]
  PROVE  /\ session' \in [Sessions -> Row \cup {NoSession}]
         /\ Known' = Known /\ session'[s] = row
         /\ \A t \in Sessions \ {s} : session'[t] = session[t]
         /\ \A t \in Known :
              /\ session'[t] # NoSession
              /\ session'[t].provider = session[t].provider
              /\ session[t].version <= session'[t].version
              /\ session'[t].version = session[t].version =>
                   announced'[t] = announced[t]
         /\ \A t \in Sessions \ Known : session'[t] = NoSession
<1>1. session \in [Sessions -> Row \cup {NoSession}] /\ s \in Sessions
  BY StateTypes DEF Known
<1>2. row # NoSession /\ session[s] # NoSession
  BY NoSessionAssumption DEF Known
<1>3. /\ session' \in [Sessions -> Row \cup {NoSession}]
      /\ session'[s] = row
      /\ \A t \in Sessions \ {s} : session'[t] = session[t]
  BY <1>1
<1>4. Known' = Known
  BY <1>2, <1>3 DEF Known
<1>5. \A t \in Known : session[t].version \in Nat /\ t \in Sessions
  BY RowType DEF Row
<1>6. row.version \in Nat
  BY DEF Row
<1>7. ASSUME NEW t \in Known
      PROVE  /\ session'[t] # NoSession
             /\ session'[t].provider = session[t].provider
             /\ session[t].version <= session'[t].version
             /\ session'[t].version = session[t].version =>
                  announced'[t] = announced[t]
  <2>1. CASE t = s
    BY <1>2, <1>3, <1>5, <1>6, <2>1
  <2>2. CASE t # s
    BY <1>3, <1>5, <2>2 DEF Known
  <2> QED BY <2>1, <2>2
<1>8. \A t \in Sessions \ Known : session'[t] = NoSession
  BY <1>3 DEF Known
<1> QED BY <1>3, <1>4, <1>7, <1>8

LEMMA NextVersion ==
  ASSUME NEW old \in Row, NEW attention \in Attentions,
         NEW row, row = Written(old, attention)
  PROVE  /\ row \in Row /\ row.provider = old.provider /\ row.locator = old.locator
         /\ row.version = old.version + 1 /\ row.attention = attention
         /\ old.version \in Nat /\ old.version < row.version
<1>1. old.version \in Nat /\ old.version + 1 \in Nat
  BY DEF Row
<1>2. PICK n : n = old.version + 1
  OBVIOUS
<1>3. row = [old EXCEPT !.attention = attention, !.version = n]
  BY <1>2 DEF Written
<1>4. row \in Row /\ row.provider = old.provider /\ row.locator = old.locator
      /\ row.version = n /\ row.attention = attention
  BY <1>1, <1>2, <1>3 DEF Row
<1> QED BY <1>1, <1>2, <1>4

LEMMA DemotePutKeeps ==
  ASSUME LifecycleIInv, NEW p \in Procs, DemotePut(p)
  PROVE  LifecycleIInv'
<1>1. PICK l : l = local[p]
  OBVIOUS
<1>2. l \in Local /\ Held(l) /\ Stands("demote_put", l)
      /\ l.action = "start_review" /\ l.provider = "hosted"
  BY <1>1, Standing DEF DemotePut, Stands, Holding
<1>3. PICK s : s = l.session
  OBVIOUS
<1>4. /\ s \in Known /\ session[s].provider = "hosted" /\ ~session[s].locator
      /\ ReadRow(l) /\ s \in Sessions
  BY <1>2, <1>3 DEF Stands, Provisioned, Reads, Known
<1>5. session \in [Sessions -> Row \cup {NoSession}] /\ acked \in [Sessions -> Nat]
      /\ attempts \in Seq(Attempt) /\ runs \in [Sessions -> Seq(Nat)]
      /\ announced \in [Sessions -> Nat]
  BY StateTypes DEF LifecycleIInv
<1>6. "fail" \in Phases /\ pc[p] \in Holding /\ 0 \notin DOMAIN attempts
      /\ NoSession \notin Sessions /\ "fail" \in Holding
  BY NoneBorn DEF Phases, Holding, DemotePut, LifecycleIInv
<1>7. Goto(p, "fail", l) /\ UNCHANGED <<runs, attempts, taskFile, results, announced>>
  BY <1>1 DEF DemotePut
<1>8. CASE session[s].version # l.version
  <2>1. UNCHANGED <<session, acked>>
    BY <1>1, <1>3, <1>4, <1>5, <1>8 DEF DemotePut
  <2>2. Stands("fail", l)
    BY <1>2 DEF Stands, Holding, Provisioned, Unborn, Reads
  <2>3. taskFile' \in [Sessions -> Nat] /\ results' \in Seq(Result)
    BY <1>7, StoreTypes DEF LifecycleIInv
  <2> QED BY <1>1, <1>2, <1>6, <1>7, <2>1, <2>2, <2>3, LocalStep
<1>9. CASE session[s].version = l.version
  <2>1. PICK row : row = Written(session[s], "review_failed")
    OBVIOUS
  <2>2. session' = [session EXCEPT ![s] = row] /\ acked' = [acked EXCEPT ![s] = l.seen]
    <3>1. /\ session' = [session EXCEPT
               ![s] = IF session[s].version = l.version
                      THEN Written(session[s], "review_failed")
                      ELSE session[s]]
          /\ acked' = [acked EXCEPT ![s] = IF session[s].version = l.version
                                           THEN l.seen ELSE acked[s]]
      BY <1>1, <1>3 DEF DemotePut
    <3> QED BY <1>9, <2>1, <3>1
  <2>3. session[s] \in Row /\ session[s].version \in Nat
    BY <1>4, RowType DEF Row, LifecycleIInv
  <2>4. row \in Row /\ row.provider = session[s].provider /\ row.locator = session[s].locator
        /\ session[s].version < row.version
    <3>1. "review_failed" \in Attentions
      BY DEF Attentions
    <3> QED BY <1>4, <2>1, <2>3, <3>1, NextVersion
  <2>5. /\ session' \in [Sessions -> Row \cup {NoSession}]
        /\ Known' = Known /\ session'[s] = row
        /\ \A t \in Sessions \ {s} : session'[t] = session[t]
        /\ \A t \in Known :
             /\ session'[t] # NoSession
             /\ session'[t].provider = session[t].provider
             /\ session[t].version <= session'[t].version
             /\ session'[t].version = session[t].version =>
                  announced'[t] = announced[t]
        /\ \A t \in Sessions \ Known : session'[t] = NoSession
    <3>1. TypeOK /\ \A t \in Sessions \ {s} : announced'[t] = announced[t]
      BY <1>7 DEF LifecycleIInv
    <3> QED BY <1>4, <2>2, <2>4, <3>1, RowReplaced
  <2>6. l.seen \in Nat /\ l.seen = announced[s]
    BY <1>2, <1>3, <1>4, <1>9 DEF Local, ReadRow
  <2>7. acked' \in [Sessions -> Nat] /\ acked'[s] = announced[s]
        /\ \A t \in Sessions \ {s} : acked'[t] = acked[t]
    BY <1>4, <1>5, <2>2, <2>6
  <2>8. Evolves(NoSession, 0)
    <3>1. ASSUME NEW t \in Known PROVE session'[t].locator = session[t].locator
      <4>1. CASE t = s
        BY <2>4, <2>5, <4>1
      <4>2. CASE t # s
        BY <2>5, <4>2 DEF Known
      <4> QED BY <4>1, <4>2
    <3> QED BY <1>7, <2>5, <3>1 DEF Evolves
  <2>9. RowsInv'
    <3>1. Minted' /\ RunsCommitted' /\ SessionsVerified'
      BY <1>4, <1>7, <2>5 DEF LifecycleIInv, RowsInv, Minted, RunsCommitted, SessionsVerified
    <3>2. Located'
      BY <1>4, <2>4, <2>5 DEF LifecycleIInv, RowsInv, Located, Known
    <3>3. ReentriesSeeAnnouncements'
      BY <1>7, <2>5, <2>7 DEF LifecycleIInv, RowsInv, ReentriesSeeAnnouncements, Known
    <3> QED BY <3>1, <3>2, <3>3 DEF RowsInv
  <2>10. MintOnce'
    BY <1>7 DEF LifecycleIInv, MintOnce
  <2>11. Stands("fail", l)'
    <3>1. Held(l)'
      BY <1>2, <1>7 DEF Held
    <3> QED BY <1>2, <3>1 DEF Stands, Holding, Provisioned, Unborn, Reads
  <2> QED BY <1>1, <1>2, <1>5, <1>6, <1>7, <2>5, <2>7, <2>8, <2>9, <2>10, <2>11, RowStep
<1> QED BY <1>8, <1>9

LEMMA AgentReadyKeeps ==
  ASSUME LifecycleIInv, NEW p \in Procs, AgentReady(p)
  PROVE  LifecycleIInv'
<1>1. PICK l : l = local[p]
  OBVIOUS
<1>2. l \in Local /\ ReadRow(l)
  BY <1>1, Standing DEF AgentReady, Stands, Reads
<1>3. PICK s : s = l.session
  OBVIOUS
<1>4. s \in Known /\ s \in Sessions
  BY <1>2, <1>3 DEF ReadRow, Known
<1>5. session \in [Sessions -> Row \cup {NoSession}] /\ acked \in [Sessions -> Nat]
      /\ attempts \in Seq(Attempt) /\ runs \in [Sessions -> Seq(Nat)]
      /\ announced \in [Sessions -> Nat]
  BY StateTypes DEF LifecycleIInv
<1>6. PICK ph : ph = IF session[s].version = l.version \/ l.retried THEN "idle" ELSE "w_reload"
  OBVIOUS
<1>7. Goto(p, ph, l) /\ UNCHANGED <<runs, attempts, taskFile, results, acked>>
  BY <1>1, <1>3, <1>6 DEF AgentReady
<1>8. ph \in Phases /\ ph \notin Holding /\ 0 \notin DOMAIN attempts /\ NoSession \notin Sessions
  BY <1>6, NoneBorn DEF Phases, Holding, LifecycleIInv
<1>9. CASE session[s].version # l.version
  <2>1. UNCHANGED <<session, announced>>
    BY <1>1, <1>3, <1>4, <1>5, <1>9 DEF AgentReady
  <2>2. ph = "idle" \/ Stands(ph, l)
    BY <1>2, <1>6 DEF Stands, Holding, Provisioned, Unborn
  <2>3. taskFile' \in [Sessions -> Nat] /\ results' \in Seq(Result)
    BY <1>7, StoreTypes DEF LifecycleIInv
  <2> QED BY <1>2, <1>7, <1>8, <2>1, <2>2, <2>3, LocalStep
<1>10. CASE session[s].version = l.version
  <2>1. PICK row : row = Written(session[s], "findings_ready")
    OBVIOUS
  <2>2. session' = [session EXCEPT ![s] = row] /\ announced' = [announced EXCEPT ![s] = @ + 1]
        /\ ph = "idle"
    <3>1. /\ session' = [session EXCEPT
               ![s] = IF session[s].version = l.version
                      THEN Written(session[s], "findings_ready")
                      ELSE session[s]]
          /\ announced' = [announced EXCEPT ![s] = IF session[s].version = l.version
                                                   THEN announced[s] + 1 ELSE announced[s]]
      BY <1>1, <1>3 DEF AgentReady
    <3> QED BY <1>6, <1>10, <2>1, <3>1
  <2>3. session[s] \in Row /\ session[s].version \in Nat
    BY <1>4, RowType DEF Row, LifecycleIInv
  <2>4. row \in Row /\ row.provider = session[s].provider /\ row.locator = session[s].locator
        /\ session[s].version < row.version /\ row.attention = "findings_ready"
    <3>1. "findings_ready" \in Attentions
      BY DEF Attentions
    <3> QED BY <2>1, <2>3, <3>1, NextVersion
  <2>5. announced' \in [Sessions -> Nat]
        /\ \A t \in Sessions \ {s} : announced'[t] = announced[t]
    BY <1>4, <1>5, <2>2
  <2>6. /\ session' \in [Sessions -> Row \cup {NoSession}]
        /\ Known' = Known /\ session'[s] = row
        /\ \A t \in Sessions \ {s} : session'[t] = session[t]
        /\ \A t \in Known :
             /\ session'[t] # NoSession
             /\ session'[t].provider = session[t].provider
             /\ session[t].version <= session'[t].version
             /\ session'[t].version = session[t].version =>
                  announced'[t] = announced[t]
        /\ \A t \in Sessions \ Known : session'[t] = NoSession
    <3>1. TypeOK
      BY DEF LifecycleIInv
    <3> QED BY <1>4, <2>2, <2>4, <2>5, <3>1, RowReplaced
  <2>7. \A t \in Known : session'[t].locator = session[t].locator
    BY <2>4, <2>6 DEF Known
  <2>8. Evolves(NoSession, 0)
    BY <1>7, <2>6, <2>7 DEF Evolves
  <2>9. RowsInv'
    <3>1. Minted' /\ RunsCommitted' /\ SessionsVerified'
      BY <1>4, <1>7, <2>6 DEF LifecycleIInv, RowsInv, Minted, RunsCommitted, SessionsVerified
    <3>2. Located'
      BY <1>4, <2>4, <2>6 DEF LifecycleIInv, RowsInv, Located, Known
    <3>3. ReentriesSeeAnnouncements'
      BY <1>7, <2>4, <2>5, <2>6 DEF LifecycleIInv, RowsInv, ReentriesSeeAnnouncements, Known
    <3> QED BY <3>1, <3>2, <3>3 DEF RowsInv
  <2>10. MintOnce'
    BY <1>7 DEF LifecycleIInv, MintOnce
  <2> QED BY <1>2, <1>5, <1>7, <1>8, <2>2, <2>5, <2>6, <2>8, <2>9, <2>10, RowStep
<1> QED BY <1>9, <1>10

LEMMA RunAdded ==
  ASSUME TypeOK, NEW s \in Sessions, NEW n \in Nat,
         runs' = [runs EXCEPT ![s] = Append(@, n)]
  PROVE  /\ runs' \in [Sessions -> Seq(Nat)]
         /\ \A t \in Sessions : \A i \in DOMAIN runs'[t] :
              \/ i \in DOMAIN runs[t] /\ runs'[t][i] = runs[t][i]
              \/ t = s /\ runs'[t][i] = n
<1>1. runs \in [Sessions -> Seq(Nat)] /\ runs[s] \in Seq(Nat)
  BY StateTypes
<1> QED BY <1>1

\* The runs of a step that verifies the attempt n and adds at most its run.
LEMMA RunsStayCommitted ==
  ASSUME RowsInv, NEW s0, NEW n, Evolves(s0, n), n \in DOMAIN attempts,
         attempts'[n].state = "verified",
         \A t \in Sessions : \A i \in DOMAIN runs'[t] :
              \/ i \in DOMAIN runs[t] /\ runs'[t][i] = runs[t][i]
              \/ runs'[t][i] = n
  PROVE  RunsCommitted'
<1> SUFFICES ASSUME NEW t \in Sessions, NEW i \in DOMAIN runs'[t]
             PROVE  /\ runs'[t][i] \in DOMAIN attempts'
                    /\ \/ attempts'[runs'[t][i]].state = "verified"
                       \/ /\ attempts'[runs'[t][i]].action = "start_review"
                          /\ t \in Known' /\ session'[t].provider = "hosted"
  BY DEF RunsCommitted
<1>1. n \in DOMAIN attempts'
  BY DEF Evolves
<1>2. CASE runs'[t][i] = n
  BY <1>1, <1>2
<1>3. CASE i \in DOMAIN runs[t] /\ runs'[t][i] = runs[t][i]
  <2>1. PICK k : k = runs[t][i]
    OBVIOUS
  <2>2. /\ k \in DOMAIN attempts
        /\ \/ attempts[k].state = "verified"
           \/ /\ attempts[k].action = "start_review"
              /\ t \in Known /\ session[t].provider = "hosted"
    BY <1>3, <2>1 DEF RowsInv, RunsCommitted
  <2>3. /\ k \in DOMAIN attempts'
        /\ attempts'[k].action = attempts[k].action
        /\ attempts[k].state = "verified" => attempts'[k].state = "verified"
    BY <2>2 DEF Evolves
  <2>4. t \in Known => t \in Known' /\ session'[t].provider = session[t].provider
    BY DEF Evolves, Known
  <2> QED BY <1>3, <2>1, <2>2, <2>3, <2>4
<1> QED BY <1>2, <1>3

LEMMA FinalizeReentryKeeps ==
  ASSUME LifecycleIInv, NEW p \in Procs, FinalizeReentry(p)
  PROVE  LifecycleIInv'
<1>1. PICK l : l = local[p]
  OBVIOUS
<1>2. l \in Local /\ Held(l) /\ ReadRow(l) /\ l.action # "start_review"
      /\ session[l.session].locator
  BY <1>1, Standing DEF FinalizeReentry, Stands, Holding, Reads
<1>3. PICK s : s = l.session
  OBVIOUS
<1>4. PICK n : n = l.run
  OBVIOUS
<1>5. /\ s \in Known /\ s \in Sessions /\ session[s].locator
      /\ n \in Nat /\ n \in DOMAIN attempts /\ attempts[n].session = s
  BY <1>2, <1>3, <1>4, HeldType DEF ReadRow, Held, LifecycleIInv, Known
<1>6. /\ session[s].version = l.version
      /\ session' = [session EXCEPT ![s] =
                       [Written(session[s], Reentered(l)) EXCEPT !.locator = TRUE]]
      /\ runs' = [runs EXCEPT ![s] = Append(@, n)]
      /\ SetState(n, "verified")
      /\ acked' = [acked EXCEPT ![s] = l.seen]
      /\ Goto(p, AfterReentry(l), l)
      /\ UNCHANGED <<taskFile, results, announced>>
  BY <1>1, <1>3, <1>4 DEF FinalizeReentry, SameRow
<1>7. PICK written : written = Written(session[s], Reentered(l))
  OBVIOUS
<1>8. PICK row : row = [written EXCEPT !.locator = TRUE]
  OBVIOUS
<1>9. session[s] \in Row /\ Reentered(l) \in Attentions
  BY <1>5, RowType DEF LifecycleIInv, Reentered, Attentions
<1>10. /\ written \in Row /\ written.provider = session[s].provider
       /\ session[s].version < written.version
  BY <1>7, <1>9, NextVersion
<1>11. /\ row \in Row /\ row.provider = session[s].provider /\ row.locator
       /\ session[s].version < row.version /\ row.attention # "review_failed"
  <2>1. /\ row \in Row /\ row.provider = written.provider /\ row.locator
        /\ row.version = written.version /\ row.attention = written.attention
    BY <1>8, <1>10 DEF Row
  <2>2. written.attention = Reentered(l)
    BY <1>7, <1>9, NextVersion
  <2> QED BY <1>10, <2>1, <2>2 DEF Reentered
<1>12. TypeOK /\ MintOnce /\ RowsInv
  BY DEF LifecycleIInv
<1>13. /\ session' \in [Sessions -> Row \cup {NoSession}]
       /\ Known' = Known /\ session'[s] = row
       /\ \A t \in Sessions \ {s} : session'[t] = session[t]
       /\ \A t \in Known :
            /\ session'[t] # NoSession
            /\ session'[t].provider = session[t].provider
            /\ session[t].version <= session'[t].version
            /\ session'[t].version = session[t].version =>
                 announced'[t] = announced[t]
       /\ \A t \in Sessions \ Known : session'[t] = NoSession
  <2>1. session' = [session EXCEPT ![s] = row]
    BY <1>6, <1>7, <1>8
  <2> QED BY <1>5, <1>6, <1>11, <1>12, <2>1, RowReplaced
<1>14. /\ attempts' \in Seq(Attempt) /\ MintOnce'
       /\ DOMAIN attempts' = DOMAIN attempts
       /\ \A i \in DOMAIN attempts :
            /\ attempts'[i].session = attempts[i].session
            /\ attempts'[i].action = attempts[i].action
            /\ attempts'[i].state = IF i = n THEN "verified" ELSE attempts[i].state
  <2>1. SetState(l.run, "verified") /\ "verified" \in InFlight \cup Terminal
    BY <1>4, <1>6 DEF Terminal
  <2>2. l \in Local /\ Held(l)
    BY <1>2
  <2>3. /\ attempts' \in Seq(Attempt) /\ MintOnce'
        /\ DOMAIN attempts' = DOMAIN attempts
        /\ \A i \in DOMAIN attempts :
             /\ attempts'[i].session = attempts[i].session
             /\ attempts'[i].action = attempts[i].action
             /\ attempts'[i].state = IF i = l.run THEN "verified" ELSE attempts[i].state
    BY <1>12, <2>1, <2>2, StateSet
  <2> QED BY <1>4, <2>3
<1>15. \A t \in Known : session'[t].locator = session[t].locator
  <2> SUFFICES ASSUME NEW t \in Known PROVE session'[t].locator = session[t].locator
    OBVIOUS
  <2>1. CASE t = s
    BY <1>5, <1>11, <1>13, <2>1 DEF Row
  <2>2. CASE t # s
    BY <1>13, <2>2 DEF Known
  <2> QED BY <2>1, <2>2
<1>16. Evolves(NoSession, n)
  BY <1>13, <1>14, <1>15 DEF Evolves
<1>17. /\ runs' \in [Sessions -> Seq(Nat)]
       /\ \A t \in Sessions : \A i \in DOMAIN runs'[t] :
            \/ i \in DOMAIN runs[t] /\ runs'[t][i] = runs[t][i]
            \/ t = s /\ runs'[t][i] = n
  <2>1. runs' = [runs EXCEPT ![s] = Append(@, n)]
    BY <1>6
  <2>2. s \in Sessions /\ n \in Nat /\ TypeOK
    BY <1>5, <1>12
  <2> QED BY ONLY <2>1, <2>2, RunAdded, ZenonT(60)
<1>18. /\ acked' \in [Sessions -> Nat] /\ acked'[s] = announced[s]
       /\ \A t \in Sessions \ {s} : acked'[t] = acked[t]
  <2>1. l.seen \in Nat /\ l.seen = announced[s]
    BY <1>2, <1>3, <1>6 DEF Local, ReadRow
  <2>2. acked \in [Sessions -> Nat]
    BY <1>12, StateTypes
  <2> QED BY <1>5, <1>6, <2>1, <2>2
<1>19. RowsInv'
  <2>1. RunsCommitted'
    BY <1>5, <1>12, <1>14, <1>16, <1>17, RunsStayCommitted
  <2>2. Minted'
    BY <1>12, <1>13, <1>14 DEF RowsInv, Minted
  <2>3. SessionsVerified'
    BY <1>12, <1>13, <1>14 DEF RowsInv, SessionsVerified
  <2>4. Located'
    BY <1>11, <1>12, <1>13 DEF RowsInv, Located, Known
  <2>5. ReentriesSeeAnnouncements'
    BY <1>6, <1>12, <1>13, <1>18 DEF RowsInv, ReentriesSeeAnnouncements, Known
  <2> QED BY <2>1, <2>2, <2>3, <2>4, <2>5 DEF RowsInv
<1>20. PICK ph : ph = AfterReentry(l)
  OBVIOUS
<1>21. /\ ph \in Phases /\ ph \notin Holding /\ pc[p] \in Holding
       /\ NoSession \notin Sessions
  BY <1>12, <1>20, NoneBorn DEF Phases, Holding, FinalizeReentry, AfterReentry
<1>22. ph = "idle" \/ Stands(ph, l)'
  BY <1>20 DEF AfterReentry, Stands, Holding, Provisioned, Unborn, Reads
<1>23. announced' \in [Sessions -> Nat]
  BY <1>6, <1>12, StateTypes
<1>24. Goto(p, ph, l) /\ UNCHANGED <<taskFile, results>> /\ local[p].run = n
  BY <1>1, <1>4, <1>6, <1>20
<1> QED BY <1>2, <1>13, <1>14, <1>16, <1>17, <1>18, <1>19, <1>21, <1>22, <1>23, <1>24, RowStep

LEMMA FinalizeStartKeeps ==
  ASSUME LifecycleIInv, NEW p \in Procs, FinalizeStart(p)
  PROVE  LifecycleIInv'
<1>1. PICK l : l = local[p]
  OBVIOUS
<1>2. l \in Local /\ Held(l) /\ l.action = "start_review" /\ Stands("finalize", l)
  BY <1>1, Standing DEF FinalizeStart, Stands, Holding
<1>3. PICK s : s = l.session
  OBVIOUS
<1>4. PICK n : n = l.run
  OBVIOUS
<1>5. /\ s \in Sessions /\ n \in Nat /\ n \in DOMAIN attempts /\ attempts[n].session = s
      /\ l.provider \in {"hosted", "linked"} /\ l.seen \in Nat
  BY <1>2, <1>3, <1>4, HeldType DEF Held, LifecycleIInv, Local
<1>6. PICK version : version = IF s \in Known THEN session[s].version + 1 ELSE 0
  OBVIOUS
<1>7. PICK row : row = [provider |-> l.provider, attention |-> "review_launched",
                        version |-> version, locator |-> TRUE]
  OBVIOUS
<1>8. /\ session' = [session EXCEPT ![s] = row]
      /\ runs' = [runs EXCEPT ![s] = IF Provisions(l) THEN runs[s] ELSE Append(runs[s], n)]
      /\ SetState(n, "verified")
      /\ acked' = [acked EXCEPT ![s] = l.seen]
      /\ Goto(p, "idle", l)
      /\ UNCHANGED <<taskFile, results, announced>>
  BY <1>1, <1>3, <1>4, <1>6, <1>7 DEF FinalizeStart
<1>9. TypeOK /\ MintOnce /\ RowsInv
  BY DEF LifecycleIInv
<1>10. \A t \in Known : session[t].version \in Nat /\ session[t] \in Row
  BY <1>9, RowType DEF Row
<1>11. /\ row \in Row /\ row # NoSession /\ row.provider = l.provider
       /\ row.attention = "review_launched" /\ row.version = version /\ row.locator
  <2>1. version \in Nat
    BY <1>6, <1>10
  <2>2. /\ row \in Row /\ row.provider = l.provider
        /\ row.attention = "review_launched" /\ row.version = version /\ row.locator
    BY <1>5, <1>7, <2>1 DEF Row, Attentions
  <2> QED BY <2>2, NoSessionAssumption
<1>12. /\ l.provider = "hosted" => s \in Known /\ session[s].provider = "hosted"
       /\ l.provider = "linked" => s \notin Known
  BY <1>2, <1>3 DEF Stands, Provisioned, Unborn, Holding, Known
<1>13. /\ session' \in [Sessions -> Row \cup {NoSession}]
       /\ session'[s] = row
       /\ \A t \in Sessions \ {s} : session'[t] = session[t]
  BY <1>5, <1>8, <1>9, <1>11, StateTypes
<1>14. Known' = Known \cup {s}
  BY <1>5, <1>11, <1>13 DEF Known
<1>15. /\ attempts' \in Seq(Attempt) /\ MintOnce'
       /\ DOMAIN attempts' = DOMAIN attempts
       /\ \A i \in DOMAIN attempts :
            /\ attempts'[i].session = attempts[i].session
            /\ attempts'[i].action = attempts[i].action
            /\ attempts'[i].state = IF i = n THEN "verified" ELSE attempts[i].state
  <2>1. SetState(l.run, "verified") /\ "verified" \in InFlight \cup Terminal
    BY <1>4, <1>8 DEF Terminal
  <2>2. /\ attempts' \in Seq(Attempt) /\ MintOnce'
        /\ DOMAIN attempts' = DOMAIN attempts
        /\ \A i \in DOMAIN attempts :
             /\ attempts'[i].session = attempts[i].session
             /\ attempts'[i].action = attempts[i].action
             /\ attempts'[i].state = IF i = l.run THEN "verified" ELSE attempts[i].state
    BY <1>2, <1>9, <2>1, StateSet
  <2> QED BY <1>4, <2>2
<1>16. Evolves(s, n)
  <2>1. ASSUME NEW t \in Known
        PROVE  /\ session'[t] # NoSession
               /\ session'[t].provider = session[t].provider
               /\ session[t].locator => session'[t].locator
               /\ session'[t].locator => t = s \/ session[t].locator
               /\ session[t].version <= session'[t].version
               /\ session'[t].version = session[t].version => announced'[t] = announced[t]
    <3>1. CASE t = s
      <4>1. l.provider = session[s].provider
        BY <1>5, <1>12, <3>1
      <4>2. session[s].version \in Nat /\ version = session[s].version + 1
        BY <1>6, <1>10, <3>1
      <4> QED BY <1>11, <1>13, <3>1, <4>1, <4>2
    <3>2. CASE t # s
      BY <1>8, <1>10, <1>13, <3>2 DEF Known
    <3> QED BY <3>1, <3>2
  <2>2. \A t \in Sessions \ Known : t # s => session'[t] = NoSession
    BY <1>13 DEF Known
  <2> QED BY <1>15, <2>1, <2>2 DEF Evolves
<1>17. /\ runs' \in [Sessions -> Seq(Nat)]
       /\ \A t \in Sessions : \A i \in DOMAIN runs'[t] :
            \/ i \in DOMAIN runs[t] /\ runs'[t][i] = runs[t][i]
            \/ t = s /\ runs'[t][i] = n
  <2>1. runs \in [Sessions -> Seq(Nat)]
    BY <1>9, StateTypes
  <2>2. CASE Provisions(l)
    <3>1. runs' = runs
      BY <1>5, <1>8, <2>1, <2>2
    <3> QED BY <2>1, <3>1
  <2>3. CASE ~Provisions(l)
    <3>1. runs' = [runs EXCEPT ![s] = Append(@, n)]
      BY <1>8, <2>3
    <3>2. s \in Sessions /\ n \in Nat /\ TypeOK
      BY <1>5, <1>9
    <3> QED BY ONLY <3>1, <3>2, RunAdded, ZenonT(60)
  <2> QED BY <2>2, <2>3
<1>18. /\ acked' \in [Sessions -> Nat]
       /\ \A t \in Sessions \ {s} : acked'[t] = acked[t]
  <2>1. acked \in [Sessions -> Nat]
    BY <1>9, StateTypes
  <2> QED BY <1>5, <1>8, <2>1
<1>19. RowsInv'
  <2>1. RunsCommitted'
    BY <1>5, <1>9, <1>15, <1>16, <1>17, RunsStayCommitted
  <2>2. Minted'
    BY <1>5, <1>9, <1>14, <1>15 DEF RowsInv, Minted
  <2>3. SessionsVerified'
    BY <1>5, <1>9, <1>13, <1>14, <1>15, SMTT(30) DEF RowsInv, SessionsVerified, Known
  <2>4. Located'
    BY <1>9, <1>11, <1>13, <1>14 DEF RowsInv, Located, Known
  <2>5. ReentriesSeeAnnouncements'
    BY <1>8, <1>9, <1>11, <1>13, <1>14, <1>18 DEF RowsInv, ReentriesSeeAnnouncements, Known
  <2> QED BY <2>1, <2>2, <2>3, <2>4, <2>5 DEF RowsInv
<1>20. "idle" \in Phases /\ "idle" \notin Holding /\ pc[p] \in Holding
  BY DEF Phases, Holding, FinalizeStart
<1>21. announced' \in [Sessions -> Nat]
  BY <1>8, <1>9, StateTypes
<1>22. /\ Goto(p, "idle", l) /\ UNCHANGED <<taskFile, results>> /\ local[p].run = n
       /\ local[p].session = s /\ local[p].action = "start_review"
  BY <1>1, <1>2, <1>3, <1>4, <1>8
<1> QED BY <1>2, <1>13, <1>15, <1>16, <1>17, <1>18, <1>19, <1>20, <1>21, <1>22, RowStep

-----------------------------------------------------------------------------
(* Every step.                                                             *)

LEMMA LifecycleInductive == LifecycleIInv /\ [Next]_vars => LifecycleIInv'
<1> SUFFICES ASSUME LifecycleIInv, [Next]_vars PROVE LifecycleIInv'
  OBVIOUS
<1>1. ASSUME NEW p \in Procs, Start(p) PROVE LifecycleIInv'
  BY <1>1, StartKeeps, AgentReadKeeps DEF Start
<1>2. ASSUME NEW p \in Procs, Step(p) PROVE LifecycleIInv'
  BY <1>2, ReenterKeeps, AbandonKeeps, InsertKeeps, StageTaskKeeps, ProvisionKeeps,
     ProvisionRunKeeps, LaunchedKeeps, LaunchFailedKeeps, FinalizeStartKeeps, DemoteKeeps,
     DemotePutKeeps, FailKeeps, FinalizeReentryKeeps, ReentryConflictKeeps,
     FinalizeFailsKeeps, RebindKeeps, AgentBindKeeps, AgentRecordKeeps, AgentReadyKeeps,
     AgentReloadKeeps DEF Step
<1>3. ASSUME NEW p \in Procs, Stop(p) PROVE LifecycleIInv'
  BY <1>3, StopKeeps
<1>4. CASE UNCHANGED vars
  BY <1>4 DEF vars, LifecycleIInv, TypeOK, MintOnce, OwnAttempts, RowsInv, Minted,
              RunsCommitted, SessionsVerified, Located, ReentriesSeeAnnouncements, Known,
              Stands, Held, ReadRow, Provisioned, Unborn, Reads
<1> QED BY <1>1, <1>2, <1>3, <1>4 DEF Next

LEMMA LifecycleAlways == Spec => []LifecycleIInv
BY InitialLifecycle, LifecycleInductive, PTL DEF Spec

\* For any number of commands, workers, sessions and attempts, and whatever
\* dies when: the store holds no session and no run of a launch that was not
\* verified, but those a hosted start announces before it (the transactions of
\* create_launch_attempt, finalize_review_launch_attempt and
\* finalize_existing_session_launch_attempt).
THEOREM NothingUnverified == Spec => []SessionInv
<1>1. LifecycleIInv => SessionInv
  BY DEF LifecycleIInv, SessionInv, RowsInv, RunsCommitted, RunsVerified
<1> QED BY <1>1, LifecycleAlways, PTL

\* For any number of processes: a re-entry or a demotion that wins the race for
\* a session row knew of every findings_ready that the row had announced
\* (the row_version comparison of update_review_session_attention).
THEOREM AnnouncementsSeen == Spec => []ReentriesSeeAnnouncements
<1>1. LifecycleIInv => ReentriesSeeAnnouncements
  BY DEF LifecycleIInv, RowsInv
<1> QED BY <1>1, LifecycleAlways, PTL

-----------------------------------------------------------------------------
(* Commands that do not overlap: what dead ones leave behind.              *)

Worker == {"w_bind", "w_record", "w_ready", "w_reload"}

\* The one command there is has the one attempt in flight, and starts a
\* session only while none can be reused.
Alone(ph, l) ==
  /\ ph \notin Worker
  /\ ph \in Holding => attempts[l.run].state \in InFlight
  /\ ph = "insert" /\ l.action # "start_review" =>
       \A i \in DOMAIN attempts : ~Abandons(attempts[i], l)
  /\ ph = "insert" /\ l.action = "start_review" => Reusable = {}
  /\ Unborn(ph, l) => Reusable = {}
  /\ Provisioned(ph, l) => Reusable \subseteq {l.session}

RetryIInv ==
  /\ OneInFlight
  /\ \A s, t \in Reusable : s = t
  /\ \A p \in Procs : Alone(pc[p], local[p])

(* Processes that do not die: what a start leaves is finished.             *)

Starting(s) ==
  \E p \in Procs : Provisioned(pc[p], local[p]) /\ local[p].session = s

ResumableIInv ==
  /\ \A s \in Reusable : session[s].locator \/ Starting(s)
  /\ \A p \in Procs :
       /\ pc[p] \notin Worker
       /\ pc[p] = "demote_put" =>
            session[local[p].session].version = local[p].version

-----------------------------------------------------------------------------
(* Retries.                                                                *)

\* One command at a time, no --fresh and no worker.
OneAtATime ==
  /\ Agents = {} /\ "fresh" \notin Kinds
  /\ \A p, q \in Commands : p = q

\* A step of the one command that leaves rows and attempts as they are.
LEMMA AloneGoes ==
  ASSUME OneAtATime, LifecycleIInv, NEW p \in Procs, NEW ph \in Phases, NEW l \in Local,
         Goto(p, ph, l), ph = "idle" \/ Alone(ph, l)'
  PROVE  (\A q \in Procs : Alone(pc[q], local[q]))'
<1>1. \A q \in Procs : q = p
  BY DEF OneAtATime, Procs
<1>2. pc'[p] = ph /\ (ph # "idle" => local'[p] = l)
  BY GotoType DEF LifecycleIInv
<1>3. Alone(pc[p], local[p])'
  BY <1>2 DEF Alone, Holding, Provisioned, Unborn, Worker
<1> QED BY <1>1, <1>3

LEMMA AloneQuiet ==
  ASSUME OneAtATime, LifecycleIInv, RetryIInv, NEW p \in Procs, NEW ph \in Phases,
         NEW l \in Local, Goto(p, ph, l), ph = "idle" \/ Alone(ph, l),
         UNCHANGED <<session, attempts>>
  PROVE  RetryIInv'
<1>1. Reusable' = Reusable
  BY DEF Reusable, Known
<1>2. Alone(ph, l) => Alone(ph, l)'
  BY <1>1 DEF Alone, Abandons
<1>3. (\A q \in Procs : Alone(pc[q], local[q]))'
  BY <1>2, AloneGoes
<1> QED BY <1>1, <1>3 DEF RetryIInv, OneInFlight

LEMMA RetryInitial == Init => RetryIInv
<1> SUFFICES ASSUME Init PROVE RetryIInv
  OBVIOUS
<1>1. Reusable = {}
  BY DEF Init, Reusable, Known
<1> QED BY <1>1 DEF Init, RetryIInv, OneInFlight, Alone, Holding, Provisioned, Unborn, Worker

LEMMA AloneNow ==
  ASSUME LifecycleIInv, RetryIInv, NEW p \in Procs
  PROVE  /\ Alone(pc[p], local[p]) /\ Stands(pc[p], local[p])
         /\ local[p] \in Local /\ pc[p] \in Phases
BY LocalType DEF RetryIInv, LifecycleIInv

LEMMA FailureAlone ==
  ASSUME NEW l, NEW ph \in {"launch", "finalize"}, Alone(ph, l),
         NEW m, m.action = l.action, m.provider = l.provider, m.session = l.session,
         m.run = l.run
  PROVE  Alone(FailurePhase(m), m)
<1>1. attempts[m.run].state \in InFlight
  BY DEF Alone, Holding
<1>2. CASE FailurePhase(m) = "demote"
  <2>1. Provisioned(ph, l)
    BY <1>2 DEF FailurePhase, Provisions, Provisioned
  <2> QED BY <1>1, <1>2, <2>1 DEF Alone, Worker, Unborn, FailurePhase, Provisions
<1>3. CASE FailurePhase(m) = "fail"
  <2>1. Unborn("fail", m) => Unborn(ph, l)
    BY DEF Unborn, Holding
  <2> QED BY <1>1, <1>3, <2>1 DEF Alone, Worker, Provisioned
<1> QED BY <1>2, <1>3 DEF FailurePhase

\* The steps of the one command that leave rows and attempts as they are.
LEMMA RetryQuiet ==
  ASSUME OneAtATime, LifecycleIInv, RetryIInv, NEW p \in Procs,
         \/ Start(p) \/ Reenter(p) \/ StageTask(p) \/ ProvisionRun(p) \/ LaunchFailed(p)
         \/ Demote(p) \/ ReentryConflict(p) \/ FinalizeFails(p) \/ Rebind(p) \/ Stop(p)
  PROVE  RetryIInv'
<1>0. PICK l : l = local[p]
  OBVIOUS
<1>1. l \in Local /\ Alone(pc[p], l) /\ Stands(pc[p], l) /\ p \notin Agents
  BY <1>0, AloneNow DEF OneAtATime
<1>2. CASE Review(p) \/ Resume(p)
  <2>1. UNCHANGED <<session, attempts>>
    BY <1>2 DEF Review, Resume, store
  <2>2. ASSUME NEW m, Goto(p, "reenter", m), m \in Local PROVE RetryIInv'
    <3>1. Alone("reenter", m) /\ "reenter" \in Phases
      BY DEF Alone, Holding, Unborn, Provisioned, Worker, Phases
    <3> QED BY <2>1, <2>2, <3>1, AloneQuiet
  <2>3. ASSUME Reusable = {}, NEW provider \in Providers,
               Goto(p, "insert", [Blank EXCEPT !.provider = provider])
        PROVE  RetryIInv'
    <3>1. PICK m : m = [Blank EXCEPT !.provider = provider]
      OBVIOUS
    <3>2. m \in Local /\ m.action = "start_review"
      BY <3>1, BlankType, LifecycleAssumption DEF Local, Blank
    <3>3. Alone("insert", m) /\ "insert" \in Phases
      BY <2>3, <3>2 DEF Alone, Holding, Unborn, Provisioned, Worker, Phases
    <3> QED BY <2>1, <2>3, <3>1, <3>2, <3>3, AloneQuiet
  <2>4. ASSUME NEW s \in Sessions, NEW action \in Actions
        PROVE  /\ [Blank EXCEPT !.action = action, !.session = s] \in Local
               /\ [Blank EXCEPT !.session = s, !.action = action] \in Local
    BY BlankType DEF Blank, Local
  <2>5. \A s \in Known : s \in Sessions
    BY DEF Known
  <2>6. Reusable \subseteq Known /\ {"resume_review", "return_to_roger"} \subseteq Actions
    BY DEF Reusable, Actions
  <2>7. CASE Review(p)
    BY <2>2, <2>3, <2>4, <2>5, <2>6, <2>7 DEF Review
  <2>8. CASE Resume(p)
    <3>1. PICK s \in Known, kind \in Kinds \cap {"resume", "return"} :
            Goto(p, "reenter",
                 [Blank EXCEPT !.session = s,
                               !.action = IF kind = "resume" THEN "resume_review"
                                          ELSE "return_to_roger"])
      BY <2>8 DEF Resume
    <3>2. PICK action \in Actions :
            action = IF kind = "resume" THEN "resume_review" ELSE "return_to_roger"
      BY <2>6
    <3>3. [Blank EXCEPT !.session = s, !.action = action] \in Local
      BY <2>4, <2>5
    <3> QED BY <2>2, <3>1, <3>2, <3>3
  <2> QED BY <1>2, <2>7, <2>8
<1>3. CASE Fresh(p)
  BY <1>3 DEF Fresh, OneAtATime
<1>4. CASE AgentRead(p)
  BY <1>1, <1>4 DEF AgentRead
<1>5. CASE Rebind(p) \/ Stop(p)
  <2>1. UNCHANGED <<session, attempts>> /\ \E m \in Local : Goto(p, "idle", m)
    BY <1>0, <1>1, <1>5, BlankType DEF Rebind, Stop, store
  <2> QED BY <2>1, BlankType, AloneQuiet
<1>6. CASE Reenter(p)
  <2>1. PICK m : m = Reading(l, l.session)
    OBVIOUS
  <2>2. l.session \in Known /\ l.action # "start_review"
    BY <1>1, <1>6 DEF Stands, Reenter
  <2>3. m \in Local /\ m.action = l.action
    BY <1>1, <2>1, <2>2, ReadingType DEF LifecycleIInv
  <2>4. Alone("abandon", m) /\ "abandon" \in Phases
    BY DEF Alone, Holding, Unborn, Provisioned, Worker, Phases
  <2>5. Goto(p, "abandon", m) /\ UNCHANGED <<session, attempts>>
    BY <1>0, <1>6, <2>1 DEF Reenter, store
  <2> QED BY <2>3, <2>4, <2>5, AloneQuiet
<1>7. CASE StageTask(p)
  <2>1. PICK ph : ph = IF Provisions(l) THEN "provision" ELSE "launch"
    OBVIOUS
  <2>2. l.action = "start_review" /\ Alone("task", l) /\ Unborn("task", l)
    BY <1>0, <1>1, <1>7 DEF Stands, StageTask, Unborn, Holding
  <2>3. Alone(ph, l) /\ ph \in Phases
    BY <2>1, <2>2 DEF Alone, Holding, Unborn, Provisioned, Provisions, Worker, Phases
  <2>4. Goto(p, ph, l) /\ UNCHANGED <<session, attempts>>
    BY <1>0, <1>7, <2>1 DEF StageTask, store
  <2> QED BY <1>1, <2>3, <2>4, AloneQuiet
<1>8. CASE ProvisionRun(p)
  <2>1. l.action = "start_review" /\ l.provider = "hosted" /\ Alone("provision_run", l)
    BY <1>0, <1>1, <1>8 DEF Stands, ProvisionRun
  <2>2. Alone("launch", l) /\ "launch" \in Phases
    BY <2>1 DEF Alone, Holding, Unborn, Provisioned, Worker, Phases
  <2>3. Goto(p, "launch", l) /\ UNCHANGED <<session, attempts>>
    BY <1>0, <1>8 DEF ProvisionRun
  <2> QED BY <1>1, <2>2, <2>3, AloneQuiet
<1>9. ASSUME NEW m \in Local, NEW from \in {"launch", "finalize"}, pc[p] = from,
             m.action = l.action, m.provider = l.provider, m.session = l.session,
             m.run = l.run, Goto(p, FailurePhase(m), m), UNCHANGED <<session, attempts>>
      PROVE  RetryIInv'
  <2>1. PICK ph : ph = FailurePhase(m)
    OBVIOUS
  <2>2. Alone(from, l)
    BY <1>1, <1>9
  <2>3. Alone(ph, m)
    BY <1>9, <2>1, <2>2, FailureAlone
  <2>4. ph \in Phases
    BY <2>1 DEF FailurePhase, Phases
  <2> QED BY <1>9, <2>1, <2>3, <2>4, AloneQuiet
<1>10. CASE LaunchFailed(p)
  <2>1. pc[p] = "launch" /\ Goto(p, FailurePhase(l), l) /\ UNCHANGED <<session, attempts>>
    BY <1>0, <1>10 DEF LaunchFailed, store
  <2> QED BY <1>1, <1>9, <2>1
<1>11. ASSUME NEW failure \in Failures
       PROVE  /\ [l EXCEPT !.failure = failure] \in Local
              /\ [l EXCEPT !.failure = failure].action = l.action
              /\ [l EXCEPT !.failure = failure].provider = l.provider
              /\ [l EXCEPT !.failure = failure].session = l.session
              /\ [l EXCEPT !.failure = failure].run = l.run
  BY <1>1 DEF Local
<1>12. CASE FinalizeFails(p)
  <2>1. PICK m : m = [l EXCEPT !.failure = "failed_commit"]
    OBVIOUS
  <2>2. "failed_commit" \in Failures
    BY DEF Failures
  <2>3. m \in Local /\ m.action = l.action /\ m.provider = l.provider
        /\ m.session = l.session /\ m.run = l.run
    BY <1>11, <2>1, <2>2
  <2>4. FailurePhase(m) = FailurePhase(l)
    BY <2>3 DEF FailurePhase, Provisions
  <2>5. pc[p] = "finalize" /\ Goto(p, FailurePhase(m), m) /\ UNCHANGED <<session, attempts>>
    BY <1>0, <1>12, <2>1, <2>4 DEF FinalizeFails, store
  <2> QED BY <1>9, <2>3, <2>5
<1>13. CASE ReentryConflict(p)
  <2>1. PICK m : m = [l EXCEPT !.failure = "failed_session_binding"]
    OBVIOUS
  <2>2. "failed_session_binding" \in Failures
    BY DEF Failures
  <2>3. m \in Local /\ m.action = l.action /\ m.provider = l.provider
        /\ m.session = l.session /\ m.run = l.run
    BY <1>11, <2>1, <2>2
  <2>4. l.action # "start_review" /\ pc[p] = "finalize" /\ Goto(p, "fail", m)
        /\ UNCHANGED <<session, attempts>>
    BY <1>0, <1>13, <2>1 DEF ReentryConflict, store
  <2>5. FailurePhase(m) = "fail"
    BY <2>3, <2>4 DEF FailurePhase
  <2> QED BY <1>9, <2>3, <2>4, <2>5
<1>14. CASE Demote(p)
  <2>1. l.action = "start_review" /\ l.provider = "hosted" /\ Stands("demote", l)
        /\ Alone("demote", l)
    BY <1>0, <1>1, <1>14 DEF Stands, Demote
  <2>2. l.session \in Known /\ session[l.session].provider = "hosted"
    BY <2>1 DEF Stands, Provisioned
  <2>3. PICK m : m = Reading(l, l.session)
    OBVIOUS
  <2>4. m \in Local /\ m.action = l.action /\ m.session = l.session /\ m.run = l.run
        /\ m.provider = "hosted"
    BY <1>1, <2>2, <2>3, ReadingType DEF LifecycleIInv
  <2>5. Alone("demote_put", m) /\ "demote_put" \in Phases
    BY <2>1, <2>4 DEF Alone, Holding, Unborn, Provisioned, Worker, Phases
  <2>6. Goto(p, "demote_put", m) /\ UNCHANGED <<session, attempts>>
    BY <1>0, <1>14, <2>3 DEF Demote, store
  <2> QED BY <2>4, <2>5, <2>6, AloneQuiet
<1> QED BY <1>2, <1>3, <1>4, <1>5, <1>6, <1>7, <1>8, <1>10, <1>12, <1>13, <1>14 DEF Start

LEMMA RetryAbandon ==
  ASSUME OneAtATime, LifecycleIInv, RetryIInv, NEW p \in Procs, Abandon(p)
  PROVE  RetryIInv'
<1>1. PICK l : l = local[p]
  OBVIOUS
<1>2. l \in Local /\ Stands("abandon", l)
  BY <1>1, AloneNow DEF Abandon
<1>3. /\ attempts' = [i \in DOMAIN attempts |->
                        IF Abandons(attempts[i], l)
                        THEN [attempts[i] EXCEPT !.state = "abandoned"]
                        ELSE attempts[i]]
      /\ Goto(p, "insert", l) /\ UNCHANGED session
  BY <1>1 DEF Abandon
<1>4. attempts \in Seq(Attempt)
  BY DEF LifecycleIInv, TypeOK
<1>5. ASSUME NEW i \in DOMAIN attempts
      PROVE  /\ attempts'[i].session = attempts[i].session
             /\ attempts'[i].action = attempts[i].action
             /\ attempts'[i].state = IF Abandons(attempts[i], l) THEN "abandoned"
                                     ELSE attempts[i].state
  <2>1. attempts[i] \in Attempt
    BY <1>4
  <2> QED BY <1>3, <2>1 DEF Attempt
<1>6. DOMAIN attempts' = DOMAIN attempts
  BY <1>3
<1>7. OneInFlight'
  <2>1. ASSUME NEW i \in DOMAIN attempts, attempts'[i].state \in InFlight
        PROVE  attempts[i].state \in InFlight
    BY <1>5, <2>1 DEF InFlight
  <2> QED BY <1>5, <1>6, <2>1 DEF RetryIInv, OneInFlight
<1>8. Reusable' = Reusable
  BY <1>3 DEF Reusable, Known
<1>9. \A i \in DOMAIN attempts' : ~Abandons(attempts'[i], l)
  BY <1>5, <1>6 DEF Abandons, InFlight
<1>10. Alone("insert", l)'
  <2>1. l.action # "start_review"
    BY <1>2 DEF Stands
  <2> QED BY <1>9, <2>1 DEF Alone, Abandons, Holding, Unborn, Provisioned, Worker
<1>11. (\A q \in Procs : Alone(pc[q], local[q]))'
  BY <1>2, <1>3, <1>10, AloneGoes DEF Phases
<1> QED BY <1>7, <1>8, <1>11 DEF RetryIInv

LEMMA RetryInsert ==
  ASSUME OneAtATime, LifecycleIInv, RetryIInv, NEW p \in Procs, Insert(p)
  PROVE  RetryIInv'
<1>1. PICK l : l = local[p]
  OBVIOUS
<1>2. l \in Local /\ Stands("insert", l) /\ Alone("insert", l)
  BY <1>1, AloneNow DEF Insert
<1>3. PICK s \in IF l.action = "start_review"
                 THEN Sessions \ {attempts[i].session : i \in DOMAIN attempts}
                 ELSE {l.session} :
        /\ attempts' = Append(attempts, [action |-> l.action, session |-> s,
                                         state |-> "dispatching"])
        /\ Goto(p, IF l.action = "start_review" THEN "task" ELSE "launch",
                [l EXCEPT !.session = s, !.run = Len(attempts) + 1])
  BY <1>1 DEF Insert
<1>4. PICK n : n = Len(attempts) + 1
  OBVIOUS
<1>5. PICK m : m = [l EXCEPT !.session = s, !.run = n]
  OBVIOUS
<1>6. PICK ph : ph = IF l.action = "start_review" THEN "task" ELSE "launch"
  OBVIOUS
<1>7. PICK a : a = [action |-> l.action, session |-> s, state |-> "dispatching"]
  OBVIOUS
<1>8. s \in Sessions
  <2>1. l.action # "start_review" => ReadRow(l)
    BY <1>2 DEF Stands, Reads
  <2> QED BY <1>3, <2>1 DEF ReadRow, Known
<1>9. /\ attempts \in Seq(Attempt) /\ DOMAIN attempts = 1..Len(attempts)
      /\ Len(attempts) \in Nat /\ n \in Nat
  BY <1>4 DEF LifecycleIInv, TypeOK
<1>10. a \in Attempt
  BY <1>2, <1>7, <1>8 DEF Attempt, Local, InFlight
<1>11. m \in Local /\ m.session = s /\ m.run = n /\ m.action = l.action
       /\ m.provider = l.provider
  BY <1>2, <1>5, <1>8, <1>9 DEF Local
<1>12. /\ DOMAIN attempts' = DOMAIN attempts \cup {n} /\ n \notin DOMAIN attempts
       /\ attempts'[n] = a
       /\ \A i \in DOMAIN attempts : attempts'[i] = attempts[i]
  <2>1. attempts' = Append(attempts, a)
    BY <1>3, <1>7
  <2> QED BY <2>1, <1>4, <1>9, <1>10
<1>13. UNCHANGED session
  BY DEF Insert
<1>14. Reusable' = Reusable
  BY <1>13 DEF Reusable, Known
<1>15. \A i \in DOMAIN attempts :
         ~(attempts[i].session = s /\ attempts[i].action = l.action
           /\ attempts[i].state \in InFlight)
  <2>1. CASE l.action = "start_review"
    BY <1>3, <2>1
  <2>2. CASE l.action # "start_review"
    <3>1. s = l.session /\ \A i \in DOMAIN attempts : ~Abandons(attempts[i], l)
      BY <1>2, <1>3, <2>2 DEF Alone
    <3> QED BY <3>1 DEF Abandons
  <2> QED BY <2>1, <2>2
<1>16. OneInFlight'
  BY <1>7, <1>12, <1>15 DEF RetryIInv, OneInFlight
<1>17. Alone(ph, m)'
  <2>1. attempts'[m.run].state \in InFlight
    BY <1>7, <1>11, <1>12 DEF InFlight
  <2>2. l.action = "start_review" => Reusable = {}
    BY <1>2 DEF Alone
  <2> QED BY <1>6, <1>11, <1>14, <2>1, <2>2 DEF Alone, Provisioned, Unborn, Worker
<1>18. (\A q \in Procs : Alone(pc[q], local[q]))'
  <2>1. Goto(p, ph, m) /\ ph \in Phases
    BY <1>3, <1>4, <1>5, <1>6 DEF Phases
  <2> QED BY <1>11, <1>17, <2>1, AloneGoes
<1> QED BY <1>14, <1>16, <1>18 DEF RetryIInv

\* The attempt of the one command gets a state: no second one is in flight.
LEMMA RetrySet ==
  ASSUME LifecycleIInv, RetryIInv, NEW l \in Local, Held(l),
         attempts[l.run].state \in InFlight,
         NEW state \in InFlight \cup Terminal, SetState(l.run, state)
  PROVE  OneInFlight' /\ attempts'[l.run].state = state
<1>1. /\ DOMAIN attempts' = DOMAIN attempts
      /\ \A i \in DOMAIN attempts :
           /\ attempts'[i].session = attempts[i].session
           /\ attempts'[i].action = attempts[i].action
           /\ attempts'[i].state = IF i = l.run THEN state ELSE attempts[i].state
  BY StateSet DEF LifecycleIInv
<1>2. l.run \in DOMAIN attempts
  BY DEF Held
<1>3. ASSUME NEW i \in DOMAIN attempts, attempts'[i].state \in InFlight
      PROVE  attempts[i].state \in InFlight
  BY <1>1, <1>3
<1> QED BY <1>1, <1>2, <1>3 DEF RetryIInv, OneInFlight

LEMMA RetryStates ==
  ASSUME OneAtATime, LifecycleIInv, RetryIInv, NEW p \in Procs, Launched(p) \/ Fail(p)
  PROVE  RetryIInv'
<1>1. PICK l : l = local[p]
  OBVIOUS
<1>2. l \in Local /\ Stands(pc[p], l) /\ Alone(pc[p], l)
  BY <1>1, AloneNow
<1>3. Held(l) /\ attempts[l.run].state \in InFlight /\ UNCHANGED session
  BY <1>2 DEF Stands, Alone, Launched, Fail, Holding
<1>4. Reusable' = Reusable
  BY <1>3 DEF Reusable, Known
<1>5. CASE Launched(p)
  <2>1. PICK state : state = "awaiting_provider_verification"
    OBVIOUS
  <2>2. state \in InFlight /\ SetState(l.run, state) /\ Goto(p, "finalize", l)
        /\ pc[p] = "launch"
    BY <1>1, <1>5, <2>1 DEF Launched, InFlight
  <2>3. OneInFlight' /\ attempts'[l.run].state \in InFlight
    BY <1>2, <1>3, <2>2, RetrySet
  <2>4. /\ Unborn("finalize", l) => Unborn("launch", l)
        /\ Provisioned("finalize", l) => Provisioned("launch", l)
    BY DEF Unborn, Provisioned, Holding
  <2>5. Alone("finalize", l)'
    BY <1>2, <1>4, <2>2, <2>3, <2>4 DEF Alone, Worker, Unborn, Provisioned
  <2>6. "finalize" \in Phases
    BY DEF Phases
  <2>7. (\A q \in Procs : Alone(pc[q], local[q]))'
    BY <1>2, <2>2, <2>5, <2>6, AloneGoes
  <2> QED BY <1>4, <2>3, <2>7 DEF RetryIInv
<1>6. CASE Fail(p)
  <2>1. PICK state : state = l.failure
    OBVIOUS
  <2>2. state \in InFlight \cup Terminal /\ SetState(l.run, state) /\ Goto(p, "idle", l)
    BY <1>1, <1>2, <1>6, <2>1 DEF Fail, Terminal, Local
  <2>3. OneInFlight'
    BY <1>2, <1>3, <2>2, RetrySet
  <2>4. (\A q \in Procs : Alone(pc[q], local[q]))'
    BY <1>2, <2>2, BlankType, AloneGoes
  <2> QED BY <1>4, <2>3, <2>4 DEF RetryIInv
<1> QED BY <1>5, <1>6

\* Which sessions can be reused once the row of s is another.
LEMMA ReusableAfter ==
  ASSUME TypeOK, NEW s \in Sessions, NEW row \in Row, session' = [session EXCEPT ![s] = row]
  PROVE  Reusable' = IF row.attention = "review_failed" THEN Reusable \ {s}
                     ELSE Reusable \cup {s}
<1>1. session \in [Sessions -> Row \cup {NoSession}] /\ row # NoSession
  BY StateTypes, NoSessionAssumption
<1>2. session'[s] = row /\ \A t \in Sessions \ {s} : session'[t] = session[t]
  BY <1>1
<1> QED BY <1>1, <1>2 DEF Reusable, Known

LEMMA RetryRows ==
  ASSUME OneAtATime, LifecycleIInv, RetryIInv, NEW p \in Procs,
         Provision(p) \/ FinalizeStart(p) \/ DemotePut(p) \/ FinalizeReentry(p)
  PROVE  RetryIInv'
<1>1. PICK l : l = local[p]
  OBVIOUS
<1>2. l \in Local /\ Stands(pc[p], l) /\ Alone(pc[p], l)
  BY <1>1, AloneNow
<1>3. Held(l) /\ attempts[l.run].state \in InFlight
  BY <1>2 DEF Stands, Alone, Provision, FinalizeStart, DemotePut, FinalizeReentry, Holding
<1>4. PICK s : s = l.session
  OBVIOUS
<1>5. TypeOK /\ s \in Sessions
  BY <1>2, <1>3, <1>4, HeldType DEF LifecycleIInv
<1>6. \A t \in Known : session[t] \in Row
  BY <1>5, RowType
<1>7. CASE Provision(p)
  <2>1. PICK row : row = [provider |-> l.provider, attention |-> "review_launched",
                          version |-> 0, locator |-> FALSE]
    OBVIOUS
  <2>2. session' = [session EXCEPT ![s] = row] /\ Goto(p, "provision_run", l)
        /\ UNCHANGED attempts /\ pc[p] = "provision"
    BY <1>1, <1>4, <1>7, <2>1 DEF Provision
  <2>3. l.action = "start_review" /\ l.provider = "hosted"
    BY <1>2, <2>2 DEF Stands
  <2>4. row \in Row /\ row.attention # "review_failed"
    BY <1>2, <2>1 DEF Row, Attentions, Local
  <2>5. Reusable = {}
    BY <1>2, <2>2, <2>3 DEF Alone, Unborn, Holding
  <2>6. Reusable' = {s}
    BY <1>5, <2>2, <2>4, <2>5, ReusableAfter
  <2>7. Alone("provision_run", l)'
    BY <1>3, <1>4, <2>2, <2>3, <2>6 DEF Alone, Worker, Unborn, Provisioned
  <2>8. (\A q \in Procs : Alone(pc[q], local[q]))'
    BY <1>2, <2>2, <2>7, AloneGoes DEF Phases
  <2>9. OneInFlight'
    BY <2>2 DEF RetryIInv, OneInFlight
  <2> QED BY <2>6, <2>8, <2>9 DEF RetryIInv
<1>8. CASE FinalizeStart(p)
  <2>1. PICK version : version = IF s \in Known THEN session[s].version + 1 ELSE 0
    OBVIOUS
  <2>2. PICK row : row = [provider |-> l.provider, attention |-> "review_launched",
                          version |-> version, locator |-> TRUE]
    OBVIOUS
  <2>3. session' = [session EXCEPT ![s] = row] /\ Goto(p, "idle", l)
        /\ SetState(l.run, "verified") /\ pc[p] = "finalize" /\ l.action = "start_review"
    BY <1>1, <1>4, <1>8, <2>1, <2>2 DEF FinalizeStart
  <2>4. version \in Nat
    BY <1>6, <2>1 DEF Row
  <2>5. row \in Row /\ row.attention # "review_failed"
    BY <1>2, <2>2, <2>4 DEF Row, Attentions, Local
  <2>6. Reusable \subseteq {s}
    <3>1. l.provider = "hosted" \/ l.provider = "linked"
      BY <1>2 DEF Local
    <3> QED BY <1>2, <1>4, <2>3, <3>1 DEF Alone, Unborn, Provisioned, Holding
  <2>7. Reusable' = {s}
    BY <1>5, <2>3, <2>5, <2>6, ReusableAfter
  <2>8. (\A q \in Procs : Alone(pc[q], local[q]))'
    BY <1>2, <2>3, BlankType, AloneGoes
  <2>9. OneInFlight'
    BY <1>2, <1>3, <2>3, RetrySet DEF Terminal
  <2> QED BY <2>7, <2>8, <2>9 DEF RetryIInv
<1>9. CASE DemotePut(p)
  <2>1. l.action = "start_review" /\ l.provider = "hosted" /\ pc[p] = "demote_put"
        /\ Goto(p, "fail", l) /\ UNCHANGED attempts
    BY <1>1, <1>2, <1>9 DEF Stands, DemotePut
  <2>2. s \in Known
    BY <1>2, <1>4, <2>1 DEF Stands, Provisioned
  <2>3. PICK row : row = IF session[s].version = l.version
                         THEN Written(session[s], "review_failed") ELSE session[s]
    OBVIOUS
  <2>4. session' = [session EXCEPT ![s] = row]
    BY <1>1, <1>4, <1>9, <2>3 DEF DemotePut
  <2>5. row \in Row /\ row.attention \in {"review_failed", session[s].attention}
    BY <1>6, <2>2, <2>3, NextVersion DEF Attentions
  <2>6. Reusable' \subseteq Reusable
    <3>1. session[s].attention # "review_failed" => s \in Reusable
      BY <2>2 DEF Reusable
    <3> QED BY <1>5, <2>4, <2>5, <3>1, ReusableAfter
  <2>7. Alone("fail", l)'
    BY <1>3, <2>1 DEF Alone, Worker, Unborn, Provisioned
  <2>8. (\A q \in Procs : Alone(pc[q], local[q]))'
    BY <1>2, <2>1, <2>7, AloneGoes DEF Phases
  <2>9. OneInFlight'
    BY <2>1 DEF RetryIInv, OneInFlight
  <2> QED BY <2>6, <2>8, <2>9 DEF RetryIInv
<1>10. CASE FinalizeReentry(p)
  <2>1. l.action # "start_review" /\ pc[p] = "finalize" /\ SetState(l.run, "verified")
        /\ Goto(p, AfterReentry(l), l)
    BY <1>1, <1>10 DEF FinalizeReentry
  <2>2. s \in Known /\ session[s].locator
    BY <1>2, <1>4, <2>1 DEF Stands, Reads, ReadRow
  <2>3. s \in Reusable
    BY <2>2 DEF Reusable, LifecycleIInv, RowsInv, Located
  <2>4. PICK written : written = Written(session[s], Reentered(l))
    OBVIOUS
  <2>5. PICK row : row = [written EXCEPT !.locator = TRUE]
    OBVIOUS
  <2>6. written \in Row /\ written.attention # "review_failed"
    <3>1. Reentered(l) \in Attentions \ {"review_failed"}
      BY DEF Reentered, Attentions
    <3> QED BY <1>6, <2>2, <2>4, <3>1, NextVersion
  <2>7. row \in Row /\ row.attention # "review_failed"
    BY <2>5, <2>6 DEF Row
  <2>8. session' = [session EXCEPT ![s] = row]
    BY <1>1, <1>4, <1>10, <2>4, <2>5 DEF FinalizeReentry
  <2>9. Reusable' = Reusable
    BY <1>5, <2>3, <2>7, <2>8, ReusableAfter
  <2>10. PICK ph : ph = AfterReentry(l)
    OBVIOUS
  <2>11. ph \in Phases /\ Alone(ph, l)'
    BY <2>10 DEF Alone, AfterReentry, Phases, Holding, Worker, Unborn, Provisioned
  <2>12. (\A q \in Procs : Alone(pc[q], local[q]))'
    BY <1>2, <2>1, <2>10, <2>11, AloneGoes
  <2>13. OneInFlight'
    BY <1>2, <1>3, <2>1, RetrySet DEF Terminal
  <2> QED BY <2>9, <2>12, <2>13 DEF RetryIInv
<1> QED BY <1>7, <1>8, <1>9, <1>10

LEMMA RetryInductive == ASSUME OneAtATime PROVE LifecycleIInv /\ RetryIInv /\ [Next]_vars => RetryIInv'
<1> SUFFICES ASSUME LifecycleIInv, RetryIInv, [Next]_vars PROVE RetryIInv'
  OBVIOUS
<1>1. ASSUME NEW p \in Procs, Step(p) PROVE RetryIInv'
  <2>1. pc[p] \notin Worker
    BY AloneNow DEF Alone
  <2>2. ~AgentBind(p) /\ ~AgentRecord(p) /\ ~AgentReady(p) /\ ~AgentReload(p)
    BY <2>1 DEF AgentBind, AgentRecord, AgentReady, AgentReload, Worker
  <2> QED BY <1>1, <2>2, RetryQuiet, RetryAbandon, RetryInsert, RetryStates, RetryRows DEF Step
<1>2. ASSUME NEW p \in Procs, Start(p) \/ Stop(p) PROVE RetryIInv'
  BY <1>2, RetryQuiet
<1>3. CASE UNCHANGED vars
  <2>1. Reusable' = Reusable
    BY <1>3 DEF vars, Reusable, Known
  <2> QED BY <1>3, <2>1 DEF vars, RetryIInv, OneInFlight, Alone, Abandons
<1> QED BY <1>1, <1>2, <1>3 DEF Next

\* Where commands run one after the other, and however many of them die half
\* way: a retry leaves one attempt of a kind in flight, and one session that
\* `rr review` goes on with (create_launch_attempt, select_reusable_session).
THEOREM RetriesDoNotPileUp == ASSUME OneAtATime PROVE Spec => []RetriesLeaveOne
<1>1. LifecycleIInv /\ RetryIInv => RetriesLeaveOne
  <2> SUFFICES ASSUME RetryIInv PROVE RetriesLeaveOne
    OBVIOUS
  <2>1. Reusable = {} \/ \E s \in Reusable : Reusable = {s}
    BY DEF RetryIInv
  <2>2. Cardinality(Reusable) <= 1
    <3>1. CASE Reusable = {}
      <4>1. Cardinality(Reusable) = 0
        BY <3>1, FS_EmptySet
      <4> QED BY <4>1
    <3>2. ASSUME NEW s \in Reusable, Reusable = {s} PROVE Cardinality(Reusable) <= 1
      <4>1. Cardinality(Reusable) = 1
        BY <3>2, FS_Singleton
      <4> QED BY <4>1
    <3> QED BY <2>1, <3>1, <3>2
  <2> QED BY <2>2 DEF RetryIInv, RetriesLeaveOne, OneLiveSession
<1> QED BY <1>1, LifecycleAlways, RetryInitial, RetryInductive, PTL DEF Spec

-----------------------------------------------------------------------------
(* What can be reused can be resumed.                                      *)

\* Processes that run to their end, and no worker.
NoneDies == Agents = {} /\ ~CanFail

\* A session that can be reused is finished, or its start still goes on, also
\* after a step of p.
LEMMA StillStarting ==
  ASSUME ResumableIInv, TypeOK, NEW p \in Procs, NEW ph \in Phases, NEW l \in Local,
         Goto(p, ph, l), NEW s \in Reusable, ~session[s].locator,
         Provisioned(pc[p], local[p]) /\ local[p].session = s =>
           Provisioned(ph, l) /\ l.session = s
  PROVE  Starting(s)'
<1>1. PICK q \in Procs : Provisioned(pc[q], local[q]) /\ local[q].session = s
  BY DEF ResumableIInv, Starting
<1>2. /\ pc'[p] = ph /\ (ph # "idle" => local'[p] = l)
      /\ \A r \in Procs \ {p} : pc'[r] = pc[r] /\ local'[r] = local[r]
  BY GotoType
<1>3. CASE q = p
  <2>1. Provisioned(ph, l) /\ l.session = s
    BY <1>1, <1>3
  <2>2. ph # "idle"
    BY <2>1 DEF Provisioned
  <2> QED BY <1>2, <2>1, <2>2 DEF Starting, Provisioned
<1>4. CASE q # p
  BY <1>1, <1>2, <1>4 DEF Starting, Provisioned
<1> QED BY <1>3, <1>4

\* A step that leaves the rows alone.
LEMMA ResumableQuiet ==
  ASSUME LifecycleIInv, ResumableIInv, NEW p \in Procs, NEW ph \in Phases, NEW l \in Local,
         Goto(p, ph, l), UNCHANGED session, ph \notin Worker,
         Provisioned(pc[p], local[p]) =>
           Provisioned(ph, l) /\ l.session = local[p].session,
         ph = "demote_put" => session[l.session].version = l.version
  PROVE  ResumableIInv'
<1>1. Reusable' = Reusable
  BY DEF Reusable, Known
<1>2. \A s \in Reusable : session'[s].locator \/ Starting(s)'
  BY StillStarting DEF LifecycleIInv
<1>3. /\ pc'[p] = ph /\ (ph # "idle" => local'[p] = l)
      /\ \A r \in Procs \ {p} : pc'[r] = pc[r] /\ local'[r] = local[r]
  BY GotoType DEF LifecycleIInv
<1>4. ASSUME NEW q \in Procs
      PROVE  /\ pc'[q] \notin Worker
             /\ pc'[q] = "demote_put" => session'[local'[q].session].version = local'[q].version
  BY <1>3 DEF ResumableIInv
<1> QED BY <1>1, <1>2, <1>4 DEF ResumableIInv

\* A step that replaces the row of s: p leaves it as `row`: with a provider session to resume, failed, or
\* still its own to finish; and nobody else is about to demote s.
PutsResumable(p, ph, l, s, row) ==
  /\ p \in Procs /\ ph \in Phases /\ l \in Local /\ s \in Sessions /\ row \in Row
  /\ Goto(p, ph, l) /\ session' = [session EXCEPT ![s] = row]
  /\ ph \notin Worker /\ ph # "demote_put"
  /\ \/ row.locator \/ row.attention = "review_failed"
     \/ Provisioned(ph, l) /\ l.session = s
  /\ Provisioned(pc[p], local[p]) => local[p].session = s
  /\ \A q \in Procs \ {p} : pc[q] = "demote_put" => local[q].session # s

LEMMA ResumableRow ==
  ASSUME LifecycleIInv, ResumableIInv, NEW p, NEW ph, NEW l, NEW s, NEW row,
         PutsResumable(p, ph, l, s, row)
  PROVE  ResumableIInv'
<1>a. /\ p \in Procs /\ ph \in Phases /\ l \in Local /\ s \in Sessions /\ row \in Row
      /\ Goto(p, ph, l) /\ session' = [session EXCEPT ![s] = row]
  BY DEF PutsResumable
<1>b. ph \notin Worker /\ ph # "demote_put"
  BY DEF PutsResumable
<1>c. \/ row.locator \/ row.attention = "review_failed"
      \/ Provisioned(ph, l) /\ l.session = s
  BY DEF PutsResumable
<1>d. Provisioned(pc[p], local[p]) => local[p].session = s
  BY DEF PutsResumable
<1>e. \A q \in Procs \ {p} : pc[q] = "demote_put" => local[q].session # s
  BY DEF PutsResumable
<1> USE <1>a, <1>b, <1>c, <1>d, <1>e
<1>1. /\ pc'[p] = ph /\ (ph # "idle" => local'[p] = l)
      /\ \A r \in Procs \ {p} : pc'[r] = pc[r] /\ local'[r] = local[r]
  BY GotoType DEF LifecycleIInv
<1>2. TypeOK /\ session \in [Sessions -> Row \cup {NoSession}]
  BY StateTypes DEF LifecycleIInv
<1>3. session'[s] = row /\ \A t \in Sessions \ {s} : session'[t] = session[t]
  BY <1>2
<1>4. ASSUME NEW t \in Reusable' PROVE session'[t].locator \/ Starting(t)'
  <2>1. CASE t # s
    <3>1. t \in Reusable
      <4>1. Reusable' \subseteq Reusable \cup {s}
        BY <1>2, ReusableAfter
      <4> QED BY <2>1, <4>1
    <3>2. session'[t] = session[t]
      BY <1>3, <2>1, <3>1 DEF Reusable, Known
    <3>3. ~(Provisioned(pc[p], local[p]) /\ local[p].session = t)
      BY <2>1
    <3> QED BY <1>2, <3>1, <3>2, <3>3, StillStarting
  <2>2. CASE t = s
    <3>1. row.attention # "review_failed"
      BY <1>3, <2>2 DEF Reusable
    <3>2. CASE row.locator
      BY <1>3, <2>2, <3>2
    <3>3. CASE Provisioned(ph, l) /\ l.session = s
      <4>1. ph # "idle"
        BY <3>3 DEF Provisioned
      <4> QED BY <1>1, <2>2, <3>3, <4>1 DEF Starting, Provisioned
    <3> QED BY <3>1, <3>2, <3>3
  <2> QED BY <2>1, <2>2
<1>5. ASSUME NEW q \in Procs
      PROVE  /\ pc'[q] \notin Worker
             /\ pc'[q] = "demote_put" => session'[local'[q].session].version = local'[q].version
  <2>1. CASE q = p
    BY <1>1, <2>1
  <2>2. CASE q # p
    <3>1. pc[q] \notin Worker /\ pc'[q] = pc[q] /\ local'[q] = local[q]
      BY <1>1, <2>2 DEF ResumableIInv
    <3>2. ASSUME pc[q] = "demote_put"
          PROVE  session'[local[q].session].version = local[q].version
      <4>1. PICK t : t = local[q].session
        OBVIOUS
      <4>2. t \in Sessions \ {s}
        <5>1. Held(local[q]) /\ local[q] \in Local
          BY <3>2, Standing DEF Stands, Holding
        <5> QED BY <1>2, <2>2, <3>2, <4>1, <5>1, HeldType
      <4>3. session[t].version = local[q].version
        BY <3>2, <4>1 DEF ResumableIInv
      <4> QED BY <1>3, <4>1, <4>2, <4>3
    <3> QED BY <3>1, <3>2
  <2> QED BY <2>1, <2>2
<1> QED BY <1>4, <1>5 DEF ResumableIInv

LEMMA ResumableInitial == Init => ResumableIInv
<1> SUFFICES ASSUME Init PROVE ResumableIInv
  OBVIOUS
<1>1. Reusable = {}
  BY DEF Init, Reusable, Known
<1> QED BY <1>1 DEF Init, ResumableIInv, Worker

LEMMA SoleStart ==
  ASSUME LifecycleIInv, NEW p \in Procs, NEW q \in Procs,
         pc[p] \in Holding, pc[q] \in Holding,
         local[p].action = "start_review", local[q].action = "start_review",
         local[p].session = local[q].session
  PROVE  p = q
<1>1. Held(local[p]) /\ Held(local[q])
  BY Standing DEF Stands
<1>2. local[p].run = local[q].run
  BY <1>1 DEF Held, LifecycleIInv, MintOnce
<1> QED BY <1>2 DEF LifecycleIInv, OwnAttempts

\* The steps of the processes that leave the rows alone.
LEMMA ResumableSteps ==
  ASSUME NoneDies, LifecycleIInv, ResumableIInv, NEW p \in Procs,
         \/ Start(p) \/ Reenter(p) \/ Abandon(p) \/ Insert(p) \/ StageTask(p)
         \/ ProvisionRun(p) \/ Launched(p) \/ LaunchFailed(p) \/ Demote(p) \/ Fail(p)
         \/ ReentryConflict(p) \/ FinalizeFails(p) \/ Rebind(p)
  PROVE  ResumableIInv'
<1>1. PICK l : l = local[p]
  OBVIOUS
<1>2. l \in Local /\ Stands(pc[p], l) /\ p \notin Agents
  BY <1>1, Standing DEF NoneDies
<1>3. ASSUME NEW ph \in Phases, NEW m \in Local, Goto(p, ph, m), UNCHANGED session,
             ph \notin Worker \cup {"demote_put"}, ~Provisioned(pc[p], l)
      PROVE  ResumableIInv'
  BY <1>1, <1>3, ResumableQuiet
<1>4. CASE Start(p)
  <2>1. pc[p] = "idle" /\ UNCHANGED session
    BY <1>4 DEF Start, Review, Fresh, Resume, AgentRead, MayOpen, store
  <2>2. ASSUME NEW ph \in {"reenter", "insert"}, NEW m \in Local, Goto(p, ph, m)
        PROVE  ResumableIInv'
    <3>1. ph \in Phases /\ ph \notin Worker \cup {"demote_put"} /\ ~Provisioned(pc[p], l)
      BY <2>1 DEF Phases, Worker, Provisioned
    <3> QED BY <1>3, <2>1, <2>2, <3>1
  <2>3. ASSUME NEW s \in Sessions, NEW action \in Actions
        PROVE  /\ [Blank EXCEPT !.action = action, !.session = s] \in Local
               /\ [Blank EXCEPT !.session = s, !.action = action] \in Local
    BY BlankType DEF Blank, Local
  <2>4. \A provider \in Providers : [Blank EXCEPT !.provider = provider] \in Local
    BY BlankType, LifecycleAssumption DEF Blank, Local
  <2>5. /\ \A s \in Known : s \in Sessions
        /\ Reusable \subseteq Known /\ {"resume_review", "return_to_roger"} \subseteq Actions
    BY DEF Known, Reusable, Actions
  <2>6. CASE Review(p)
    BY <2>2, <2>3, <2>4, <2>5, <2>6 DEF Review
  <2>7. CASE Fresh(p)
    BY <2>2, <2>4, <2>7 DEF Fresh
  <2>8. CASE Resume(p)
    <3>1. PICK s \in Known, kind \in Kinds \cap {"resume", "return"} :
            Goto(p, "reenter",
                 [Blank EXCEPT !.session = s,
                               !.action = IF kind = "resume" THEN "resume_review"
                                          ELSE "return_to_roger"])
      BY <2>8 DEF Resume
    <3>2. PICK action \in Actions :
            action = IF kind = "resume" THEN "resume_review" ELSE "return_to_roger"
      BY <2>5
    <3>3. [Blank EXCEPT !.session = s, !.action = action] \in Local
      BY <2>3, <2>5
    <3> QED BY <2>2, <3>1, <3>2, <3>3
  <2>9. ~AgentRead(p)
    BY <1>2 DEF AgentRead
  <2> QED BY <1>4, <2>6, <2>7, <2>8, <2>9 DEF Start
<1>5. CASE Reenter(p)
  <2>1. PICK m : m = Reading(l, l.session)
    OBVIOUS
  <2>2. l.session \in Known
    BY <1>1, <1>2, <1>5 DEF Stands, Reenter
  <2>3. m \in Local
    BY <1>2, <2>1, <2>2, ReadingType DEF LifecycleIInv
  <2>4. Goto(p, "abandon", m) /\ UNCHANGED session /\ ~Provisioned(pc[p], l)
    BY <1>1, <1>5, <2>1 DEF Reenter, store, Provisioned
  <2> QED BY <1>3, <2>3, <2>4 DEF Phases, Worker
<1>6. CASE Abandon(p)
  <2>1. Goto(p, "insert", l) /\ UNCHANGED session /\ ~Provisioned(pc[p], l)
    BY <1>1, <1>6 DEF Abandon, Provisioned
  <2> QED BY <1>2, <1>3, <2>1 DEF Phases, Worker
<1>7. CASE Insert(p)
  <2>1. PICK s \in IF l.action = "start_review"
                   THEN Sessions \ {attempts[i].session : i \in DOMAIN attempts}
                   ELSE {l.session} :
          Goto(p, IF l.action = "start_review" THEN "task" ELSE "launch",
               [l EXCEPT !.session = s, !.run = Len(attempts) + 1])
    BY <1>1, <1>7 DEF Insert
  <2>2. PICK ph : ph = IF l.action = "start_review" THEN "task" ELSE "launch"
    OBVIOUS
  <2>3. PICK m : m = [l EXCEPT !.session = s, !.run = Len(attempts) + 1]
    OBVIOUS
  <2>4. m \in Local
    <3>1. Len(attempts) + 1 \in Nat
      BY DEF LifecycleIInv, TypeOK
    <3>2. s \in Sessions \cup {NoSession}
      BY <1>2, <2>1 DEF Local
    <3> QED BY <1>2, <2>3, <3>1, <3>2 DEF Local
  <2>5. Goto(p, ph, m) /\ UNCHANGED session /\ ~Provisioned(pc[p], l)
        /\ ph \in Phases /\ ph \notin Worker \cup {"demote_put"}
    BY <1>7, <2>1, <2>2, <2>3 DEF Insert, Provisioned, Phases, Worker
  <2> QED BY <1>3, <2>4, <2>5
<1>8. CASE StageTask(p)
  <2>1. PICK ph : ph = IF Provisions(l) THEN "provision" ELSE "launch"
    OBVIOUS
  <2>2. Goto(p, ph, l) /\ UNCHANGED session /\ ~Provisioned(pc[p], l)
        /\ ph \in Phases /\ ph \notin Worker \cup {"demote_put"}
    BY <1>1, <1>8, <2>1 DEF StageTask, store, Provisioned, Phases, Worker
  <2> QED BY <1>2, <1>3, <2>2
<1>9. CASE ProvisionRun(p) \/ Launched(p)
  <2>1. PICK ph \in {"launch", "finalize"} : Goto(p, ph, l)
    BY <1>1, <1>9 DEF ProvisionRun, Launched
  <2>2. /\ UNCHANGED session /\ ph \in Phases /\ ph \notin Worker \cup {"demote_put"}
        /\ Provisioned(pc[p], l) => Provisioned(ph, l)
    BY <1>9, <2>1 DEF ProvisionRun, Launched, Provisioned, Phases, Worker
  <2> QED BY <1>1, <1>2, <2>1, <2>2, ResumableQuiet
<1>10. CASE LaunchFailed(p)
  <2>1. PICK ph : ph = FailurePhase(l)
    OBVIOUS
  <2>2. /\ Goto(p, ph, l) /\ UNCHANGED session /\ ph \in Phases
        /\ ph \notin Worker \cup {"demote_put"}
        /\ Provisioned(pc[p], l) => Provisioned(ph, l)
    BY <1>1, <1>10, <2>1
       DEF LaunchFailed, store, FailurePhase, Provisions, Provisioned, Phases, Worker
  <2> QED BY <1>1, <1>2, <2>2, ResumableQuiet
<1>11. CASE Demote(p)
  <2>1. l.action = "start_review" /\ l.provider = "hosted" /\ pc[p] = "demote"
    BY <1>1, <1>2, <1>11 DEF Stands, Demote
  <2>2. l.session \in Known /\ session[l.session].provider = "hosted"
    BY <1>2, <2>1 DEF Stands, Provisioned
  <2>3. PICK m : m = Reading(l, l.session)
    OBVIOUS
  <2>4. m \in Local /\ m.action = l.action /\ m.session = l.session
        /\ m.provider = "hosted" /\ m.version = session[m.session].version
    BY <1>2, <2>2, <2>3, ReadingType DEF LifecycleIInv
  <2>5. Goto(p, "demote_put", m) /\ UNCHANGED session
    BY <1>1, <1>11, <2>3 DEF Demote, store
  <2>6. Provisioned("demote_put", m) /\ "demote_put" \in Phases /\ "demote_put" \notin Worker
    BY <2>1, <2>4 DEF Provisioned, Phases, Worker
  <2> QED BY <1>1, <2>4, <2>5, <2>6, ResumableQuiet
<1>12. CASE Fail(p) \/ Rebind(p)
  <2>1. Goto(p, "idle", l) /\ UNCHANGED session /\ ~Provisioned(pc[p], l)
    BY <1>1, <1>12 DEF Fail, Rebind, store, Provisioned
  <2> QED BY <1>2, <1>3, <2>1 DEF Phases, Worker
<1>13. CASE ReentryConflict(p)
  <2>1. PICK m : m = [l EXCEPT !.failure = "failed_session_binding"]
    OBVIOUS
  <2>2. m \in Local
    BY <1>2, <2>1 DEF Local, Failures
  <2>3. Goto(p, "fail", m) /\ UNCHANGED session /\ ~Provisioned(pc[p], l)
    BY <1>1, <1>13, <2>1 DEF ReentryConflict, store, Provisioned
  <2> QED BY <1>3, <2>2, <2>3 DEF Phases, Worker
<1>14. CASE FinalizeFails(p)
  BY <1>14 DEF FinalizeFails, NoneDies
<1> QED BY <1>4, <1>5, <1>6, <1>7, <1>8, <1>9, <1>10, <1>11, <1>12, <1>13, <1>14

LEMMA ResumableRows ==
  ASSUME NoneDies, LifecycleIInv, ResumableIInv, NEW p \in Procs,
         Provision(p) \/ FinalizeStart(p) \/ DemotePut(p) \/ FinalizeReentry(p)
  PROVE  ResumableIInv'
<1>1. PICK l : l = local[p]
  OBVIOUS
<1>2. l \in Local /\ Stands(pc[p], l) /\ pc[p] \in Holding
  BY <1>1, Standing DEF Provision, FinalizeStart, DemotePut, FinalizeReentry, Holding
<1>3. PICK s : s = l.session
  OBVIOUS
<1>4. TypeOK /\ s \in Sessions
  BY <1>2, <1>3, HeldType DEF LifecycleIInv, Stands
<1>5. \A t \in Known : session[t] \in Row
  BY <1>4, RowType
<1>6. ASSUME NEW q \in Procs, pc[q] = "demote_put"
      PROVE  /\ pc[q] \in Holding /\ local[q].action = "start_review"
             /\ ~session[local[q].session].locator
  <2>1. Stands("demote_put", local[q])
    BY <1>6, Standing
  <2>2. local[q].action = "start_review" /\ local[q].provider = "hosted"
    BY <2>1 DEF Stands
  <2> QED BY <1>6, <2>1, <2>2 DEF Stands, Provisioned, Holding
<1>7. l.action = "start_review" =>
        \A q \in Procs \ {p} : pc[q] = "demote_put" => local[q].session # s
  BY <1>1, <1>2, <1>3, <1>6, SoleStart
<1>15. Provisioned(pc[p], local[p]) => local[p].session = s
  BY <1>1, <1>3
<1>16. l \in Local
  BY <1>2
<1>17. s \in Sessions
  BY <1>4
<1>8. CASE Provision(p)
  <2>1. PICK row : row = [provider |-> l.provider, attention |-> "review_launched",
                          version |-> 0, locator |-> FALSE]
    OBVIOUS
  <2>2. session' = [session EXCEPT ![s] = row] /\ Goto(p, "provision_run", l)
        /\ pc[p] = "provision"
    BY <1>1, <1>3, <1>8, <2>1 DEF Provision
  <2>3. l.action = "start_review" /\ l.provider = "hosted"
    BY <1>2, <2>2 DEF Stands
  <2>4. row \in Row
    BY <1>2, <2>1 DEF Row, Attentions, Local
  <2>5. Provisioned("provision_run", l) /\ "provision_run" \in Phases
        /\ "provision_run" \notin Worker
    BY <2>3 DEF Provisioned, Phases, Worker
  <2>20. PICK ph : ph = "provision_run"
    OBVIOUS
  <2>21. ph \in Phases /\ ph \notin Worker /\ ph # "demote_put" /\ Goto(p, ph, l)
    BY <2>20, <2>2, <2>5
  <2>22. \/ row.locator \/ row.attention = "review_failed"
         \/ Provisioned(ph, l) /\ l.session = s
    BY <2>20, <1>3, <2>5
  <2>23. row \in Row /\ session' = [session EXCEPT ![s] = row]
    BY <2>2, <2>4
  <2>24. \A q \in Procs \ {p} : pc[q] = "demote_put" => local[q].session # s
    BY <1>7, <2>3
  <2>25. PutsResumable(p, ph, l, s, row)
    BY <1>15, <1>16, <1>17, <2>21, <2>22, <2>23, <2>24 DEF PutsResumable
  <2> QED BY <2>25, ResumableRow
<1>9. CASE FinalizeStart(p)
  <2>1. PICK version : version = IF s \in Known THEN session[s].version + 1 ELSE 0
    OBVIOUS
  <2>2. PICK row : row = [provider |-> l.provider, attention |-> "review_launched",
                          version |-> version, locator |-> TRUE]
    OBVIOUS
  <2>3. session' = [session EXCEPT ![s] = row] /\ Goto(p, "idle", l)
        /\ l.action = "start_review"
    BY <1>1, <1>3, <1>9, <2>1, <2>2 DEF FinalizeStart
  <2>4. version \in Nat
    BY <1>5, <2>1 DEF Row
  <2>5. row \in Row /\ row.locator
    BY <1>2, <2>2, <2>4 DEF Row, Attentions, Local
  <2>6. "idle" \in Phases /\ "idle" \notin Worker
    BY DEF Phases, Worker
  <2>20. PICK ph : ph = "idle"
    OBVIOUS
  <2>21. ph \in Phases /\ ph \notin Worker /\ ph # "demote_put" /\ Goto(p, ph, l)
    BY <2>20, <2>3, <2>6
  <2>22. \/ row.locator \/ row.attention = "review_failed"
         \/ Provisioned(ph, l) /\ l.session = s
    BY <2>20, <2>5
  <2>23. row \in Row /\ session' = [session EXCEPT ![s] = row]
    BY <2>3, <2>5
  <2>24. \A q \in Procs \ {p} : pc[q] = "demote_put" => local[q].session # s
    BY <1>7, <2>3
  <2>25. PutsResumable(p, ph, l, s, row)
    BY <1>15, <1>16, <1>17, <2>21, <2>22, <2>23, <2>24 DEF PutsResumable
  <2> QED BY <2>25, ResumableRow
<1>10. CASE DemotePut(p)
  <2>1. l.action = "start_review" /\ l.provider = "hosted" /\ pc[p] = "demote_put"
        /\ Goto(p, "fail", l)
    BY <1>1, <1>2, <1>10 DEF Stands, DemotePut
  <2>2. s \in Known
    BY <1>2, <1>3, <2>1 DEF Stands, Provisioned
  <2>3. session[s].version = l.version
    BY <1>1, <1>3, <2>1 DEF ResumableIInv
  <2>4. PICK row : row = Written(session[s], "review_failed")
    OBVIOUS
  <2>5. session' = [session EXCEPT ![s] = row]
    BY <1>1, <1>3, <1>10, <2>3, <2>4 DEF DemotePut
  <2>6. row \in Row /\ row.attention = "review_failed"
    BY <1>5, <2>2, <2>4, NextVersion DEF Attentions
  <2>7. "fail" \in Phases /\ "fail" \notin Worker
    BY DEF Phases, Worker
  <2>20. PICK ph : ph = "fail"
    OBVIOUS
  <2>21. ph \in Phases /\ ph \notin Worker /\ ph # "demote_put" /\ Goto(p, ph, l)
    BY <2>20, <2>1, <2>7
  <2>22. \/ row.locator \/ row.attention = "review_failed"
         \/ Provisioned(ph, l) /\ l.session = s
    BY <2>20, <2>6
  <2>23. row \in Row /\ session' = [session EXCEPT ![s] = row]
    BY <2>5, <2>6
  <2>24. \A q \in Procs \ {p} : pc[q] = "demote_put" => local[q].session # s
    BY <1>7, <2>1
  <2>25. PutsResumable(p, ph, l, s, row)
    BY <1>15, <1>16, <1>17, <2>21, <2>22, <2>23, <2>24 DEF PutsResumable
  <2> QED BY <2>25, ResumableRow
<1>11. CASE FinalizeReentry(p)
  <2>1. l.action # "start_review" /\ pc[p] = "finalize" /\ Goto(p, AfterReentry(l), l)
    BY <1>1, <1>11 DEF FinalizeReentry
  <2>2. s \in Known /\ session[s].locator
    BY <1>2, <1>3, <2>1 DEF Stands, Reads, ReadRow
  <2>3. PICK written : written = Written(session[s], Reentered(l))
    OBVIOUS
  <2>4. PICK row : row = [written EXCEPT !.locator = TRUE]
    OBVIOUS
  <2>5. written \in Row
    <3>1. Reentered(l) \in Attentions
      BY DEF Reentered, Attentions
    <3> QED BY <1>5, <2>2, <2>3, <3>1, NextVersion
  <2>6. row \in Row /\ row.locator
    BY <2>4, <2>5 DEF Row
  <2>7. session' = [session EXCEPT ![s] = row]
    BY <1>1, <1>3, <1>11, <2>3, <2>4 DEF FinalizeReentry
  <2>8. \A q \in Procs \ {p} : pc[q] = "demote_put" => local[q].session # s
    BY <1>6, <2>2
  <2>9. PICK ph : ph = AfterReentry(l)
    OBVIOUS
  <2>10. ph \in Phases /\ ph \notin Worker /\ ph # "demote_put"
    BY <2>9 DEF AfterReentry, Phases, Worker
  <2>11. Goto(p, ph, l)
    BY <2>1, <2>9
  <2>12. \/ row.locator \/ row.attention = "review_failed"
         \/ Provisioned(ph, l) /\ l.session = s
    BY <2>6
  <2>13. row \in Row /\ session' = [session EXCEPT ![s] = row]
    BY <2>6, <2>7
  <2>14. PutsResumable(p, ph, l, s, row)
    BY <1>15, <1>16, <1>17, <2>8, <2>10, <2>11, <2>12, <2>13 DEF PutsResumable
  <2> QED BY <2>14, ResumableRow
<1> QED BY <1>8, <1>9, <1>10, <1>11

LEMMA ResumableInductive ==
  ASSUME NoneDies PROVE LifecycleIInv /\ ResumableIInv /\ [Next]_vars => ResumableIInv'
<1> SUFFICES ASSUME LifecycleIInv, ResumableIInv, [Next]_vars PROVE ResumableIInv'
  OBVIOUS
<1>1. ASSUME NEW p \in Procs, Step(p) PROVE ResumableIInv'
  <2>1. pc[p] \notin Worker
    BY DEF ResumableIInv
  <2>2. ~AgentBind(p) /\ ~AgentRecord(p) /\ ~AgentReady(p) /\ ~AgentReload(p)
    BY <2>1 DEF AgentBind, AgentRecord, AgentReady, AgentReload, Worker
  <2> QED BY <1>1, <2>2, ResumableSteps, ResumableRows DEF Step
<1>2. ASSUME NEW p \in Procs, Start(p) PROVE ResumableIInv'
  BY <1>2, ResumableSteps
<1>3. \A p \in Procs : ~Stop(p)
  BY DEF Stop, NoneDies
<1>4. CASE UNCHANGED vars
  <2>1. Reusable' = Reusable
    BY <1>4 DEF vars, Reusable, Known
  <2> QED BY <1>4, <2>1 DEF vars, ResumableIInv, Starting, Provisioned
<1> QED BY <1>1, <1>2, <1>3, <1>4 DEF Next

\* For any number of commands that overlap and of which none dies: once they
\* have ended, a session that `rr review` would reuse has a provider session to
\* resume (demote_provisional_session before the attempt is failed).
THEOREM WhatIsReusedResumes == ASSUME NoneDies PROVE Spec => []ReusableIsResumable
<1>1. LifecycleIInv /\ ResumableIInv => ReusableIsResumable
  <2> SUFFICES ASSUME ResumableIInv, AllIdle, NEW s \in Reusable PROVE session[s].locator
    BY DEF ReusableIsResumable
  <2>1. ~Starting(s)
    BY DEF AllIdle, Starting, Provisioned
  <2> QED BY <2>1 DEF ResumableIInv
<1> QED BY <1>1, LifecycleAlways, ResumableInitial, ResumableInductive, PTL DEF Spec
=============================================================================
