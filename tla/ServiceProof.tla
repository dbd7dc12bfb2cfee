----------------------------- MODULE ServiceProof -----------------------------
(***************************************************************************)
(* Proofs about BackupService: the engine, its worker and its handlers,    *)
(* for any days, any number of files, jobs and restarts.                   *)
(***************************************************************************)
EXTENDS ServiceInv, TLAPS

-----------------------------------------------------------------------------
(* Routes.                                                                 *)

\* Going one hop along a legal route leaves a legal route to the same end.
LEMMA Hop ==
    ASSUME NEW s \in BackupState, NEW r \in Seq(BackupState), r # <<>>, Legal(s, r)
    PROVE  /\ Head(r) \in BackupState /\ Tail(r) \in Seq(BackupState)
           /\ CanTransition(s, Head(r))
           /\ Legal(Head(r), Tail(r))
           /\ Destination(Head(r), Tail(r)) = Destination(s, r)
<1>1. /\ Len(r) \in Nat \ {0} /\ Head(r) = r[1] /\ Head(r) \in BackupState
      /\ Tail(r) \in Seq(BackupState) /\ Len(Tail(r)) = Len(r) - 1
      /\ \A i \in 1..Len(r) - 1 : Tail(r)[i] = r[i + 1]
  OBVIOUS
<1>2. CanTransition(s, Head(r))
  BY <1>1 DEF Legal
<1>3. ASSUME NEW i \in 1..Len(Tail(r))
      PROVE  CanTransition(IF i = 1 THEN Head(r) ELSE Tail(r)[i - 1], Tail(r)[i])
  <2>1. i + 1 \in 1..Len(r) /\ Tail(r)[i] = r[i + 1]
    BY <1>1
  <2>2. (IF i = 1 THEN Head(r) ELSE Tail(r)[i - 1]) = r[i]
    BY <1>1
  <2> QED
    BY <2>1, <2>2, <1>1 DEF Legal
<1>4. Destination(Head(r), Tail(r)) = Destination(s, r)
  <2>1. CASE Len(r) = 1
    BY <1>1, <2>1 DEF Destination
  <2>2. CASE Len(r) > 1
    BY <1>1, <2>2 DEF Destination
  <2> QED
    BY <1>1, <2>1, <2>2
<1> QED
  BY <1>1, <1>2, <1>3, <1>4 DEF Legal

\* No route: nothing to ask, and the end is here.
LEMMA NoRoute ==
    ASSUME NEW s
    PROVE  Legal(s, <<>>) /\ Destination(s, <<>>) = s
BY DEF Legal, Destination

\* A state's own allowed hop is a legal route of one.
LEMMA OneHop ==
    ASSUME NEW s, NEW t, CanTransition(s, t)
    PROVE  Legal(s, <<t>>) /\ Destination(s, <<t>>) = t
BY DEF Legal, Destination

LEMMA TwoHops ==
    ASSUME NEW s, NEW t, NEW u, CanTransition(s, t), CanTransition(t, u)
    PROVE  Legal(s, <<t, u>>) /\ Destination(s, <<t, u>>) = u
BY DEF Legal, Destination

LEMMA ThreeHops ==
    ASSUME NEW s, NEW t, NEW u, NEW v,
           CanTransition(s, t), CanTransition(t, u), CanTransition(u, v)
    PROVE  Legal(s, <<t, u, v>>) /\ Destination(s, <<t, u, v>>) = v
BY DEF Legal, Destination

LEMMA FourHops ==
    ASSUME NEW s, NEW t, NEW u, NEW v, NEW w, CanTransition(s, t), CanTransition(t, u),
           CanTransition(u, v), CanTransition(v, w)
    PROVE  Legal(s, <<t, u, v, w>>) /\ Destination(s, <<t, u, v, w>>) = w
BY DEF Legal, Destination

LEMMA RouteTypes ==
    ASSUME NEW s \in BackupState, NEW t \in BackupState, NEW u \in BackupState,
           NEW v \in BackupState
    PROVE  /\ <<>> \in Seq(BackupState) /\ <<s>> \in Seq(BackupState)
           /\ <<s, t>> \in Seq(BackupState) /\ <<s, t, u>> \in Seq(BackupState)
           /\ <<s, t, u, v>> \in Seq(BackupState)
OBVIOUS

LEMMA Names ==
    /\ "IDLE" \in BackupState /\ "SOURCE_DETECTED" \in BackupState
    /\ "SOURCE_MOUNTING" \in BackupState /\ "SOURCE_READY" \in BackupState
    /\ "PREFLIGHT_SCANNING" \in BackupState /\ "PREFLIGHT_HASHING" \in BackupState
    /\ "PREFLIGHT_COMPARING" \in BackupState /\ "PREFLIGHT_CAPACITY_CHECK" \in BackupState
    /\ "PREFLIGHT_BLOCKED" \in BackupState /\ "PREFLIGHT_WARNING" \in BackupState
    /\ "PREFLIGHT_READY" \in BackupState /\ "BACKUP_QUEUED" \in BackupState
    /\ "BACKUP_COPYING" \in BackupState /\ "BACKUP_VERIFYING" \in BackupState
    /\ "BACKUP_CANCELLING" \in BackupState /\ "BACKUP_CANCELLED" \in BackupState
    /\ "BACKUP_COMPLETED" \in BackupState /\ "BACKUP_FAILED" \in BackupState
    /\ "BACKUP_COMPLETED_WITH_WARNINGS" \in BackupState
    /\ "SOURCE_SAFE_TO_REMOVE" \in BackupState
BY DEF BackupState

\* The hops of run_backup and of the reset routes are in the table.
LEMMA Table ==
    /\ CanTransition("IDLE", "SOURCE_DETECTED")
    /\ CanTransition("SOURCE_DETECTED", "SOURCE_MOUNTING")
    /\ CanTransition("SOURCE_MOUNTING", "SOURCE_READY")
    /\ CanTransition("SOURCE_READY", "PREFLIGHT_SCANNING")
    /\ CanTransition("PREFLIGHT_SCANNING", "PREFLIGHT_HASHING")
    /\ CanTransition("PREFLIGHT_HASHING", "PREFLIGHT_COMPARING")
    /\ CanTransition("PREFLIGHT_COMPARING", "PREFLIGHT_CAPACITY_CHECK")
    /\ CanTransition("PREFLIGHT_CAPACITY_CHECK", "PREFLIGHT_BLOCKED")
    /\ CanTransition("PREFLIGHT_CAPACITY_CHECK", "PREFLIGHT_WARNING")
    /\ CanTransition("PREFLIGHT_CAPACITY_CHECK", "PREFLIGHT_READY")
    /\ CanTransition("PREFLIGHT_WARNING", "BACKUP_QUEUED")
    /\ CanTransition("PREFLIGHT_READY", "BACKUP_QUEUED")
    /\ CanTransition("BACKUP_QUEUED", "BACKUP_COPYING")
    /\ CanTransition("BACKUP_COPYING", "BACKUP_VERIFYING")
    /\ CanTransition("BACKUP_VERIFYING", "BACKUP_COMPLETED")
    /\ CanTransition("BACKUP_VERIFYING", "BACKUP_COMPLETED_WITH_WARNINGS")
    /\ CanTransition("BACKUP_VERIFYING", "BACKUP_FAILED")
    /\ CanTransition("BACKUP_COPYING", "BACKUP_CANCELLING")
    /\ CanTransition("BACKUP_CANCELLING", "BACKUP_CANCELLED")
    /\ CanTransition("BACKUP_CANCELLED", "SOURCE_SAFE_TO_REMOVE")
    /\ CanTransition("BACKUP_COMPLETED", "SOURCE_SAFE_TO_REMOVE")
    /\ CanTransition("BACKUP_COMPLETED_WITH_WARNINGS", "SOURCE_SAFE_TO_REMOVE")
    /\ CanTransition("BACKUP_FAILED", "SOURCE_SAFE_TO_REMOVE")
    /\ CanTransition("SOURCE_SAFE_TO_REMOVE", "IDLE")
    /\ CanTransition("PREFLIGHT_BLOCKED", "IDLE")
BY DEF CanTransition, Allowed

-----------------------------------------------------------------------------
(* The inductive invariant.                                                *)

LEMMA InitInv == Init => Inv
<1> SUFFICES ASSUME Init PROVE Inv
  OBVIOUS
<1>1. TypeOK
  BY CardIsFinite DEF Init, TypeOK, BackupState, ClockState, Outcome
<1>2. Legal(state, route) /\ Ahead = "IDLE"
  BY NoRoute DEF Init, Ahead
<1>3. TrackInv /\ RestInv
  BY <1>2 DEF Init, TrackInv, RestInv
<1>4. JobInv /\ DoneInv
  BY DEF Init, JobInv, DoneInv, Named, Open, CancelledOnlyOnRequest, CompletedBacksUpCard,
    SourceBarIsBacked
<1> QED
  BY <1>1, <1>3, <1>4 DEF Inv

\* A new row goes at the end of its day, and the others stay.
LEMMA OneMore ==
    ASSUME NEW S, rows \in [Date -> Seq(S)], NEW d, NEW x \in S
    PROVE  [rows EXCEPT ![d] = Append(@, x)] \in [Date -> Seq(S)]
<1>1. ASSUME NEW e \in Date
      PROVE  [rows EXCEPT ![d] = Append(@, x)][e] \in Seq(S)
  <2>1. rows[e] \in Seq(S) /\ Append(rows[e], x) \in Seq(S)
    OBVIOUS
  <2> QED
    BY <2>1
<1> QED
  BY <1>1

\* Types.  Closing a row needs its identifier, everything else only types.
LEMMA StepType ==
    ASSUME Inv, [Next]_vars
    PROVE  TypeOK'
<1> USE CardIsFinite DEF Inv, TypeOK, ClockState
<1>1. CASE Transition
  <2>1. Head(route) \in BackupState /\ Tail(route) \in Seq(BackupState)
    BY <1>1, Hop DEF Transition, TrackInv
  <2>2. /\ state' \in BackupState /\ route' \in Seq(BackupState)
        /\ loop' \in {"free", "start", "cancel", "sync"} /\ worker' \in {worker, "none"}
        /\ error' \in {"none", "InvalidTransition", "other"}
    BY <1>1, <2>1, RouteTypes DEF Transition
  <2>3. UNCHANGED <<clockVars, held, jobVars, cancelVars, rows, backed, scanVars, lastScan,
                    restarts>>
    BY <1>1 DEF Transition
  <2> QED
    BY <2>2, <2>3 DEF clockVars, jobVars, cancelVars, scanVars
<1>2. CASE Begin \/ Name \/ Scan \/ Decide
  <2>1. CASE Begin
    BY <2>1, RouteTypes, Names DEF Begin, At, Reading, clockVars, loopVars, cancelVars, scanVars
  <2>2. CASE Name
    BY <2>2, RouteTypes, Names DEF Name, At, NextJobId, JobInv, JobId, Reading, clockVars,
      loopVars, cancelVars, scanVars
  <2>3. CASE Scan
    BY <2>3 DEF Scan, At, clockVars, machineVars, loopVars, cancelVars, scanVars
  <2>4. CASE Decide
    <3>1. route' \in Seq(BackupState) /\ worker' \in {"return", "create"}
      <4>1. CASE Blocked
        BY <2>4, <4>1, RouteTypes, Names DEF Decide
      <4>2. CASE ~Blocked
        <5> DEFINE ready == IF preflight = "WARNING" THEN "PREFLIGHT_WARNING"
                            ELSE "PREFLIGHT_READY"
        <5>1. ready \in BackupState
          BY Names
        <5>2. route' = <<ready, "BACKUP_QUEUED">> /\ worker' = "create"
          BY <2>4, <4>2 DEF Decide
        <5> HIDE DEF ready
        <5> QED
          BY <5>1, <5>2, RouteTypes, Names
      <4> QED
        BY <4>1, <4>2
    <3>2. UNCHANGED <<clockVars, state, loopVars, error, jobVars, cancelVars, rows, backed,
                      scanVars, lastScan, restarts>>
      BY <2>4 DEF Decide
    <3> QED
      BY <3>1, <3>2 DEF clockVars, loopVars, jobVars, cancelVars, scanVars
  <2> QED
    BY <1>2, <2>1, <2>2, <2>3, <2>4
<1>3. CASE CreateRow
  <2>1. /\ route' \in Seq(BackupState)
        /\ worker' \in {"none", "arm"} /\ error' \in {"none", "InvalidTransition", "other"}
        /\ UNCHANGED <<clockVars, state, loopVars, jobVars, cancelVars, backed, scanVars,
                       lastScan, restarts>>
    BY <1>3, RouteTypes, Names DEF CreateRow
  <2>2. rows' \in [Date -> Seq(ClosedRow \union {"BACKUP_COPYING"})]
    <3>1. [rows EXCEPT ![jobId[1]] = Append(@, "BACKUP_COPYING")]
              \in [Date -> Seq(ClosedRow \union {"BACKUP_COPYING"})]
      BY OneMore
    <3> QED
      BY <1>3, <3>1 DEF CreateRow
  <2> QED
    BY <2>1, <2>2 DEF clockVars, loopVars, jobVars, cancelVars, scanVars
<1>4. CASE ArmToken \/ CopyFile \/ EndJob
  <2>1. CASE ArmToken
    BY <2>1 DEF ArmToken, At, clockVars, machineVars, loopVars, scanVars
  <2>2. CASE CopyFile
    <3>1. at' \in 0..NumFiles /\ failed' \in Nat /\ backed' \subseteq File
      <4>1. at' = at + 1 /\ at < NumFiles /\ at \in 0..NumFiles
        BY <2>2 DEF CopyFile
      <4>2. at + 1 \in File
        BY <4>1 DEF File
      <4>3. failed' \in Nat /\ backed' \subseteq File
        BY <2>2, <4>2 DEF CopyFile
      <4> QED
        BY <4>1, <4>3
    <3>2. UNCHANGED <<clockVars, machineVars, loopVars, worker, error, now, jobId, preflight,
                      result, cancelVars, rows, scanVars, lastScan, restarts>>
      BY <2>2 DEF CopyFile
    <3> QED
      BY <3>1, <3>2 DEF clockVars, machineVars, loopVars, cancelVars, scanVars
  <2>3. CASE EndJob
    <3>1. JobOutcome \in Outcome
      BY DEF JobOutcome, Outcome
    <3>2. FinalState[JobOutcome] \in BackupState
      BY <3>1, Names DEF Outcome, FinalState
    <3>3. route' \in Seq(BackupState)
      BY <2>3, <3>2, RouteTypes, Names DEF EndJob
    <3>4. /\ token' = NoJob /\ result' = JobOutcome /\ worker' = "close"
          /\ UNCHANGED <<clockVars, state, loopVars, error, now, jobId, preflight, at, failed,
                         cancelled, rows, backed, scanVars, lastScan, restarts>>
      BY <2>3 DEF EndJob, DropToken
    <3> QED
      BY <3>1, <3>3, <3>4 DEF clockVars, loopVars, scanVars
  <2> QED
    BY <1>4, <2>1, <2>2, <2>3
<1>5. CASE CloseRow
  <2>1. HasRow(jobId) /\ jobId \in JobId
    BY <1>5 DEF CloseRow, At, JobInv, Open, HasRow
  <2>2. FinalState[result] \in ClosedRow
    BY DEF Outcome, FinalState, ClosedRow
  <2>3. rows' \in [Date -> Seq(ClosedRow \union {"BACKUP_COPYING"})]
    <3>1. jobId[1] \in Date /\ jobId[2] \in 1..Len(rows[jobId[1]])
      BY <2>1 DEF HasRow, JobId
    <3> QED
      BY <1>5, <2>2, <3>1 DEF CloseRow, FinishRow
  <2>4. route' \in Seq(BackupState)
    BY <1>5, RouteTypes, Names DEF CloseRow, AfterRow, Outcome
  <2>5. /\ worker' = "return" /\ lastScan' \subseteq File
        /\ UNCHANGED <<clockVars, state, loopVars, error, jobVars, cancelVars, backed,
                       scanVars, restarts>>
    BY <1>5 DEF CloseRow, SourceBar
  <2> QED
    BY <2>3, <2>4, <2>5 DEF clockVars, loopVars, jobVars, cancelVars, scanVars
<1>6. CASE Return \/ WorkerRaises
  <2>1. CASE Return
    BY <2>1 DEF Return, LocalsGone, Outcome, clockVars, machineVars, loopVars, cancelVars,
      scanVars
  <2>2. CASE WorkerRaises
    BY <2>2 DEF WorkerRaises, LocalsGone, Outcome, clockVars, machineVars, loopVars, scanVars
  <2> QED
    BY <1>6, <2>1, <2>2
<1>7. CASE HandlerStep \/ DatePasses
  <2>1. CASE StartBackup
    <3>1. route' \in Seq(BackupState)
      BY <2>1, RouteTypes, Names DEF StartBackup, Resting, ResetRoute
    <3>2. /\ loop' = "start"
          /\ UNCHANGED <<clockVars, state, held, worker, error, jobVars, cancelVars, rows,
                         backed, scanVars, lastScan, restarts>>
      BY <2>1 DEF StartBackup
    <3> QED
      BY <3>1, <3>2 DEF clockVars, jobVars, cancelVars, scanVars
  <2>2. CASE Submit
    BY <2>2 DEF Submit, clockVars, machineVars, jobVars, cancelVars, scanVars
  <2>3. CASE CancelReads
    BY <2>3 DEF CancelReads, clockVars, machineVars, jobVars, cancelVars, scanVars
  <2>4. CASE CancelSets
    <3>1. held \in JobId
      BY <2>4 DEF CancelSets, JobInv
    <3> QED
      BY <2>4, <3>1 DEF CancelSets, clockVars, machineVars, jobVars, scanVars
  <2>5. CASE SyncSetsClock \/ SyncMarksTrusted \/ SyncRaises
    <3>1. /\ date' \in Date /\ clock' \in ClockState /\ loop' \in {"free", "sync"}
          /\ UNCHANGED <<machineVars, held, worker, error, jobVars, cancelVars, rows, backed,
                         scanVars, lastScan, restarts>>
      BY <2>5 DEF SyncSetsClock, SyncMarksTrusted, SyncRaises, ClockState, clockVars
    <3> QED
      BY <3>1 DEF machineVars, jobVars, cancelVars, scanVars
  <2>6. CASE StartDryRun \/ DryRunScans \/ DryRunReports
    <3>1. dry \in Nat /\ NumFiles \in Nat /\ dry \in 0..NumFiles + 1 /\ backed \subseteq File
      BY CardIsFinite
    <3>2. /\ dry' \in 0..NumFiles + 1 /\ seen' \subseteq File /\ lastScan' \subseteq File
          /\ UNCHANGED <<clockVars, machineVars, loopVars, worker, error, jobVars, cancelVars,
                         rows, backed, restarts>>
      <4>1. CASE StartDryRun
        BY <3>1, <4>1 DEF StartDryRun
      <4>2. CASE DryRunScans
        <5>1. dry' = dry + 1 /\ dry \in 1..NumFiles
          BY <4>2 DEF DryRunScans, File
        <5>2. dry' \in 0..NumFiles + 1
          BY <3>1, <5>1
        <5> QED
          BY <3>1, <4>2, <5>2 DEF DryRunScans
      <4>3. CASE DryRunReports
        BY <3>1, <4>3 DEF DryRunReports
      <4> QED
        BY <2>6, <4>1, <4>2, <4>3
    <3> QED
      BY <3>2 DEF clockVars, machineVars, loopVars, jobVars, cancelVars
  <2>7. CASE DatePasses
    BY <2>7 DEF DatePasses, machineVars, loopVars, jobVars, cancelVars, scanVars
  <2> QED
    BY <1>7, <2>1, <2>2, <2>3, <2>4, <2>5, <2>6, <2>7 DEF HandlerStep
<1>8. CASE Restart
  <2>1. rows' \in [Date -> Seq(ClosedRow \union {"BACKUP_COPYING"})]
    <3>1. ASSUME NEW d \in Date
          PROVE  [n \in 1..Len(rows[d]) |-> Flagged(rows[d][n])]
                     \in Seq(ClosedRow \union {"BACKUP_COPYING"})
      BY DEF Flagged, ClosedRow
    <3> QED
      BY <1>8, <3>1 DEF Restart
  <2> QED
    BY <1>8, <2>1 DEF Restart, LocalsGone, Outcome, BackupState
<1>9. CASE UNCHANGED vars
  BY <1>9 DEF vars, clockVars, machineVars, loopVars, jobVars, cancelVars, scanVars
<1> QED
  BY <1>1, <1>2, <1>3, <1>4, <1>5, <1>6, <1>7, <1>8, <1>9 DEF Next, WorkerStep

\* A transition ahead is in the table, and leaves the end where it is.
LEMMA TransitionGoes ==
    ASSUME Inv, Transition
    PROVE  /\ Legal(state, route)' /\ Ahead' = Ahead /\ route # <<>>
           /\ UNCHANGED <<clockVars, loopVars, worker, error, jobVars, cancelVars, rows,
                          backed>>
<1>1. state \in BackupState /\ route \in Seq(BackupState) /\ route # <<>> /\ Legal(state, route)
  BY DEF Inv, TypeOK, TrackInv, Transition
<1>2. /\ CanTransition(state, Head(route)) /\ Legal(Head(route), Tail(route))
      /\ Destination(Head(route), Tail(route)) = Destination(state, route)
  BY <1>1, Hop
<1>3. state' = Head(route) /\ route' = Tail(route) /\ UNCHANGED <<loop, worker, error>>
  BY <1>2 DEF Transition
<1>4. UNCHANGED <<clockVars, held, jobVars, cancelVars, rows, backed>>
  BY DEF Transition
<1> QED
  BY <1>1, <1>2, <1>3, <1>4 DEF Ahead, loopVars

\* Where the transitions lead: each step of the worker sets out from where
\* the one before it arrived.
LEMMA StepTrack ==
    ASSUME Inv, [Next]_vars
    PROVE  TrackInv'
<1> USE DEF Inv, TrackInv
<1> DEFINE Same == UNCHANGED <<state, route, worker, loop, error, result>>
<1>0. ASSUME Same PROVE TrackInv'
  BY <1>0 DEF Ahead
<1>1. CASE Transition
  BY <1>1, TransitionGoes DEF loopVars, jobVars
<1>2. ASSUME NEW s, At(s)
      PROVE  route = <<>> /\ worker = s /\ Ahead = state /\ (loop # "start" \/ s = "none")
  BY <1>2, NoRoute DEF At, Ahead
<1>3. CASE Begin
  <2>1. state = "IDLE" /\ state' = state /\ loop # "start"
    BY <1>3, <1>2 DEF Begin, At
  <2>2. Legal(state, route)' /\ Ahead' = "PREFLIGHT_SCANNING"
    BY <1>3, <2>1, FourHops, Table DEF Begin, Ahead
  <2> QED
    BY <1>3, <2>1, <2>2 DEF Begin, loopVars
<1>4. CASE Name
  <2>1. state = "PREFLIGHT_SCANNING" /\ state' = state /\ loop # "start"
    BY <1>4, <1>2 DEF Name, At
  <2>2. Legal(state, route)' /\ Ahead' = "PREFLIGHT_CAPACITY_CHECK"
    BY <1>4, <2>1, ThreeHops, Table DEF Name, Ahead
  <2> QED
    BY <1>4, <2>1, <2>2 DEF Name, loopVars
<1>5. CASE Scan
  BY <1>5, <1>2 DEF Scan, At, machineVars, loopVars, Ahead
<1>6. CASE Decide
  <2>1. state = "PREFLIGHT_CAPACITY_CHECK" /\ state' = state /\ loop # "start"
    BY <1>6, <1>2 DEF Decide, At
  <2>2. CASE Blocked
    BY <1>6, <2>1, <2>2, OneHop, Table DEF Decide, Ahead, loopVars
  <2>3. CASE ~Blocked /\ preflight = "WARNING"
    <3>1. route' = <<"PREFLIGHT_WARNING", "BACKUP_QUEUED">> /\ worker' = "create"
      BY <1>6, <2>3 DEF Decide
    <3>2. Legal(state, route)' /\ Ahead' = "BACKUP_QUEUED"
      BY <2>1, <3>1, TwoHops, Table DEF Ahead
    <3> QED
      BY <1>6, <2>1, <3>1, <3>2 DEF Decide, loopVars
  <2>4. CASE ~Blocked /\ preflight # "WARNING"
    <3>1. route' = <<"PREFLIGHT_READY", "BACKUP_QUEUED">> /\ worker' = "create"
      BY <1>6, <2>4 DEF Decide
    <3>2. Legal(state, route)' /\ Ahead' = "BACKUP_QUEUED"
      BY <2>1, <3>1, TwoHops, Table DEF Ahead
    <3> QED
      BY <1>6, <2>1, <3>1, <3>2 DEF Decide, loopVars
  <2> QED
    BY <2>2, <2>3, <2>4
<1>7. CASE CreateRow
  <2>1. state = "BACKUP_QUEUED" /\ state' = state /\ loop # "start"
    BY <1>7, <1>2 DEF CreateRow, At
  <2>2. CASE HasRow(jobId)
    BY <1>7, <2>1, <2>2 DEF CreateRow, Ahead, loopVars, At
  <2>3. CASE ~HasRow(jobId)
    BY <1>7, <2>1, <2>3, OneHop, Table DEF CreateRow, Ahead, loopVars
  <2> QED
    BY <2>2, <2>3
<1>8. CASE ArmToken \/ CopyFile
  <2>1. CASE ArmToken
    BY <2>1, <1>2 DEF ArmToken, At, machineVars, loopVars, Ahead
  <2>2. CASE CopyFile
    BY <2>2, <1>0 DEF CopyFile, machineVars, loopVars
  <2> QED
    BY <1>8, <2>1, <2>2
<1>9. CASE EndJob
  <2>1. state = "BACKUP_COPYING" /\ state' = state /\ loop # "start"
    BY <1>9, <1>2 DEF EndJob, At
  <2>2. result' = JobOutcome /\ worker' = "close" /\ UNCHANGED <<loop, error>>
    BY <1>9 DEF EndJob, loopVars
  <2>3. CASE JobOutcome = "CANCELLED"
    <3>1. route' = <<>>
      BY <1>9, <2>3 DEF EndJob
    <3> QED
      BY <2>1, <2>2, <2>3, <3>1, NoRoute DEF Ahead
  <2>4. CASE JobOutcome # "CANCELLED"
    <3>1. route' = <<"BACKUP_VERIFYING", FinalState[JobOutcome]>>
      BY <1>9, <2>4 DEF EndJob
    <3>2. JobOutcome \in {"COMPLETED", "COMPLETED_WITH_WARNINGS", "FAILED"}
      BY <2>4 DEF JobOutcome
    <3>3. CanTransition("BACKUP_VERIFYING", FinalState[JobOutcome])
      BY <3>2, Table DEF FinalState
    <3>4. Legal(state, route)' /\ Ahead' = FinalState[JobOutcome]
      BY <2>1, <3>1, <3>3, TwoHops, Table DEF Ahead
    <3> QED
      BY <2>1, <2>2, <2>4, <3>4
  <2> QED
    BY <2>3, <2>4
<1>10. CASE CloseRow
  <2>1. /\ state' = state /\ loop # "start" /\ worker' = "return" /\ route' = AfterRow
        /\ UNCHANGED <<loop, error, result>>
    BY <1>10, <1>2 DEF CloseRow, At, loopVars, jobVars
  <2>2. state = IF result = "CANCELLED" THEN "BACKUP_COPYING" ELSE FinalState[result]
    BY <1>10, <1>2 DEF CloseRow, At
  <2>3. Legal(state, AfterRow)
    <3>1. CASE result = "CANCELLED"
      BY <2>2, <3>1, ThreeHops, Table DEF AfterRow
    <3>2. CASE result = "FAILED"
      BY <3>2, NoRoute DEF AfterRow
    <3>3. CASE result \in {"COMPLETED", "COMPLETED_WITH_WARNINGS"}
      BY <2>2, <3>3, OneHop, Table DEF AfterRow, FinalState
    <3> QED
      BY <3>1, <3>2, <3>3 DEF TypeOK, Outcome
  <2> QED
    BY <2>1, <2>3
<1>11. CASE Return
  BY <1>11, <1>2 DEF Return, At, machineVars, loopVars
<1>12. CASE WorkerRaises
  <2>1. route = <<>> /\ worker # "none" /\ loop # "start" /\ worker' = "none"
        /\ error' = "other" /\ UNCHANGED <<state, route, loop>>
    BY <1>12 DEF WorkerRaises, machineVars, loopVars
  <2> QED
    BY <2>1
<1>13. CASE StartBackup
  <2>1. /\ loop' = "start" /\ route' = ResetRoute[state] /\ worker = "none"
        /\ UNCHANGED <<state, worker, error>> /\ state \in Resting
    BY <1>13 DEF StartBackup, Running
  <2>2. Legal(state, ResetRoute[state]) /\ Destination(state, ResetRoute[state]) = "IDLE"
    <3>1. CASE state = "IDLE"
      BY <3>1, NoRoute DEF ResetRoute, Resting
    <3>2. CASE state \in {"SOURCE_SAFE_TO_REMOVE", "PREFLIGHT_BLOCKED"}
      BY <3>2, OneHop, Table DEF ResetRoute, Resting
    <3>3. CASE state \in {"BACKUP_FAILED", "BACKUP_CANCELLED"}
      BY <3>3, TwoHops, Table DEF ResetRoute, Resting
    <3> QED
      BY <2>1, <3>1, <3>2, <3>3 DEF Resting
  <2> QED
    BY <2>1, <2>2 DEF Ahead
<1>14. CASE Submit
  BY <1>14, NoRoute DEF Submit, machineVars, Ahead
<1>15. CASE CancelReads \/ CancelSets \/ SyncSetsClock \/ SyncMarksTrusted \/ SyncRaises
  BY <1>15 DEF CancelReads, CancelSets, SyncSetsClock, SyncMarksTrusted, SyncRaises,
    machineVars, jobVars, Ahead
<1>16. CASE StartDryRun \/ DryRunScans \/ DryRunReports \/ DatePasses \/ UNCHANGED vars
  BY <1>16, <1>0 DEF StartDryRun, DryRunScans, DryRunReports, DatePasses, vars, machineVars,
    loopVars, jobVars
<1>17. CASE Restart
  BY <1>17, NoRoute DEF Restart, Ahead
<1> QED
  BY <1>1, <1>3, <1>4, <1>5, <1>6, <1>7, <1>8, <1>9, <1>10, <1>11, <1>12, <1>13, <1>14,
    <1>15, <1>16, <1>17 DEF Next, WorkerStep, HandlerStep

-----------------------------------------------------------------------------
(* Rows.                                                                   *)

\* The open job's row exists, and it is the last of its day.
LEMMA OpenJob ==
    ASSUME Inv, worker \in Open
    PROVE  /\ jobId[1] \in Date /\ jobId[2] \in 1..Len(rows[jobId[1]])
           /\ jobId = <<jobId[1], jobId[2]>> /\ jobId \in JobId
           /\ jobId[2] = Len(rows[jobId[1]])
           /\ rows[jobId[1]][jobId[2]] = "BACKUP_COPYING"
<1>1. jobId \in JobId /\ rows \in [Date -> Seq(ClosedRow \union {"BACKUP_COPYING"})]
      /\ jobId[2] \in DOMAIN rows[jobId[1]] /\ jobId[2] = Len(rows[jobId[1]])
      /\ rows[jobId[1]][jobId[2]] = "BACKUP_COPYING"
  BY DEF Inv, TypeOK, JobInv, HasRow, Row
<1>2. jobId[1] \in Date /\ jobId = <<jobId[1], jobId[2]>>
  BY <1>1 DEF JobId
<1>3. DOMAIN rows[jobId[1]] = 1..Len(rows[jobId[1]])
  BY <1>1, <1>2
<1> QED
  BY <1>1, <1>2, <1>3

\* A new row stands at the end of its day.
LEMMA RowCreated ==
    ASSUME Inv, CreateRow
    PROVE  /\ jobId \in JobId /\ jobId[1] \in Date /\ ~HasRow(jobId)
           /\ jobId[2] = Len(rows[jobId[1]]) + 1
           /\ rows' = [rows EXCEPT ![jobId[1]] = Append(@, "BACKUP_COPYING")]
           /\ \A d \in Date : \A n \in DOMAIN rows[d] :
                n \in DOMAIN rows'[d] /\ rows'[d][n] = rows[d][n]
           /\ \A d \in Date : \A n \in DOMAIN rows'[d] :
                n \in DOMAIN rows[d] \/ rows'[d][n] = "BACKUP_COPYING"
           /\ HasRow(jobId)' /\ jobId[2] = Len(rows'[jobId[1]])
           /\ Row(jobId)' = "BACKUP_COPYING" /\ worker' = "arm" /\ error' = error
<1>1. now \in Reading /\ jobId = <<now[1], Len(rows[now[1]]) + 1>>
      /\ rows \in [Date -> Seq(ClosedRow \union {"BACKUP_COPYING"})]
  BY DEF Inv, TypeOK, JobInv, Named, CreateRow, At
<1>2. now[1] \in Date /\ rows[now[1]] \in Seq(ClosedRow \union {"BACKUP_COPYING"})
  BY <1>1 DEF Reading
<1>3. /\ jobId[1] \in Date /\ jobId[2] = Len(rows[jobId[1]]) + 1 /\ jobId[2] \in Nat
      /\ jobId \in JobId
  BY <1>1, <1>2 DEF JobId
<1>4. DOMAIN rows[jobId[1]] = 1..Len(rows[jobId[1]]) /\ jobId[2] \notin DOMAIN rows[jobId[1]]
  BY <1>1, <1>2, <1>3
<1>5. ~HasRow(jobId)
  BY <1>4 DEF HasRow
<1>6. rows' = [rows EXCEPT ![jobId[1]] = Append(@, "BACKUP_COPYING")] /\ jobId' = jobId
      /\ worker' = "arm" /\ error' = error
  BY <1>5 DEF CreateRow, jobVars
<1>7. /\ rows'[jobId[1]] = Append(rows[jobId[1]], "BACKUP_COPYING")
      /\ \A d \in Date : d # jobId[1] => rows'[d] = rows[d]
  BY <1>1, <1>3, <1>6
<1>8. /\ DOMAIN rows'[jobId[1]] = 1..jobId[2] /\ Len(rows'[jobId[1]]) = jobId[2]
      /\ rows'[jobId[1]][jobId[2]] = "BACKUP_COPYING"
      /\ \A n \in DOMAIN rows[jobId[1]] : rows'[jobId[1]][n] = rows[jobId[1]][n]
  BY <1>1, <1>2, <1>3, <1>4, <1>7
<1>9. HasRow(jobId)' /\ Row(jobId)' = "BACKUP_COPYING"
  BY <1>3, <1>6, <1>8 DEF HasRow, Row
<1>10. \A d \in Date : \A n \in DOMAIN rows[d] :
           n \in DOMAIN rows'[d] /\ rows'[d][n] = rows[d][n]
  BY <1>3, <1>4, <1>7, <1>8
<1>11. \A d \in Date : \A n \in DOMAIN rows'[d] :
           n \in DOMAIN rows[d] \/ rows'[d][n] = "BACKUP_COPYING"
  BY <1>3, <1>4, <1>7, <1>8
<1> QED
  BY <1>3, <1>5, <1>6, <1>8, <1>9, <1>10, <1>11

\* Closing a row changes that row alone.
LEMMA RowClosed ==
    ASSUME Inv, CloseRow
    PROVE  /\ \A d \in Date : DOMAIN rows'[d] = DOMAIN rows[d]
           /\ \A d \in Date : \A n \in DOMAIN rows[d] :
                rows'[d][n] = IF <<d, n>> = jobId THEN FinalState[result] ELSE rows[d][n]
           /\ HasRow(jobId)' /\ Row(jobId)' = FinalState[result] /\ jobId' = jobId
<1>1. /\ jobId[1] \in Date /\ jobId[2] \in 1..Len(rows[jobId[1]])
      /\ jobId = <<jobId[1], jobId[2]>> /\ jobId \in JobId
  BY OpenJob DEF CloseRow, At, Open
<1>2. rows' = [rows EXCEPT ![jobId[1]][jobId[2]] = FinalState[result]] /\ jobId' = jobId
  BY DEF CloseRow, FinishRow, jobVars
<1>3. rows \in [Date -> Seq(ClosedRow \union {"BACKUP_COPYING"})]
  BY DEF Inv, TypeOK
<1>4. \A d \in Date : DOMAIN rows'[d] = DOMAIN rows[d]
  BY <1>1, <1>2, <1>3
<1>5. ASSUME NEW d \in Date, NEW n \in DOMAIN rows[d]
      PROVE  rows'[d][n] = IF <<d, n>> = jobId THEN FinalState[result] ELSE rows[d][n]
  <2>1. CASE d = jobId[1] /\ n = jobId[2]
    BY <1>1, <1>2, <1>3, <2>1
  <2>2. CASE ~(d = jobId[1] /\ n = jobId[2])
    <3>1. <<d, n>> # jobId
      BY <1>1, <2>2
    <3> QED
      BY <1>1, <1>2, <1>3, <2>2, <3>1
  <2> QED
    BY <2>1, <2>2
<1>6. jobId[2] \in DOMAIN rows[jobId[1]]
  BY <1>1, <1>3
<1> QED
  BY <1>1, <1>2, <1>4, <1>5, <1>6 DEF HasRow, Row

\* Recovery keeps every row, and every closed row as it is.
LEMMA RowsFlagged ==
    ASSUME Inv, Restart
    PROVE  \A d \in Date : /\ DOMAIN rows'[d] = DOMAIN rows[d]
                           /\ \A n \in DOMAIN rows[d] : rows'[d][n] = Flagged(rows[d][n])
<1>1. rows \in [Date -> Seq(ClosedRow \union {"BACKUP_COPYING"})]
  BY DEF Inv, TypeOK
<1>2. rows' = [d \in Date |-> [n \in 1..Len(rows[d]) |-> Flagged(rows[d][n])]]
  BY DEF Restart
<1>3. \A d \in Date : DOMAIN rows[d] = 1..Len(rows[d])
  BY <1>1
<1> QED
  BY <1>2, <1>3

\* No other step touches a row.
LEMMA RowFrame ==
    ASSUME [Next]_vars
    PROVE  CreateRow \/ CloseRow \/ Restart \/ rows' = rows
BY DEF Next, WorkerStep, HandlerStep, Transition, Begin, Name, Scan, Decide, ArmToken, CopyFile,
  EndJob, Return, WorkerRaises, StartBackup, Submit, CancelReads, CancelSets, SyncSetsClock,
  SyncMarksTrusted, SyncRaises, StartDryRun, DryRunScans, DryRunReports, DatePasses, vars

\* The identifier of a job is fixed while it is under way, and its row is
\* open from its creation to its end.
LEMMA StepJob ==
    ASSUME Inv, [Next]_vars
    PROVE  JobInv'
<1> USE DEF Inv, JobInv
<1> DEFINE Same == UNCHANGED <<worker, now, jobId, rows, token>>
<1>0. ASSUME Same, loop' = "cancel" => held' \in JobId, clock' = clock \/ Trusted(clock')
      PROVE JobInv'
  BY <1>0 DEF HasRow, Row
<1>1. CASE Transition
  BY <1>1, <1>0, TransitionGoes DEF clockVars, loopVars, jobVars, cancelVars
<1>2. CASE Begin
  <2>1. now' \in Reading /\ worker' = "name" /\ token' = token /\ token = NoJob
        /\ UNCHANGED <<loop, held>>
    BY <1>2 DEF Begin, At, cancelVars, loopVars, TypeOK, Reading
  <2> QED
    BY <2>1 DEF Named, Open
<1>3. CASE Name
  BY <1>3 DEF Name, At, NextJobId, cancelVars, loopVars, Named, Open
<1>4. CASE Scan
  BY <1>4 DEF Scan, At, cancelVars, loopVars, Named, Open
<1>5. CASE Decide
  <2>1. Blocked \/ (RequireTrustedClock => Trusted(clock))
    BY DEF Blocked
  <2>2. /\ worker' = IF Blocked THEN "return" ELSE "create"
        /\ UNCHANGED <<clock, loop, held, now, jobId, rows, token>>
    BY <1>5 DEF Decide, cancelVars, loopVars, jobVars, clockVars
  <2> QED
    BY <1>5, <2>1, <2>2 DEF Decide, At, Named, Open
<1>6. CASE CreateRow
  <2>1. UNCHANGED <<clock, loop, held, token, jobId>> /\ worker = "create"
    BY <1>6 DEF CreateRow, At, clockVars, loopVars, cancelVars, jobVars
  <2> QED
    BY <1>6, <2>1, RowCreated DEF Named, Open
<1>7. CASE ArmToken
  <2>1. /\ worker = "arm" /\ worker' = "copy" /\ token' = jobId
        /\ UNCHANGED <<clock, loop, held, now, jobId, rows>>
    BY <1>7 DEF ArmToken, At, clockVars, loopVars
  <2> QED
    BY <2>1 DEF Named, Open, HasRow, Row
<1>8. CASE CopyFile
  BY <1>8, <1>0 DEF CopyFile, clockVars, loopVars, cancelVars
<1>9. CASE EndJob
  <2>1. /\ worker = "copy" /\ worker' = "close" /\ token' = NoJob
        /\ UNCHANGED <<clock, loop, held, now, jobId, rows>>
    BY <1>9 DEF EndJob, At, DropToken, clockVars, loopVars
  <2> QED
    BY <2>1 DEF Named, Open, HasRow, Row
<1>10. CASE CloseRow \/ Return
  <2>1. worker \in {"close", "return"} /\ worker' \in {"return", "none"}
        /\ UNCHANGED <<loop, held, token>>
    BY <1>10 DEF CloseRow, Return, At, loopVars, cancelVars
  <2> QED
    BY <2>1 DEF Named, Open
<1>11. CASE WorkerRaises
  BY <1>11 DEF WorkerRaises, loopVars, Named, Open
<1>12. CASE StartBackup
  BY <1>12, <1>0 DEF StartBackup, clockVars, jobVars, cancelVars
<1>13. CASE Submit
  <2>1. /\ worker = "none" /\ worker' = "begin" /\ token' = token /\ loop' = "free"
        /\ token = NoJob
    BY <1>13 DEF Submit, cancelVars, TrackInv
  <2> QED
    BY <2>1 DEF Named, Open
<1>14. CASE CancelReads
  <2>1. held' \in JobId
    BY <1>14 DEF CancelReads, TypeOK
  <2> QED
    BY <1>14, <1>0, <2>1 DEF CancelReads, clockVars, jobVars, cancelVars
<1>15. CASE CancelSets
  BY <1>15, <1>0 DEF CancelSets, clockVars, jobVars
<1>16. CASE SyncSetsClock \/ SyncMarksTrusted \/ SyncRaises
  BY <1>16, <1>0 DEF SyncSetsClock, SyncMarksTrusted, SyncRaises, clockVars, jobVars, cancelVars,
    Trusted
<1>17. CASE StartDryRun \/ DryRunScans \/ DryRunReports \/ DatePasses \/ UNCHANGED vars
  BY <1>17, <1>0 DEF StartDryRun, DryRunScans, DryRunReports, DatePasses, vars, clockVars,
    loopVars, jobVars, cancelVars
<1>18. CASE Restart
  BY <1>18 DEF Restart, Named, Open
<1> QED
  BY <1>1, <1>2, <1>3, <1>4, <1>5, <1>6, <1>7, <1>8, <1>9, <1>10, <1>11, <1>12, <1>13, <1>14,
    <1>15, <1>16, <1>17, <1>18 DEF Next, WorkerStep, HandlerStep

-----------------------------------------------------------------------------
(* What is shown, and what was done.                                       *)

\* A job comes to rest in the state its row says.
LEMMA StepRest ==
    ASSUME Inv, [Next]_vars
    PROVE  RestInv'
<1> USE DEF Inv, RestInv
<1>0. ASSUME Ahead' = Ahead, UNCHANGED <<worker, error, jobId, rows>>,
             loop' = "start" <=> loop = "start"
      PROVE  RestInv'
  BY <1>0 DEF HasRow, Row
<1>1. CASE Transition
  BY <1>1, <1>0, TransitionGoes DEF loopVars, jobVars
<1>2. CASE Begin \/ Name \/ Scan \/ CreateRow \/ ArmToken \/ CopyFile \/ EndJob
  <2>1. CASE CreateRow
    BY <2>1, RowCreated
  <2>2. CASE ~CreateRow
    <3>1. worker' \in {"name", "scan", "decide", "copy", "close"}
      BY <1>2, <2>2 DEF Begin, Name, Scan, ArmToken, CopyFile, EndJob, At
    <3> QED
      BY <3>1
  <2> QED
    BY <2>1, <2>2
<1>3. CASE Decide
  <2>1. CASE Blocked
    <3>1. route' = <<"PREFLIGHT_BLOCKED">>
      BY <1>3, <2>1 DEF Decide
    <3>2. Ahead' = "PREFLIGHT_BLOCKED"
      BY <3>1 DEF Ahead, Destination
    <3> QED
      BY <3>2
  <2>2. CASE ~Blocked
    BY <1>3, <2>2 DEF Decide
  <2> QED
    BY <2>1, <2>2
<1>4. CASE CloseRow
  <2>1. /\ worker = "close" /\ state' = state /\ route' = AfterRow
        /\ state = IF result = "CANCELLED" THEN "BACKUP_COPYING" ELSE FinalState[result]
    BY <1>4, NoRoute DEF CloseRow, At, TrackInv, Ahead
  <2>2. HasRow(jobId)' /\ Row(jobId)' = FinalState[result]
    BY <1>4, RowClosed
  <2>3. result \in Outcome
    BY DEF TypeOK
  <2>4. CASE result = "FAILED"
    <3>1. route' = <<>> /\ state' = "BACKUP_FAILED"
      BY <2>1, <2>4 DEF AfterRow, FinalState
    <3>2. Ahead' = "BACKUP_FAILED"
      BY <3>1, NoRoute DEF Ahead
    <3> QED
      BY <2>2, <2>4, <3>2 DEF FinalState
  <2>5. CASE result # "FAILED"
    <3>1. Ahead' = "SOURCE_SAFE_TO_REMOVE"
      BY <2>1, <2>3, <2>5 DEF AfterRow, Ahead, Destination, Outcome
    <3>2. FinalState[result] \in Completed \union {"BACKUP_CANCELLED"}
      BY <2>3, <2>5 DEF FinalState, Outcome, Completed
    <3> QED
      BY <2>2, <3>1, <3>2
  <2> QED
    BY <2>4, <2>5
<1>5. CASE Return
  <2>1. worker = "return" /\ Ahead' = Ahead /\ UNCHANGED <<jobId, rows>>
    BY <1>5 DEF Return, At, machineVars, Ahead
  <2> QED
    BY <2>1 DEF HasRow, Row
<1>6. CASE WorkerRaises \/ StartBackup \/ Submit
  <2>1. worker' # "return" /\ (worker' # "none" \/ loop' = "start" \/ error' # "none")
    BY <1>6 DEF WorkerRaises, StartBackup, Submit, Running
  <2> QED
    BY <2>1
<1>7. CASE CancelReads \/ CancelSets \/ SyncSetsClock \/ SyncMarksTrusted \/ SyncRaises
  BY <1>7, <1>0 DEF CancelReads, CancelSets, SyncSetsClock, SyncMarksTrusted, SyncRaises,
    machineVars, jobVars, Ahead
<1>8. CASE StartDryRun \/ DryRunScans \/ DryRunReports \/ DatePasses \/ UNCHANGED vars
  BY <1>8, <1>0 DEF StartDryRun, DryRunScans, DryRunReports, DatePasses, vars, machineVars,
    loopVars, jobVars, Ahead
<1>9. CASE Restart
  BY <1>9, NoRoute DEF Restart, Ahead
<1> QED
  BY <1>1, <1>2, <1>3, <1>4, <1>5, <1>6, <1>7, <1>8, <1>9 DEF Next, WorkerStep, HandlerStep

\* What the manifest has of the card only grows, and so does the record of
\* cancellations.
LEMMA Monotone ==
    ASSUME [Next]_vars
    PROVE  backed \subseteq backed' /\ cancelled \subseteq cancelled'
BY DEF Next, WorkerStep, HandlerStep, Transition, Begin, Name, Scan, Decide, CreateRow,
  ArmToken, CopyFile, EndJob, CloseRow, Return, WorkerRaises, StartBackup, Submit, CancelReads,
  CancelSets, SyncSetsClock, SyncMarksTrusted, SyncRaises, StartDryRun, DryRunScans,
  DryRunReports, DatePasses, Restart, vars, cancelVars

\* A row says that it is complete, or cancelled, only when its job said so.
LEMMA StepHistory ==
    ASSUME Inv, [Next]_vars
    PROVE  (CancelledOnlyOnRequest /\ CompletedBacksUpCard)'
<1> SUFFICES ASSUME NEW d \in Date, NEW n \in DOMAIN rows'[d]
             PROVE  /\ rows'[d][n] = "BACKUP_CANCELLED" => <<d, n>> \in cancelled'
                    /\ rows'[d][n] \in Completed => backed' = File
  BY DEF CancelledOnlyOnRequest, CompletedBacksUpCard, Completed
<1>1. backed \subseteq backed' /\ cancelled \subseteq cancelled' /\ backed' \subseteq File
  BY Monotone, StepType DEF TypeOK
<1>2. ASSUME n \in DOMAIN rows[d], rows'[d][n] = rows[d][n]
      PROVE  /\ rows'[d][n] = "BACKUP_CANCELLED" => <<d, n>> \in cancelled'
             /\ rows'[d][n] \in Completed => backed' = File
  BY <1>1, <1>2 DEF Inv, DoneInv, CancelledOnlyOnRequest, CompletedBacksUpCard, Completed
<1>3. CASE rows' = rows
  BY <1>2, <1>3
<1>4. CASE CreateRow
  <2>1. (n \in DOMAIN rows[d] /\ rows'[d][n] = rows[d][n]) \/ rows'[d][n] = "BACKUP_COPYING"
    BY <1>4, RowCreated
  <2> QED
    BY <1>2, <2>1 DEF Completed
<1>5. CASE CloseRow
  <2>1. /\ n \in DOMAIN rows[d]
        /\ rows'[d][n] = IF <<d, n>> = jobId THEN FinalState[result] ELSE rows[d][n]
    BY <1>5, RowClosed
  <2>2. worker = "close" /\ result \in Outcome
    BY <1>5 DEF CloseRow, At, Inv, TypeOK
  <2>3. CASE <<d, n>> = jobId
    <3>1. result = "CANCELLED" => jobId \in cancelled
      BY <2>2 DEF Inv, DoneInv
    <3>2. result \in {"COMPLETED", "COMPLETED_WITH_WARNINGS"} => backed = File
      BY <2>2 DEF Inv, DoneInv
    <3>3. rows'[d][n] = FinalState[result]
      BY <2>1, <2>3
    <3>4. /\ FinalState[result] = "BACKUP_CANCELLED" => result = "CANCELLED"
          /\ FinalState[result] \in Completed =>
                result \in {"COMPLETED", "COMPLETED_WITH_WARNINGS"}
      BY <2>2 DEF FinalState, Outcome, Completed
    <3> QED
      BY <1>1, <2>3, <3>1, <3>2, <3>3, <3>4
  <2>4. CASE <<d, n>> # jobId
    BY <1>2, <2>1, <2>4
  <2> QED
    BY <2>3, <2>4
<1>6. CASE Restart
  <2>1. n \in DOMAIN rows[d] /\ rows'[d][n] = Flagged(rows[d][n])
    BY <1>6, RowsFlagged
  <2>2. rows'[d][n] = rows[d][n] \/ rows'[d][n] = "RECOVERY_REQUIRED"
    BY <2>1 DEF Flagged
  <2> QED
    BY <1>2, <2>1, <2>2 DEF Completed
<1> QED
  BY RowFrame, <1>3, <1>4, <1>5, <1>6

\* A dry run finds, and the source bar shows, what the manifest has.
LEMMA StepBar ==
    ASSUME Inv, [Next]_vars
    PROVE  seen' \subseteq backed' /\ SourceBarIsBacked'
<1> USE DEF Inv, DoneInv, SourceBarIsBacked
<1>1. backed \subseteq backed'
  BY Monotone
<1>2. CASE Scan \/ DryRunScans \/ DryRunReports \/ Restart
  BY <1>1, <1>2 DEF Scan, DryRunScans, DryRunReports, Restart, scanVars
<1>3. CASE CloseRow
  <2>1. worker = "close" /\ result \in Outcome /\ lastScan' = SourceBar /\ seen' = seen
    BY <1>3 DEF CloseRow, At, TypeOK, scanVars
  <2>2. SourceBar = lastScan \/ backed = File
    BY <2>1 DEF SourceBar, Outcome
  <2> QED
    BY <1>1, <2>1, <2>2 DEF SourceBar
<1>4. CASE ~(Scan \/ DryRunScans \/ DryRunReports \/ Restart \/ CloseRow)
  <2>1. seen' = seen /\ lastScan' = lastScan
    BY <1>4 DEF Next, WorkerStep, HandlerStep, Transition, Begin, Name, Decide, CreateRow,
      ArmToken, CopyFile, EndJob, Return, WorkerRaises, StartBackup, Submit, CancelReads,
      CancelSets, SyncSetsClock, SyncMarksTrusted, SyncRaises, StartDryRun, DatePasses, vars,
      scanVars
  <2> QED
    BY <1>1, <2>1
<1> QED
  BY <1>2, <1>3, <1>4

\* A job without a failure has every file it went through in the manifest.
LEMMA StepDone ==
    ASSUME Inv, [Next]_vars
    PROVE  DoneInv'
<1> USE CardIsFinite DEF Inv, DoneInv
<1>1. (CancelledOnlyOnRequest /\ CompletedBacksUpCard /\ SourceBarIsBacked)'
      /\ seen' \subseteq backed'
  BY StepHistory, StepBar
<1>2. backed \subseteq backed' /\ cancelled \subseteq cancelled' /\ backed' \subseteq File
  BY Monotone, StepType DEF TypeOK
<1>3. ASSUME UNCHANGED <<worker, at, failed, result, jobId>>
      PROVE  DoneInv'
  BY <1>1, <1>2, <1>3
<1>4. ASSUME worker' \notin {"copy", "close"}
      PROVE  DoneInv'
  BY <1>1, <1>4
<1>5. CASE Transition
  BY <1>3, <1>5, TransitionGoes DEF jobVars
<1>6. CASE Begin \/ Name \/ Scan \/ Decide \/ CloseRow \/ Return \/ WorkerRaises \/ Submit
           \/ Restart
  <2>1. worker' \notin {"copy", "close"}
    BY <1>6 DEF Begin, Name, Scan, Decide, CloseRow, Return, WorkerRaises, Submit, Restart
  <2> QED
    BY <1>4, <2>1
<1>7. CASE CreateRow
  BY <1>4, <1>7, RowCreated
<1>8. CASE ArmToken
  <2>1. at' = 0 /\ worker' = "copy"
    BY <1>8 DEF ArmToken
  <2>2. 1..at' = {}
    BY <2>1
  <2> QED
    BY <1>1, <2>1, <2>2
<1>9. CASE CopyFile
  <2>1. /\ worker = "copy" /\ worker' = "copy" /\ at \in Nat /\ at' = at + 1 /\ failed \in Nat
        /\ (failed' = failed /\ backed' = backed \union {at + 1}) \/ failed' = failed + 1
    BY <1>9 DEF CopyFile, At, TypeOK
  <2>2. ASSUME failed' = 0 PROVE 1..at' \subseteq backed'
    <3>1. failed = 0 /\ backed' = backed \union {at + 1}
      BY <2>1, <2>2
    <3>2. 1..at' = (1..at) \union {at + 1}
      BY <2>1
    <3> QED
      BY <2>1, <3>1, <3>2
  <2> QED
    BY <1>1, <2>1, <2>2
<1>10. CASE EndJob
  <2>1. /\ worker = "copy" /\ worker' = "close" /\ result' = JobOutcome /\ jobId' = jobId
        /\ at = NumFiles \/ jobId \in cancelled
        /\ at \in 0..NumFiles /\ failed \in Nat /\ backed \subseteq File
    BY <1>10 DEF EndJob, At, TypeOK
  <2>2. ASSUME JobOutcome \in {"COMPLETED", "COMPLETED_WITH_WARNINGS"} PROVE backed' = File
    <3>1. at = NumFiles /\ failed = 0
      BY <2>1, <2>2 DEF JobOutcome
    <3>2. File \subseteq backed
      BY <2>1, <3>1 DEF File
    <3> QED
      BY <1>2, <3>2
  <2>3. ASSUME JobOutcome = "CANCELLED" PROVE jobId' \in cancelled'
    <3>1. at < NumFiles
      BY <2>3 DEF JobOutcome
    <3> QED
      BY <1>2, <2>1, <3>1
  <2> QED
    BY <1>1, <2>1, <2>2, <2>3
<1>11. CASE HandlerStep \/ DatePasses \/ UNCHANGED vars
  <2>1. CASE Submit
    BY <1>6, <2>1
  <2>2. CASE ~Submit
    BY <1>3, <1>11, <2>2 DEF HandlerStep, StartBackup, CancelReads, CancelSets, SyncSetsClock,
      SyncMarksTrusted, SyncRaises, StartDryRun, DryRunScans, DryRunReports, DatePasses, vars,
      jobVars
  <2> QED
    BY <2>1, <2>2
<1> QED
  BY <1>5, <1>6, <1>7, <1>8, <1>9, <1>10, <1>11 DEF Next, WorkerStep

\* The inductive invariant holds for any number of days, files, jobs and
\* restarts, whatever raises.
THEOREM ServiceInvariant == Spec => []Inv
<1>1. Inv /\ [Next]_vars => Inv'
  BY StepType, StepTrack, StepRest, StepJob, StepDone DEF Inv
<1> QED
  BY InitInv, <1>1, PTL DEF Spec

-----------------------------------------------------------------------------
(* The properties.                                                         *)

\* Every variable keeps its type.
THEOREM ServiceTypes == Spec => []TypeOK
<1>1. Inv => TypeOK
  BY DEF Inv
<1> QED
  BY <1>1, ServiceInvariant, PTL

\* The three tables of the engine agree with the state machine: no path of
\* run_backup and no reset asks for a transition it does not have.
THEOREM TablesAgree == Spec => []NoIllegalTransition
<1>1. Inv => NoIllegalTransition
  BY DEF Inv, TrackInv, NoIllegalTransition
<1> QED
  BY <1>1, ServiceInvariant, PTL

\* Between two jobs, where none of them raised, the state is one the machine
\* rests in, and a row records a job that failed or gave its card back.
LEMMA Between ==
    ASSUME Inv, worker = "none", loop # "start", error = "none"
    PROVE  /\ state \in Resting
           /\ state = "BACKUP_FAILED" => HasRow(jobId) /\ Row(jobId) = "BACKUP_FAILED"
           /\ state = "SOURCE_SAFE_TO_REMOVE" =>
                HasRow(jobId) /\ Row(jobId) \in Completed \union {"BACKUP_CANCELLED"}
<1>1. Ahead = state
  BY NoRoute DEF Inv, TrackInv, Ahead
<1> QED
  BY <1>1 DEF Inv, RestInv, Resting

\* However a job ends, unless it raises, the machine comes to rest in a state
\* from which the next one can start.
THEOREM JobsComeToRest == Spec => []RestsUnlessRaised
<1>1. ASSUME Inv PROVE RestsUnlessRaised
  BY <1>1, Between DEF RestsUnlessRaised
<1> QED
  BY <1>1, ServiceInvariant, PTL

\* What the machine shows at rest is what history shows.
THEOREM RestIsRecorded == Spec => []RestingStateIsRecorded
<1>1. ASSUME Inv PROVE RestingStateIsRecorded
  BY <1>1, Between DEF RestingStateIsRecorded, Completed
<1> QED
  BY <1>1, ServiceInvariant, PTL

\* Cancellation reaches the running job and no other: the token is the
\* running job's.
THEOREM CancellationIsExact == Spec => []TokenIsRunningJobs
<1>1. ASSUME Inv PROVE TokenIsRunningJobs
  BY <1>1 DEF Inv, JobInv, DoneInv, Open, TokenIsRunningJobs
<1> QED
  BY <1>1, ServiceInvariant, PTL

\* No row says that its job was cancelled unless somebody asked for it.
THEOREM CancelledOnRequest == Spec => []CancelledOnlyOnRequest
<1>1. ASSUME Inv PROVE CancelledOnlyOnRequest
  BY <1>1 DEF Inv, JobInv, DoneInv, Open
<1> QED
  BY <1>1, ServiceInvariant, PTL

\* What the source bar claims is in the manifest.
THEOREM BarIsTruthful == Spec => []SourceBarIsBacked
<1>1. Inv => SourceBarIsBacked
  BY DEF Inv, DoneInv
<1> QED
  BY <1>1, ServiceInvariant, PTL

\* The whole card of a completed job is in the manifest.
THEOREM CompletedJobs == Spec => []CompletedBacksUpCard
<1>1. ASSUME Inv PROVE CompletedBacksUpCard
  BY <1>1 DEF Inv, JobInv, DoneInv, Open
<1> QED
  BY <1>1, ServiceInvariant, PTL

\* A job runs under a new identifier, and on a trusted clock where one is
\* required.
THEOREM JobsAreNewAndTrusted == Spec => []JobIsNewAndTrusted
<1>1. ASSUME Inv PROVE JobIsNewAndTrusted
  BY <1>1 DEF Inv, JobInv, DoneInv, Open, JobIsNewAndTrusted
<1> QED
  BY <1>1, ServiceInvariant, PTL

\* A closed row is never changed, and no row is taken away.
THEOREM HistoryKept == Spec => HistoryIsFinal
<1> DEFINE Kept == \A d \in Date : \A n \in DOMAIN rows[d] :
                       /\ n \in DOMAIN rows'[d]
                       /\ rows[d][n] \in ClosedRow => rows'[d][n] = rows[d][n]
<1>1. ASSUME Inv, [Next]_vars PROVE Kept
  <2>1. CASE rows' = rows
    BY <2>1
  <2>2. CASE CreateRow
    BY <1>1, <2>2, RowCreated
  <2>3. CASE CloseRow
    <3>1. ASSUME NEW d \in Date, NEW n \in DOMAIN rows[d], <<d, n>> = jobId
          PROVE  rows[d][n] = "BACKUP_COPYING"
      BY <1>1, <2>3, <3>1, OpenJob DEF CloseRow, At, Open
    <3> QED
      BY <1>1, <2>3, <3>1, RowClosed DEF ClosedRow
  <2>4. CASE Restart
    BY <1>1, <2>4, RowsFlagged DEF Flagged, ClosedRow
  <2> QED
    BY <1>1, <2>1, <2>2, <2>3, <2>4, RowFrame
<1>2. Inv /\ [Next]_vars => [Kept]_vars
  BY <1>1
<1> QED
  BY <1>2, ServiceInvariant, PTL DEF Spec, HistoryIsFinal
=============================================================================
