---------------------- MODULE ScheduleSupervisor_proofs ----------------------
(***************************************************************************)
(* Proofs about ScheduleSupervisor, for any targets, requests, chunk size, *)
(* fire times and number of faults.  IInv is inductive: the table and the  *)
(* handlers agree (KeyInv), what a request asks is what the file pursues   *)
(* or has been done (AskInv), what it reports is in the table (OutInv),    *)
(* and a pass works on the file it has read (PassInv).                     *)
(***************************************************************************)
EXTENDS ScheduleSupervisor, TLAPS

Begun == {"running", "uncertain", "failed"}

(* A row and its handler: nothing runs for a settled row, a handler that   *)
(* is under way has not completed before, and a completed one is on record *)
(* as succeeded, or still to be settled.                                   *)
KeyIsSound(k) ==
  /\ done[k] \in {0, 1}
  /\ hands[k] # "none" => rows[k] \in {"running", "uncertain"}
  /\ hands[k] \in {"live", "orphan", "bad"} => done[k] = 0
  /\ hands[k] = "ok" => done[k] = 1
  /\ rows[k] \in {"new", "failed"} => done[k] = 0
  /\ rows[k] = "succeeded" => done[k] = 1
KeyInv == \A k \in Keys : KeyIsSound(k)

IsDone(t, b) == b \in Boundaries /\ rows[<<t, b>>] = "succeeded"

(* What a request asks of a target is the boundary the file pursues, or    *)
(* one that is done.                                                       *)
AskInv ==
  \A c \in Calls, t \in Targets :
    calls[c].ask[t].mode # "no" =>
      /\ calls[c].ask[t].boundary # 0
      /\ \/ lost \/ file[t].pending = calls[c].ask[t].boundary
         \/ IsDone(t, calls[c].ask[t].boundary)

(* A request reports as done what is done, and runs what it has asked.     *)
OutInv ==
  \A c \in Calls, t \in Targets :
    /\ IsProof(calls[c].out[t]) => /\ calls[c].ask[t].mode # "no"
                                   /\ IsDone(t, calls[c].ask[t].boundary)
    /\ t \in calls[c].mine => calls[c].ask[t].mode # "no"

(* The file is valid, and its last success is in the table.                *)
FileInv ==
  \A t \in Targets :
    /\ IsValid(file[t])
    /\ file[t].succ # 0 => IsDone(t, file[t].succ)
    /\ ~lost => \A b \in Boundaries : rows[<<t, b>>] \in Begun => file[t].pending = b

(* A pass has read the file, awaits one request about what it has read,    *)
(* and knows only of what that file pursues.                               *)
PassInv ==
  /\ pass.pc = "await" <=> pass.call # NoCall
  /\ \A t \in Targets :
       /\ IsValid(pass.before[t])
       /\ pass.pc = "write" =>
            /\ pass.before[t].succ = file[t].succ
            /\ file[t].pending # 0 => pass.before[t].pending = file[t].pending
       /\ pass.pc \in {"dispatch", "await"} => pass.before[t] = file[t]
       /\ t \in pass.todo => pass.before[t].pending # 0
       /\ pass.got[t] # "none" => pass.before[t].pending # 0
       /\ IsProof(pass.got[t]) => IsDone(t, pass.before[t].pending)
       /\ pass.call # NoCall /\ calls[pass.call].ask[t].mode # "no" =>
            pass.before[t].pending = calls[pass.call].ask[t].boundary

IInv == TypeOK /\ KeyInv /\ AskInv /\ OutInv /\ FileInv /\ PassInv

-----------------------------------------------------------------------------
(* The initial state and the types *)

(* Fire times are the numbers up to MaxBoundary but 0, which is null.      *)
LEMMA BoundaryNumbers ==
  /\ 1 \in Boundaries /\ 0 \notin Boundaries
  /\ \A b \in Boundaries : b \in 0..MaxBoundary /\ b \in Nat /\ b # 0
  /\ \A b \in 0..MaxBoundary : b # 0 => b \in Boundaries
BY SupervisorAssumption DEF Boundaries

(* The records that stand for nothing have their types.                    *)
LEMMA EmptyTypes ==
  /\ emptyTargetState \in TargetState /\ NoOutcome \in [Targets -> Outcome]
  /\ IdleCall \in Call /\ NoPass \in Pass
<1>1. emptyTargetState \in TargetState
  BY SupervisorAssumption DEF emptyTargetState, TargetState
<1>2. NoOutcome \in [Targets -> Outcome]
  BY DEF NoOutcome, Outcome
<1>3. NoAsk \in Ask
  BY SupervisorAssumption DEF NoAsk, Ask
<1>4. IdleCall \in Call
  BY <1>2, <1>3 DEF IdleCall, Call
<1>5. NoPass \in Pass
  BY <1>1, <1>2 DEF NoPass, Pass
<1> QED
  BY <1>1, <1>2, <1>4, <1>5

(* The empty file is valid.                                                *)
LEMMA EmptyIsValid == IsValid(emptyTargetState)
BY DEF IsValid, emptyTargetState

(* The initial state satisfies the inductive invariant.                    *)
LEMMA InitHolds == Init => IInv
<1> SUFFICES ASSUME Init PROVE IInv
  OBVIOUS
<1>1. TypeOK
  <2>1. due \in [Targets -> Boundaries]
    BY BoundaryNumbers DEF Init
  <2>4. file \in [Targets -> TargetState]
    <3>1. file = [t \in Targets |-> emptyTargetState] /\ emptyTargetState \in TargetState
      BY EmptyTypes DEF Init
    <3> QED
      BY <3>1
  <2>2. pass \in Pass /\ calls \in [Calls -> Call]
    BY EmptyTypes DEF Init
  <2>3. rows \in [Keys -> Status] /\ hands \in [Keys -> Hand] /\ done \in [Keys -> Nat]
    BY DEF Init, Status, Hand
  <2>5. /\ waiting \subseteq Targets /\ manifest \in Nat /\ active \in Nat
        /\ faults \in 0..MaxFaults /\ failures \in 0..MaxFailures
    BY SupervisorAssumption DEF Init
  <2>6. lost \in BOOLEAN
    BY DEF Init
  <2> QED
    BY <2>1, <2>2, <2>3, <2>4, <2>5, <2>6 DEF TypeOK
<1>2. KeyInv
  BY DEF Init, KeyInv, KeyIsSound
<1>3. AskInv /\ OutInv
  BY DEF Init, AskInv, OutInv, IdleCall, NoAsk, NoOutcome, IsProof
<1>4. FileInv
  BY EmptyIsValid DEF Init, FileInv, emptyTargetState, Begun, Keys
<1>5. PassInv
  BY EmptyIsValid DEF Init, PassInv, NoPass, NoOutcome, emptyTargetState, IsProof
<1> QED
  BY <1>1, <1>2, <1>3, <1>4, <1>5 DEF IInv

(* A target's cursor stays a cursor when it is brought up to date.         *)
LEMMA ReconciledType ==
  ASSUME NEW s \in TargetState, NEW d \in Boundaries
  PROVE  Reconciled(s, d) \in TargetState
BY BoundaryNumbers DEF TargetState, Reconciled, Observed

(* ... and when an outcome is entered.                                     *)
LEMMA AfterType ==
  ASSUME NEW s \in TargetState, NEW o \in Outcome
  PROVE  After(s, o) \in TargetState
<1>1. s.mode \in {"execute", "reconcile"}
  BY DEF TargetState
<1>2. Kept(s, o).mode \in {"execute", "reconcile"} /\ Kept(s, o) \in TargetState
  <2>1. (CASE IsAmbiguous(o) -> "reconcile" [] o = "stale" -> s.mode [] OTHER -> "execute")
          \in {"execute", "reconcile"}
    <3>1. CASE IsAmbiguous(o)
      BY <3>1 DEF IsAmbiguous
    <3>2. CASE ~IsAmbiguous(o)
      BY <1>1, <3>2
    <3> QED
      BY <3>1, <3>2
  <2> QED
    BY <2>1 DEF Kept, TargetState
<1> QED
  <2>1. CASE o = "none" \/ ~IsProof(o)
    BY <1>2, <2>1 DEF After
  <2>2. CASE o # "none" /\ IsProof(o)
    <3> DEFINE next == IF s.seen > s.pending THEN s.seen ELSE 0
    <3>1. next \in 0..MaxBoundary
      BY SupervisorAssumption DEF TargetState
    <3>2. After(s, o) = [s EXCEPT !.succ = s.pending, !.pending = next,
                                  !.tried = FALSE, !.mode = "execute"]
      BY <2>2 DEF After
    <3> HIDE DEF next
    <3> QED
      BY <3>1, <3>2 DEF TargetState
  <2> QED
    BY <2>1, <2>2

(* What a request asks is about keys of the table.                         *)
LEMMA AskedKeys ==
  ASSUME TypeOK, AskInv, NEW c \in Calls, NEW t \in Targets, calls[c].ask[t].mode # "no"
  PROVE  KeyOf(c, t) \in Keys
<1>1. calls[c].ask[t].boundary \in 0..MaxBoundary /\ calls[c].ask[t].boundary # 0
  BY DEF TypeOK, Call, Ask, AskInv
<1> QED
  BY <1>1, BoundaryNumbers DEF KeyOf, Keys

(* A row that can be reported is reported as an outcome.                   *)
LEMMA ReportType ==
  ASSUME NEW s \in Status, s # "new" PROVE Report(s) \in Outcome
BY DEF Status, Report, Outcome

(* The claims of a request leave a table of statuses.                      *)
LEMMA ClaimsType ==
  ASSUME TypeOK, NEW c \in Calls PROVE WithClaims(c) \in [Keys -> Status]
BY DEF TypeOK, WithClaims, Status

(* Settling leaves a table of statuses, and handlers.                      *)
LEMMA SettledType ==
  ASSUME TypeOK, NEW K, Settled(K)
  PROVE  rows' \in [Keys -> Status] /\ hands' \in [Keys -> Hand]
BY DEF TypeOK, Settled, SettledRows, Status, Hand

(* A fault is counted within the bound.                                    *)
LEMMA FaultType == ASSUME TypeOK, Fault PROVE faults' \in 0..MaxFaults
BY SupervisorAssumption DEF TypeOK, Fault

(* Every step keeps the types: the supervisor's.                           *)
LEMMA TypeSupervisor ==
  ASSUME IInv,
         \/ BeginPass \/ WriteBefore \/ Dispatch \/ SkipAborted \/ Stop \/ Commit
         \/ (\E stop \in BOOLEAN : GiveUp(stop)) \/ EndPass \/ LoseFile
         \/ \E c \in Calls : Receive(c)
  PROVE  TypeOK'
<1> USE EmptyTypes DEF clock, disk, server
<1>0. TypeOK
  BY DEF IInv
<1>1. CASE BeginPass
  <2> DEFINE before == [t \in Targets |-> Reconciled(file[t], due[t])]
  <2>1. before \in [Targets -> TargetState]
    BY <1>0, ReconciledType DEF TypeOK
  <2> HIDE DEF before
  <2>2. pass' \in Pass
    BY <1>0, <1>1, <2>1 DEF BeginPass, TypeOK, Pass, before
  <2> QED
    BY <1>0, <1>1, <2>2 DEF BeginPass, TypeOK
<1>2. CASE WriteBefore
  <2>1. file' \in [Targets -> TargetState] /\ pass' \in Pass
    BY <1>0, <1>2 DEF WriteBefore, TypeOK, Pass
  <2> QED
    BY <1>0, <1>2, <2>1 DEF WriteBefore, TypeOK
<1>3. CASE Dispatch
  <2> PICK S \in SUBSET pass.todo, c \in Calls :
        /\ calls' = [calls EXCEPT ![c] =
             [IdleCall EXCEPT !.pc = "sent", !.gen = pass.gen,
                !.ask = [t \in Targets |-> IF t \notin S THEN NoAsk ELSE
                           [boundary |-> pass.before[t].pending, mode |-> pass.before[t].mode]]]]
        /\ pass' = [pass EXCEPT !.pc = "await", !.todo = @ \ S, !.call = c]
    BY <1>3 DEF Dispatch
  <2> DEFINE ask == [t \in Targets |-> IF t \notin S THEN NoAsk ELSE
                       [boundary |-> pass.before[t].pending, mode |-> pass.before[t].mode]]
             call == [IdleCall EXCEPT !.pc = "sent", !.gen = pass.gen, !.ask = ask]
  <2>1. pass \in Pass
    BY <1>0 DEF TypeOK
  <2>2. ask \in [Targets -> Ask]
    BY <2>1, SupervisorAssumption DEF Pass, TargetState, Ask, NoAsk
  <2>3. calls' = [calls EXCEPT ![c] = call]
    OBVIOUS
  <2> HIDE DEF ask
  <2>4. call \in Call
    BY <2>1, <2>2 DEF Call, IdleCall, Pass
  <2> HIDE DEF call
  <2>5. calls' \in [Calls -> Call]
    BY <1>0, <2>3, <2>4 DEF TypeOK
  <2>6. pass' \in Pass
    BY <2>1 DEF Pass
  <2> QED
    BY <1>0, <1>3, <2>5, <2>6 DEF Dispatch, TypeOK
<1>4. CASE SkipAborted
  <2>1. pass' \in Pass
    BY <1>0, <1>4 DEF SkipAborted, TypeOK, Pass, Outcome
  <2> QED
    BY <1>0, <1>4, <2>1 DEF SkipAborted, TypeOK
<1>5. CASE Stop
  <2>1. pass' \in Pass
    BY <1>0, <1>5 DEF Stop, TypeOK, Pass
  <2> QED
    BY <1>0, <1>5, <2>1, FaultType DEF Stop, TypeOK
<1>6. CASE Commit
  <2>1. \A t \in Targets : After(pass.before[t], pass.got[t]) \in TargetState
    BY <1>0, AfterType DEF TypeOK, Pass
  <2> QED
    BY <1>0, <1>6, <2>1 DEF Commit, TypeOK
<1>7. ASSUME NEW stop \in BOOLEAN, GiveUp(stop) PROVE TypeOK'
  <2>1. pass' \in Pass
    BY <1>0, <1>7 DEF GiveUp, TypeOK, Pass, Outcome
  <2>2. calls' \in [Calls -> Call]
    BY <1>0, <1>7 DEF GiveUp, TypeOK
  <2> QED
    BY <1>0, <1>7, <2>1, <2>2, FaultType DEF GiveUp, TypeOK
<1>8. CASE EndPass
  BY <1>0, <1>8, FaultType DEF EndPass, TypeOK
<1>9. CASE LoseFile
  BY <1>0, <1>9, FaultType DEF LoseFile, TypeOK
<1>10. ASSUME NEW c \in Calls, Receive(c) PROVE TypeOK'
  <2>1. calls[c] \in Call
    BY <1>0, <1>10 DEF TypeOK
  <2>2. pass' \in Pass
    BY <1>0, <1>10, <2>1 DEF Receive, TypeOK, Pass, Call
  <2> QED
    BY <1>0, <1>10, <2>2 DEF Receive, TypeOK
<1> QED
  BY <1>1, <1>2, <1>3, <1>4, <1>5, <1>6, <1>7, <1>8, <1>9, <1>10

(* ... the runtime's. *)
LEMMA TypeRuntime ==
  ASSUME IInv, NEW c \in Calls,
         Inspect(c) \/ Claim(c) \/ Reply(c) \/ StoreFails(c)
  PROVE  TypeOK'
<1> USE DEF clock, disk, server
<1>0. TypeOK /\ AskInv /\ OutInv
  BY DEF IInv
<1>1. calls[c] \in Call /\ calls[c].ask \in [Targets -> Ask]
      /\ calls[c].out \in [Targets -> Outcome] /\ calls[c].mine \subseteq Targets
  BY <1>0 DEF TypeOK, Call
<1>2. ASSUME NEW out \in [Targets -> Outcome] PROVE Told(c, out) \in [Calls -> Call]
  BY <1>0, <1>1 DEF TypeOK, Told, Call
<1>3. ASSUME NEW o \in Outcome PROVE Refusal(c, o) \in [Targets -> Outcome]
  BY <1>3 DEF Refusal, Outcome
<1>4. CASE Inspect(c)
  <2>1. Told(c, Refusal(c, "stale")) \in [Calls -> Call]
        /\ Told(c, Refusal(c, "ambiguous")) \in [Calls -> Call]
    BY <1>2, <1>3 DEF Outcome
  <2> DEFINE out == [t \in Targets |-> IF t \in AskedFor(c, "reconcile")
                                       THEN Report(rows[KeyOf(c, t)]) ELSE "none"]
  <2>2. ASSUME ~\E t \in AskedFor(c, "reconcile") : rows[KeyOf(c, t)] = "new"
        PROVE  [calls EXCEPT ![c].pc = "claim", ![c].out = out] \in [Calls -> Call]
    <3>1. ASSUME NEW t \in AskedFor(c, "reconcile") PROVE Report(rows[KeyOf(c, t)]) \in Outcome
      <4>1. t \in Targets /\ calls[c].ask[t].mode # "no"
        BY DEF AskedFor
      <4>2. rows[KeyOf(c, t)] \in Status
        BY <1>0, <4>1, AskedKeys DEF TypeOK
      <4> QED
        BY <2>2, <4>2, ReportType
    <3>2. out \in [Targets -> Outcome]
      BY <3>1 DEF Outcome
    <3> HIDE DEF out
    <3> QED
      BY <1>0, <1>1, <3>2 DEF TypeOK, Call
  <2>3. calls' \in [Calls -> Call]
    BY <1>4, <2>1, <2>2 DEF Inspect
  <2> QED
    BY <1>0, <1>4, <2>3 DEF Inspect, TypeOK
<1>5. CASE Claim(c)
  <2> DEFINE out == [t \in Targets |-> IF t \in AskedFor(c, "execute") \ Claimed(c)
                                       THEN Report(rows[KeyOf(c, t)]) ELSE calls[c].out[t]]
  <2>1. ASSUME NEW t \in AskedFor(c, "execute") \ Claimed(c)
        PROVE  Report(rows[KeyOf(c, t)]) \in Outcome
    <3>1. t \in Targets /\ calls[c].ask[t].mode # "no"
      BY DEF AskedFor
    <3>2. rows[KeyOf(c, t)] \in Status
      BY <1>0, <3>1, AskedKeys DEF TypeOK
    <3>3. rows[KeyOf(c, t)] # "new"
      BY DEF Claimed, IsClaimable
    <3> QED
      BY <3>2, <3>3, ReportType
  <2>2. out \in [Targets -> Outcome]
    BY <1>1, <2>1
  <2>3. calls' = [calls EXCEPT ![c].pc = "run", ![c].mine = Claimed(c), ![c].out = out]
    BY <1>0, <1>5 DEF Claim, TypeOK, Call
  <2>4. Claimed(c) \subseteq Targets
    BY DEF Claimed, AskedFor
  <2> HIDE DEF out
  <2>5. calls' \in [Calls -> Call]
    BY <1>0, <1>1, <2>2, <2>3, <2>4 DEF TypeOK, Call
  <2>6. rows' \in [Keys -> Status]
    BY <1>0, <1>5, ClaimsType DEF Claim
  <2>7. hands' \in [Keys -> Hand]
    BY <1>0, <1>5 DEF Claim, TypeOK, Hand
  <2> QED
    BY <1>0, <1>5, <2>5, <2>6, <2>7 DEF Claim, TypeOK
<1>6. CASE Reply(c)
  <2> DEFINE out == [t \in Targets |->
                 IF t \notin calls[c].mine THEN calls[c].out[t]
                 ELSE CASE hands[KeyOf(c, t)] = "ok"  -> "succeeded"
                        [] hands[KeyOf(c, t)] = "bad" -> "failed"
                        [] OTHER                      -> "timed_out"]
  <2>1. out \in [Targets -> Outcome]
    BY <1>1 DEF Outcome
  <2>2. calls' = Told(c, out)
    BY <1>6 DEF Reply
  <2> HIDE DEF out
  <2>3. calls' \in [Calls -> Call]
    BY <1>2, <2>1, <2>2
  <2>4. rows' \in [Keys -> Status] /\ hands' \in [Keys -> Hand]
    BY <1>0, <1>6, SettledType DEF Reply
  <2> QED
    BY <1>0, <1>6, <2>3, <2>4 DEF Reply, TypeOK
<1>7. CASE StoreFails(c)
  <2>1. calls' \in [Calls -> Call]
    BY <1>2, <1>3, <1>7 DEF StoreFails, Outcome
  <2>2. rows' \in [Keys -> Status] /\ hands' \in [Keys -> Hand]
    <3>1. CASE rows' \in {rows, WithClaims(c)} /\ UNCHANGED hands
      BY <1>0, <3>1, ClaimsType DEF TypeOK
    <3>2. CASE /\ rows' \in {rows, SettledRows({k \in MineOf(c) : Ended(k)})}
               /\ hands' = [k \in Keys |-> IF k \notin MineOf(c) THEN hands[k]
                                         ELSE IF hands[k] = "live" THEN "orphan" ELSE "none"]
      BY <1>0, <3>2 DEF TypeOK, SettledRows, Status, Hand
    <3> QED
      BY <1>7, <3>1, <3>2 DEF StoreFails
  <2> QED
    BY <1>0, <1>7, <2>1, <2>2, FaultType DEF StoreFails, TypeOK
<1> QED
  BY <1>4, <1>5, <1>6, <1>7

(* ... and what happens to both. *)
LEMMA TypeWorld ==
  ASSUME IInv,
         \/ Deploy \/ Restart
         \/ \E t \in Targets : FallDue(t) \/ SetClockBack(t) \/ RetryIsDue(t)
         \/ \E k \in Keys : \/ \E ok \in BOOLEAN : HandlerEnds(k, ok)
                            \/ SettleLate(k) \/ Lapse(k)
  PROVE  TypeOK'
<1> USE DEF clock, disk, server
<1>0. TypeOK
  BY DEF IInv
<1>1. CASE Deploy
  BY <1>0, <1>1, FaultType DEF Deploy, TypeOK
<1>2. CASE Restart
  <2>1. pass' \in Pass
    BY <1>0, <1>2 DEF Restart, TypeOK, Pass, Outcome
  <2>2. calls' \in [Calls -> Call] /\ hands' \in [Keys -> Hand]
    BY <1>2, EmptyTypes DEF Restart, Hand
  <2> QED
    BY <1>0, <1>2, <2>1, <2>2, FaultType DEF Restart, TypeOK
<1>3. ASSUME NEW t \in Targets, FallDue(t) \/ SetClockBack(t) PROVE TypeOK'
  <2>1. due[t] \in Boundaries
    BY <1>0 DEF TypeOK
  <2>2. due' \in [Targets -> Boundaries]
    BY <1>0, <1>3, <2>1, SupervisorAssumption DEF FallDue, SetClockBack, TypeOK, Boundaries
  <2> QED
    BY <1>0, <1>3, <2>2, FaultType DEF FallDue, SetClockBack, TypeOK
<1>4. ASSUME NEW t \in Targets, RetryIsDue(t) PROVE TypeOK'
  BY <1>0, <1>4 DEF RetryIsDue, TypeOK
<1>5. ASSUME NEW k \in Keys, NEW ok \in BOOLEAN, HandlerEnds(k, ok) PROVE TypeOK'
  <2>1. hands' \in [Keys -> Hand] /\ done' \in [Keys -> Nat]
    BY <1>0, <1>5 DEF HandlerEnds, TypeOK, Hand
  <2>2. failures' \in 0..MaxFailures
    BY <1>0, <1>5, SupervisorAssumption DEF HandlerEnds, TypeOK
  <2> QED
    BY <1>0, <1>5, <2>1, <2>2 DEF HandlerEnds, TypeOK
<1>6. ASSUME NEW k \in Keys, SettleLate(k) PROVE TypeOK'
  <2>1. rows' \in [Keys -> Status] /\ hands' \in [Keys -> Hand]
    BY <1>0, <1>6, SettledType DEF SettleLate
  <2> QED
    BY <1>0, <1>6, <2>1 DEF SettleLate, TypeOK
<1>7. ASSUME NEW k \in Keys, Lapse(k) PROVE TypeOK'
  <2>1. rows' \in [Keys -> Status]
    BY <1>0, <1>7 DEF Lapse, TypeOK, Status
  <2> QED
    BY <1>0, <1>7, <2>1, FaultType DEF Lapse, TypeOK
<1> QED
  BY <1>1, <1>2, <1>3, <1>4, <1>5, <1>6, <1>7

(* Every step keeps the types.                                             *)
LEMMA TypeStep == IInv /\ [Next]_vars => TypeOK'
<1>1. ASSUME IInv, UNCHANGED vars PROVE TypeOK'
  BY <1>1 DEF IInv, TypeOK, vars
<1> QED
  BY <1>1, TypeSupervisor, TypeRuntime, TypeWorld DEF Next

-----------------------------------------------------------------------------
(* What a step may do to a key *)

AskedNow(k) == \E c \in Calls : calls[c].ask[k[1]].mode # "no" /\ calls[c].ask[k[1]].boundary = k[2]

Rests(k) ==
  /\ rows'[k] = rows[k] /\ done'[k] = done[k]
  /\ \/ hands'[k] \in {hands[k], "none"}
     \/ hands[k] = "live" /\ hands'[k] \in {"orphan", "bad"}
Begins(k) ==
  /\ rows[k] \in {"new", "failed"} /\ AskedNow(k)
  /\ rows'[k] = "running" /\ done'[k] = done[k] /\ hands'[k] \in {"live", hands[k]}
Completes(k) ==
  /\ hands[k] \in {"live", "orphan"} /\ rows'[k] = rows[k] /\ done'[k] = done[k] + 1
  /\ hands'[k] \in {"ok", "none"}
Concludes(k) ==
  /\ Ended(k) /\ done'[k] = done[k] /\ hands'[k] = "none"
  /\ rows'[k] = IF hands[k] = "ok" THEN "succeeded" ELSE "failed"
Lapses(k) ==
  /\ rows[k] = "running" /\ rows'[k] = "uncertain"
  /\ done'[k] = done[k] /\ hands'[k] = hands[k]
Moves(k) == Rests(k) \/ Begins(k) \/ Completes(k) \/ Concludes(k) \/ Lapses(k)

(* A key that a request claims begins, on that request; others rest.       *)
LEMMA ClaimMoves ==
  ASSUME IInv, NEW c \in Calls, NEW k \in Keys, done' = done,
         rows' = WithClaims(c), hands'[k] \in {"live", hands[k]},
         (~\E t \in Claimed(c) : k = KeyOf(c, t)) => hands'[k] = hands[k]
  PROVE  Moves(k)
<1>1. CASE \E t \in Claimed(c) : k = KeyOf(c, t)
  <2> PICK t \in Claimed(c) : k = KeyOf(c, t)
    BY <1>1
  <2>1. t \in Targets /\ calls[c].ask[t].mode = "execute" /\ IsClaimable(rows[k])
    BY DEF Claimed, AskedFor
  <2>2. k[1] = t /\ k[2] = calls[c].ask[t].boundary
    BY DEF KeyOf
  <2>3. AskedNow(k)
    BY <2>1, <2>2 DEF AskedNow
  <2>4. rows'[k] = "running"
    BY <1>1 DEF WithClaims
  <2> QED
    BY <2>1, <2>3, <2>4 DEF Moves, Begins, IsClaimable
<1>2. CASE ~\E t \in Claimed(c) : k = KeyOf(c, t)
  BY <1>2 DEF WithClaims, Moves, Rests
<1> QED
  BY <1>1, <1>2

(* Settling concludes keys whose handler has ended; others rest.           *)
LEMMA SettledMoves ==
  ASSUME NEW K, \A x \in K : Ended(x), Settled(K), done' = done, NEW k \in Keys
  PROVE  Moves(k)
BY DEF Settled, SettledRows, Moves, Concludes, Rests

(* A step does nothing to a key but give up its handler, or it claims it on*)
(* request, ends its handler, settles it, or ends its lease.               *)
LEMMA KeyMoves == ASSUME IInv, [Next]_vars, NEW k \in Keys PROVE Moves(k)
<1> USE DEF clock, disk, server
<1>0. TypeOK
  BY DEF IInv
<1>1. CASE UNCHANGED <<rows, hands, done>>
  BY <1>1 DEF Moves, Rests
<1>2. ASSUME NEW c \in Calls, Claim(c) PROVE Moves(k)
  <2>1. hands'[k] \in {"live", hands[k]}
        /\ ((~\E t \in Claimed(c) : k = KeyOf(c, t)) => hands'[k] = hands[k])
    BY <1>2 DEF Claim
  <2>2. rows' = WithClaims(c) /\ done' = done
    BY <1>2 DEF Claim
  <2> QED
    BY <2>1, <2>2, ClaimMoves
<1>3. ASSUME NEW c \in Calls, Reply(c) PROVE Moves(k)
  BY <1>3, SettledMoves DEF Reply
<1>4. ASSUME NEW c \in Calls, StoreFails(c) PROVE Moves(k)
  <2>1. CASE rows' = rows /\ hands' = hands
    BY <1>4, <2>1 DEF StoreFails, Moves, Rests
  <2>2. CASE rows' = WithClaims(c) /\ hands' = hands
    BY <1>4, <2>2, ClaimMoves DEF StoreFails
  <2> DEFINE left == [x \in Keys |-> IF x \notin MineOf(c) THEN hands[x]
                                     ELSE IF hands[x] = "live" THEN "orphan" ELSE "none"]
  <2>3. CASE rows' = SettledRows({x \in MineOf(c) : Ended(x)}) /\ hands' = left
    <3>1. CASE k \in MineOf(c) /\ Ended(k)
      BY <1>4, <2>3, <3>1 DEF StoreFails, SettledRows, Ended, Moves, Concludes, Rests
    <3>2. CASE ~(k \in MineOf(c) /\ Ended(k))
      BY <1>4, <2>3, <3>2 DEF StoreFails, SettledRows, Moves, Rests
    <3> QED
      BY <3>1, <3>2
  <2>4. CASE UNCHANGED rows /\ hands' = left
    BY <1>4, <2>4 DEF StoreFails, Moves, Rests
  <2> QED
    BY <1>4, <2>1, <2>2, <2>3, <2>4 DEF StoreFails
<1>5. ASSUME NEW x \in Keys, NEW ok \in BOOLEAN, HandlerEnds(x, ok) PROVE Moves(k)
  <2>1. CASE x # k
    BY <1>0, <1>5, <2>1 DEF HandlerEnds, TypeOK, Moves, Rests
  <2>2. CASE x = k /\ ok
    BY <1>0, <1>5, <2>2 DEF HandlerEnds, TypeOK, Moves, Completes
  <2>3. CASE x = k /\ ~ok
    BY <1>0, <1>5, <2>3 DEF HandlerEnds, TypeOK, Moves, Rests
  <2> QED
    BY <2>1, <2>2, <2>3
<1>6. ASSUME NEW x \in Keys, SettleLate(x) PROVE Moves(k)
  BY <1>6, SettledMoves DEF SettleLate
<1>7. ASSUME NEW x \in Keys, Lapse(x) PROVE Moves(k)
  BY <1>0, <1>7 DEF Lapse, TypeOK, Moves, Rests, Lapses
<1>8. CASE Restart
  BY <1>8 DEF Restart, Moves, Rests
<1> QED
  BY <1>1, <1>2, <1>3, <1>4, <1>5, <1>6, <1>7, <1>8
  DEF Next, vars, BeginPass, WriteBefore, Dispatch, SkipAborted, Stop, Commit, GiveUp,
      EndPass, LoseFile, Deploy, FallDue, SetClockBack, RetryIsDue, Receive, Inspect

(* The key keeps its part of the invariant.                                *)
LEMMA KeyStep == IInv /\ [Next]_vars => KeyInv'
<1> SUFFICES ASSUME IInv, [Next]_vars, NEW k \in Keys
             PROVE  KeyIsSound(k)'
  BY DEF KeyInv
<1>1. TypeOK /\ KeyInv /\ Moves(k)
  BY KeyMoves DEF IInv
<1>2. rows[k] \in Status /\ hands[k] \in Hand /\ done[k] \in Nat
  BY <1>1 DEF TypeOK
<1>3. KeyIsSound(k)
  BY <1>1 DEF KeyInv
<1> QED
  BY <1>1, <1>2, <1>3
  DEF Moves, Rests, Begins, Completes, Concludes, Lapses, Ended, Status, Hand, KeyIsSound

StaysDone(t, b) == b \in Boundaries /\ rows'[<<t, b>>] = "succeeded"

(* What is done stays done.                                                *)
LEMMA DoneStays ==
  ASSUME IInv, [Next]_vars, NEW t \in Targets, NEW b, IsDone(t, b)
  PROVE  StaysDone(t, b)
<1>1. <<t, b>> \in Keys /\ rows[<<t, b>>] = "succeeded"
  BY DEF IsDone, Keys
<1>2. Moves(<<t, b>>) /\ KeyIsSound(<<t, b>>)
  BY <1>1, KeyMoves DEF IInv, KeyInv
<1>3. rows'[<<t, b>>] = "succeeded"
  BY <1>1, <1>2
  DEF Moves, Rests, Begins, Completes, Concludes, Lapses, Ended, KeyIsSound
<1> QED
  BY <1>3 DEF IsDone, StaysDone

-----------------------------------------------------------------------------
(* What a step may do to a target's cursor *)

FileMoves(t) ==
  \/ file'[t] = file[t] /\ lost' = lost
  \/ pass.pc = "idle" /\ file'[t] = emptyTargetState /\ lost'
  \/ pass.pc = "write" /\ file'[t] = pass.before[t] /\ lost' = lost
  \/ /\ pass.pc = "dispatch" /\ pass'.pc = "idle" /\ lost' = lost
     /\ file'[t] = After(pass.before[t], pass.got[t])

(* A target's cursor becomes what it was, or empty with the file lost, or  *)
(* what the pass has read, or that with the outcome entered.               *)
LEMMA CursorMoves == ASSUME IInv, [Next]_vars, NEW t \in Targets PROVE FileMoves(t)
<1> USE DEF clock, disk, server
<1>1. CASE UNCHANGED <<file, lost>>
  BY <1>1 DEF FileMoves
<1>2. CASE WriteBefore
  BY <1>2 DEF WriteBefore, FileMoves
<1>3. CASE Commit
  BY <1>3 DEF Commit, FileMoves, NoPass
<1>4. CASE LoseFile
  BY <1>4 DEF LoseFile, FileMoves
<1> QED
  BY <1>1, <1>2, <1>3, <1>4
  DEF Next, vars, BeginPass, Dispatch, SkipAborted, Stop, GiveUp, EndPass, Deploy, Restart,
      FallDue, SetClockBack, RetryIsDue, Receive, Inspect, Claim, Reply, StoreFails,
      HandlerEnds, SettleLate, Lapse

(* The boundary a target pursues is pursued on, unless it is done or the   *)
(* file is lost.                                                           *)
LEMMA Pursued ==
  ASSUME IInv, [Next]_vars, NEW t \in Targets, file[t].pending # 0
  PROVE  lost' \/ file'[t].pending = file[t].pending \/ StaysDone(t, file[t].pending)
<1>1. FileMoves(t) /\ PassInv /\ TypeOK
  BY CursorMoves DEF IInv
<1>2. CASE pass.pc = "dispatch" /\ file'[t] = After(pass.before[t], pass.got[t])
  <2>1. pass.before[t] = file[t] /\ file[t] \in TargetState
    BY <1>1, <1>2 DEF PassInv, TypeOK
  <2>2. CASE IsProof(pass.got[t])
    <3>1. IsDone(t, file[t].pending)
      BY <1>1, <2>1, <2>2 DEF PassInv
    <3> QED
      BY <3>1, DoneStays
  <2>3. CASE ~IsProof(pass.got[t])
    BY <1>2, <2>1, <2>3 DEF After, Kept, TargetState
  <2> QED
    BY <2>2, <2>3
<1> QED
  BY <1>1, <1>2 DEF FileMoves, PassInv

(* A cursor's state with an outcome entered is valid.                      *)
LEMMA AfterIsValid ==
  ASSUME NEW s \in TargetState, NEW o \in Outcome, IsValid(s), o # "none" => s.pending # 0
  PROVE  /\ IsValid(After(s, o))
         /\ After(s, o).succ = (IF IsProof(o) THEN s.pending ELSE s.succ)
<1>1. CASE o = "none"
  BY <1>1 DEF After, IsProof
<1>2. CASE o # "none" /\ IsProof(o)
  BY <1>2, SupervisorAssumption DEF After, IsValid, TargetState
<1>3. CASE o # "none" /\ ~IsProof(o)
  BY <1>3 DEF After, Kept, IsValid, TargetState
<1> QED
  BY <1>1, <1>2, <1>3

(* A cursor brought up to date is valid, and keeps what it pursues and has *)
(* done.                                                                   *)
LEMMA ReconciledIsValid ==
  ASSUME NEW s \in TargetState, NEW d \in Boundaries, IsValid(s)
  PROVE  /\ IsValid(Reconciled(s, d)) /\ Reconciled(s, d).succ = s.succ
         /\ s.pending # 0 => Reconciled(s, d).pending = s.pending
BY SupervisorAssumption
DEF Reconciled, Observed, IsNewlyDue, IsValid, TargetState, Boundaries

(* The file keeps its part of the invariant.                               *)
LEMMA FileStep == IInv /\ [Next]_vars => FileInv'
<1> SUFFICES ASSUME IInv, [Next]_vars, NEW t \in Targets
             PROVE  /\ IsValid(file[t])'
                    /\ file'[t].succ # 0 => StaysDone(t, file'[t].succ)
                    /\ ~lost' => \A b \in Boundaries :
                                    rows'[<<t, b>>] \in Begun => file'[t].pending = b
  BY DEF FileInv, IsDone, StaysDone
<1>1. FileMoves(t) /\ PassInv /\ TypeOK /\ FileInv /\ AskInv
  BY CursorMoves DEF IInv
<1>2. /\ file[t] \in TargetState /\ pass.before[t] \in TargetState /\ pass.got[t] \in Outcome
      /\ IsValid(file[t]) /\ (file[t].succ # 0 => IsDone(t, file[t].succ))
  BY <1>1 DEF TypeOK, Pass, FileInv
<1>3. IsValid(file[t])' /\ (file'[t].succ # 0 => IsDone(t, file'[t].succ))
  <2>1. CASE file'[t] \in {file[t], emptyTargetState}
    BY <1>2, <2>1, EmptyIsValid DEF emptyTargetState, IsValid
  <2>2. CASE pass.pc = "write" /\ file'[t] = pass.before[t]
    BY <1>1, <1>2, <2>2 DEF PassInv, IsValid
  <2>3. CASE pass.pc = "dispatch" /\ file'[t] = After(pass.before[t], pass.got[t])
    <3>1. pass.before[t] = file[t] /\ (pass.got[t] # "none" => pass.before[t].pending # 0)
          /\ (IsProof(pass.got[t]) => IsDone(t, pass.before[t].pending))
      BY <1>1, <2>3 DEF PassInv
    <3>2. IsValid(file'[t]) /\ file'[t].succ = IF IsProof(pass.got[t]) THEN file[t].pending
                                                                      ELSE file[t].succ
      BY <1>2, <2>3, <3>1, AfterIsValid
    <3>3. IsValid(file[t])'
      BY <3>2 DEF IsValid
    <3> QED
      BY <1>2, <3>1, <3>2, <3>3
  <2> QED
    BY <1>1, <2>1, <2>2, <2>3 DEF FileMoves
<1>4. file'[t].succ # 0 => StaysDone(t, file'[t].succ)
  BY <1>3, DoneStays
<1>5. ASSUME ~lost', NEW b \in Boundaries, rows'[<<t, b>>] \in Begun PROVE file'[t].pending = b
  <2>1. <<t, b>> \in Keys /\ b # 0 /\ ~lost
    BY <1>1, <1>5, BoundaryNumbers DEF Keys, FileMoves
  <2>2. file[t].pending = b
    <3>1. CASE rows[<<t, b>>] \in Begun
      BY <1>1, <2>1, <3>1 DEF FileInv
    <3>2. CASE rows[<<t, b>>] \notin Begun
      <4>1. Moves(<<t, b>>) /\ KeyIsSound(<<t, b>>)
        BY <2>1, KeyMoves DEF IInv, KeyInv
      <4>2. Begins(<<t, b>>)
        BY <1>5, <3>2, <4>1
        DEF Moves, Rests, Completes, Concludes, Lapses, Ended, KeyIsSound, Begun
      <4>3. PICK c \in Calls : calls[c].ask[t].mode # "no" /\ calls[c].ask[t].boundary = b
        BY <4>2 DEF Begins, AskedNow
      <4>4. ~IsDone(t, b)
        BY <4>2 DEF Begins, IsDone
      <4> QED
        BY <1>1, <2>1, <4>3, <4>4 DEF AskInv
    <3> QED
      BY <3>1, <3>2
  <2>3. ~StaysDone(t, b)
    BY <1>5 DEF StaysDone, Begun
  <2> QED
    BY <1>5, <2>1, <2>2, <2>3, Pursued
<1> QED
  BY <1>3, <1>4, <1>5

-----------------------------------------------------------------------------
(* What a step may do to a request *)

Sends(c) ==
  /\ pass.pc = "dispatch" /\ pass'.call = c /\ pass'.before = pass.before
  /\ calls'[c].mine = {} /\ calls'[c].out = NoOutcome
  /\ \A t \in Targets : calls'[c].ask[t].mode # "no" =>
       t \in pass.todo /\ calls'[c].ask[t].boundary = pass.before[t].pending
CallMoves(c) ==
  \/ calls'[c].ask = calls[c].ask
  \/ calls'[c] = IdleCall
  \/ Sends(c)

(* A dispatch sends one request, about pending boundaries of the chunk.    *)
LEMMA DispatchSends ==
  ASSUME IInv, Dispatch
  PROVE  \E c \in Calls : Sends(c) /\ \A x \in Calls \ {c} : calls'[x] = calls[x]
<1>0. TypeOK
  BY DEF IInv
<1> PICK S \in SUBSET pass.todo, c \in Calls :
       /\ calls' = [calls EXCEPT ![c] =
            [IdleCall EXCEPT !.pc = "sent", !.gen = pass.gen,
               !.ask = [t \in Targets |-> IF t \notin S THEN NoAsk ELSE
                          [boundary |-> pass.before[t].pending, mode |-> pass.before[t].mode]]]]
       /\ pass' = [pass EXCEPT !.pc = "await", !.todo = @ \ S, !.call = c]
  BY DEF Dispatch
<1> DEFINE ask == [t \in Targets |-> IF t \notin S THEN NoAsk ELSE
                     [boundary |-> pass.before[t].pending, mode |-> pass.before[t].mode]]
<1>1. calls'[c].ask = ask /\ calls'[c].mine = {} /\ calls'[c].out = NoOutcome
      /\ \A x \in Calls \ {c} : calls'[x] = calls[x]
  BY <1>0 DEF IdleCall, TypeOK
<1>2. pass.pc = "dispatch" /\ pass'.call = c /\ pass'.before = pass.before
  BY <1>0 DEF TypeOK, Pass, Dispatch
<1>3. ASSUME NEW t \in Targets, ask[t].mode # "no"
      PROVE  t \in pass.todo /\ ask[t].boundary = pass.before[t].pending
  BY <1>3 DEF NoAsk
<1> HIDE DEF ask
<1> QED
  BY <1>1, <1>2, <1>3 DEF Sends

(* A step leaves what a request asks, or ends the request, or sends it.    *)
LEMMA RequestMoves == ASSUME IInv, [Next]_vars, NEW c \in Calls PROVE CallMoves(c)
<1> USE DEF server
<1>0. TypeOK
  BY DEF IInv
<1>1. CASE UNCHANGED calls
  BY <1>1 DEF CallMoves
<1>2. CASE Dispatch
  BY <1>2, DispatchSends DEF CallMoves
<1>3. ASSUME NEW x \in Calls, Receive(x) PROVE CallMoves(c)
  BY <1>0, <1>3 DEF Receive, CallMoves, TypeOK
<1>4. ASSUME NEW stop \in BOOLEAN, GiveUp(stop) PROVE CallMoves(c)
  BY <1>0, <1>4 DEF GiveUp, CallMoves, TypeOK
<1>5. CASE Restart
  BY <1>5 DEF Restart, CallMoves
<1>6. ASSUME NEW x \in Calls, Inspect(x) \/ Claim(x) \/ Reply(x) \/ StoreFails(x) PROVE CallMoves(c)
  <2>1. calls \in [Calls -> Call] /\ calls[x] \in Call
    BY <1>0 DEF TypeOK
  <2>2. ASSUME NEW out, calls' = Told(x, out) PROVE calls'[c].ask = calls[c].ask
    BY <2>1, <2>2 DEF Told, Call
  <2>3. CASE Inspect(x)
    BY <2>1, <2>2, <2>3 DEF Inspect, CallMoves, Call
  <2>4. CASE Claim(x)
    BY <2>1, <2>4 DEF Claim, CallMoves, Call
  <2>5. CASE Reply(x) \/ StoreFails(x)
    BY <2>2, <2>5 DEF Reply, StoreFails, CallMoves
  <2> QED
    BY <1>6, <2>3, <2>4, <2>5
<1> QED
  BY <1>1, <1>2, <1>3, <1>4, <1>5, <1>6
  DEF Next, vars, BeginPass, WriteBefore, SkipAborted, Stop, Commit, EndPass, LoseFile,
      Deploy, FallDue, SetClockBack, RetryIsDue, HandlerEnds, SettleLate, Lapse

(* An idle request asks and reports nothing.                               *)
LEMMA IdleAsksNothing ==
  \A t \in Targets : /\ IdleCall.ask[t].mode = "no" /\ ~IsProof(IdleCall.out[t])
                     /\ t \notin IdleCall.mine /\ ~IsProof(NoOutcome[t])
BY DEF IdleCall, NoAsk, NoOutcome, IsProof

(* Requests keep asking what is pursued or done.                           *)
LEMMA AskStep == IInv /\ [Next]_vars => AskInv'
<1> SUFFICES ASSUME IInv, [Next]_vars, NEW c \in Calls, NEW t \in Targets,
                    calls'[c].ask[t].mode # "no"
             PROVE  LET b == calls'[c].ask[t].boundary
                    IN  b # 0 /\ (lost' \/ file'[t].pending = b \/ StaysDone(t, b))
  BY DEF AskInv, IsDone, StaysDone
<1>1. CallMoves(c) /\ AskInv /\ PassInv /\ TypeOK
  BY RequestMoves DEF IInv
<1> DEFINE b == calls'[c].ask[t].boundary
<1>2. b # 0 /\ (lost \/ file[t].pending = b \/ IsDone(t, b))
  <2>1. CASE calls'[c].ask = calls[c].ask
    BY <1>1, <2>1 DEF AskInv
  <2>2. CASE Sends(c)
    BY <1>1, <2>2 DEF Sends, PassInv
  <2> QED
    BY <1>1, <2>1, <2>2, IdleAsksNothing DEF CallMoves
<1>3. lost => lost'
  <2>1. FileMoves(t)
    BY CursorMoves
  <2> QED
    BY <2>1 DEF FileMoves
<1> HIDE DEF b
<1>4. lost' \/ file'[t].pending = b \/ StaysDone(t, b)
  BY <1>2, <1>3, Pursued, DoneStays
<1> QED
  BY <1>2, <1>4 DEF b

(* A row reported as a proof is done.                                      *)
LEMMA ReportIsTrue ==
  ASSUME NEW s \in Status, IsProof(Report(s)) PROVE s = "succeeded"
BY DEF Status, Report, IsProof

(* Requests keep reporting only what is done.                              *)
LEMMA OutStep == IInv /\ [Next]_vars => OutInv'
<1> SUFFICES ASSUME IInv, [Next]_vars, NEW c \in Calls, NEW t \in Targets
             PROVE  /\ IsProof(calls'[c].out[t]) =>
                         /\ calls'[c].ask[t].mode # "no"
                         /\ StaysDone(t, calls'[c].ask[t].boundary)
                    /\ t \in calls'[c].mine => calls'[c].ask[t].mode # "no"
  BY DEF OutInv, IsDone, StaysDone, IsProof
<1> USE DEF server
<1>0. TypeOK /\ AskInv /\ OutInv
  BY DEF IInv
<1>1. CASE calls'[c] = calls[c]
  BY <1>0, <1>1, DoneStays DEF OutInv
<1>2. CASE calls'[c] = IdleCall
  BY <1>2, IdleAsksNothing
<1>3. CASE Dispatch
  BY <1>1, <1>3, DispatchSends, IdleAsksNothing DEF Sends
<1>4. ASSUME NEW x \in Calls, Receive(x) PROVE calls'[c] \in {calls[c], IdleCall}
  BY <1>0, <1>4 DEF Receive, TypeOK
<1>5. ASSUME NEW stop \in BOOLEAN, GiveUp(stop) PROVE calls'[c] \in {calls[c], IdleCall}
  BY <1>0, <1>5 DEF GiveUp, TypeOK
<1>6. CASE Restart
  BY <1>2, <1>6 DEF Restart
<1>7. calls[c] \in Call /\ calls \in [Calls -> Call]
  BY <1>0 DEF TypeOK
<1>8. ASSUME calls[c].ask[t].mode # "no"
      PROVE  /\ KeyOf(c, t) \in Keys /\ rows[KeyOf(c, t)] \in Status
             /\ calls[c].ask[t].boundary \in Boundaries
  BY <1>0, <1>8, AskedKeys DEF TypeOK, KeyOf, Keys
<1>9. ASSUME NEW o, o \in {"stale", "ambiguous"}, calls' = Told(c, Refusal(c, o))
      PROVE  /\ ~IsProof(calls'[c].out[t]) /\ calls'[c].mine = calls[c].mine
             /\ calls'[c].ask = calls[c].ask
  BY <1>7, <1>9 DEF Told, Refusal, IsProof, Call
<1>10. ASSUME calls[c].ask[t].mode # "no", IsProof(Report(rows[KeyOf(c, t)]))
       PROVE  StaysDone(t, calls[c].ask[t].boundary)
  <2>1. rows[<<t, calls[c].ask[t].boundary>>] = "succeeded"
    BY <1>8, <1>10, ReportIsTrue DEF KeyOf
  <2> QED
    BY <1>8, <1>10, <2>1, DoneStays DEF IsDone
<1>11. CASE Inspect(c)
  <2>1. CASE \E o \in {"stale", "ambiguous"} : calls' = Told(c, Refusal(c, o))
    BY <1>0, <1>9, <2>1 DEF OutInv
  <2>2. CASE calls' = [calls EXCEPT ![c].pc = "claim",
                         ![c].out = [x \in Targets |-> IF x \in AskedFor(c, "reconcile")
                                       THEN Report(rows[KeyOf(c, x)]) ELSE "none"]]
    <3>1. /\ calls'[c].ask = calls[c].ask /\ calls'[c].mine = calls[c].mine
          /\ calls'[c].out[t] = IF t \in AskedFor(c, "reconcile")
                                THEN Report(rows[KeyOf(c, t)]) ELSE "none"
      BY <1>7, <2>2 DEF Call
    <3>2. t \in AskedFor(c, "reconcile") => calls[c].ask[t].mode # "no"
      BY DEF AskedFor
    <3> QED
      BY <1>0, <1>10, <3>1, <3>2 DEF OutInv, IsProof
  <2> QED
    BY <1>11, <2>1, <2>2 DEF Inspect
<1>12. CASE Claim(c)
  <2>1. /\ calls'[c].ask = calls[c].ask /\ calls'[c].mine = Claimed(c)
        /\ calls'[c].out[t] = IF t \in AskedFor(c, "execute") \ Claimed(c)
                              THEN Report(rows[KeyOf(c, t)]) ELSE calls[c].out[t]
    BY <1>7, <1>12 DEF Claim, Call
  <2>2. t \in AskedFor(c, "execute") => calls[c].ask[t].mode # "no"
    BY DEF AskedFor
  <2>3. Claimed(c) \subseteq AskedFor(c, "execute")
    BY DEF Claimed
  <2> QED
    BY <1>0, <1>10, <2>1, <2>2, <2>3, DoneStays DEF OutInv
<1>13. CASE Reply(c)
  <2>1. /\ calls'[c].ask = calls[c].ask /\ calls'[c].mine = calls[c].mine
        /\ calls'[c].out[t] = IF t \notin calls[c].mine THEN calls[c].out[t]
                              ELSE CASE hands[KeyOf(c, t)] = "ok"  -> "succeeded"
                                     [] hands[KeyOf(c, t)] = "bad" -> "failed"
                                     [] OTHER                      -> "timed_out"
    BY <1>7, <1>13 DEF Reply, Told, Call
  <2>2. CASE t \notin calls[c].mine
    BY <1>0, <2>1, <2>2, DoneStays DEF OutInv
  <2>3. CASE t \in calls[c].mine /\ hands[KeyOf(c, t)] # "ok"
    BY <1>0, <2>1, <2>3 DEF OutInv, IsProof
  <2>4. CASE t \in calls[c].mine /\ hands[KeyOf(c, t)] = "ok"
    <3>1. calls[c].ask[t].mode # "no"
      BY <1>0, <2>4 DEF OutInv
    <3>2. KeyOf(c, t) \in {k \in MineOf(c) : Ended(k)} /\ KeyOf(c, t) \in Keys
      BY <1>8, <2>4, <3>1 DEF MineOf, Ended
    <3>3. rows'[KeyOf(c, t)] = "succeeded"
      BY <1>13, <2>4, <3>2 DEF Reply, Settled, SettledRows
    <3> QED
      BY <1>8, <2>1, <3>1, <3>3 DEF StaysDone, KeyOf
  <2> QED
    BY <2>2, <2>3, <2>4
<1>14. CASE StoreFails(c)
  BY <1>0, <1>9, <1>14 DEF StoreFails, OutInv
<1>15. ASSUME NEW x \in Calls, x # c, Inspect(x) \/ Claim(x) \/ Reply(x) \/ StoreFails(x)
       PROVE  calls'[c] = calls[c]
  BY <1>7, <1>15 DEF Inspect, Claim, Reply, StoreFails, Told
<1> QED
  BY <1>1, <1>2, <1>3, <1>4, <1>5, <1>6, <1>11, <1>12, <1>13, <1>14, <1>15
  DEF Next, vars, BeginPass, WriteBefore, SkipAborted, Stop, Commit, EndPass, LoseFile,
      Deploy, FallDue, SetClockBack, RetryIsDue, HandlerEnds, SettleLate, Lapse

(* The pass keeps to what it has read.                                     *)
LEMMA PassStep == IInv /\ [Next]_vars => PassInv'
<1> SUFFICES ASSUME IInv, [Next]_vars PROVE PassInv'
  OBVIOUS
<1> USE DEF clock, disk, server
<1>0. TypeOK /\ AskInv /\ OutInv /\ FileInv /\ PassInv
  BY DEF IInv
<1>1. pass \in Pass /\ \A t \in Targets : /\ pass.before[t] \in TargetState
                                        /\ file[t] \in TargetState
                                        /\ due[t] \in Boundaries
  BY <1>0 DEF TypeOK, Pass
(* The part of PassInv about one target. *)
<1> DEFINE
      Reads(t)   == IsValid(pass.before[t])
      Writes(t)  == pass.pc = "write" =>
                      /\ pass.before[t].succ = file[t].succ
                      /\ file[t].pending # 0 => pass.before[t].pending = file[t].pending
      Holds(t)   == pass.pc \in {"dispatch", "await"} => pass.before[t] = file[t]
      Knows(t)   == /\ t \in pass.todo => pass.before[t].pending # 0
                    /\ pass.got[t] # "none" => pass.before[t].pending # 0
                    /\ IsProof(pass.got[t]) => IsDone(t, pass.before[t].pending)
      Awaits(t)  == pass.call # NoCall /\ calls[pass.call].ask[t].mode # "no" =>
                      pass.before[t].pending = calls[pass.call].ask[t].boundary
<1>2. ASSUME NEW t \in Targets
      PROVE  Reads(t) /\ Writes(t) /\ Holds(t) /\ Knows(t) /\ Awaits(t)
  BY <1>0 DEF PassInv
<1>3. ASSUME /\ pass'.pc = "await" <=> pass'.call # NoCall
             /\ \A t \in Targets :
                  /\ Reads(t)' /\ Writes(t)' /\ Holds(t)' /\ Awaits(t)'
                  /\ t \in pass'.todo => pass'.before[t].pending # 0
                  /\ pass'.got[t] # "none" => pass'.before[t].pending # 0
                  /\ IsProof(pass'.got[t]) => StaysDone(t, pass'.before[t].pending)
      PROVE  PassInv'
  BY <1>3 DEF PassInv, IsDone, StaysDone, IsProof
<1>4. CASE pass' = pass /\ file' = file
  <2>1. pass'.pc = "await" <=> pass'.call # NoCall
    BY <1>0, <1>4 DEF PassInv
  <2>2. ASSUME NEW t \in Targets PROVE Awaits(t)'
    <3> SUFFICES ASSUME pass.call # NoCall, calls'[pass.call].ask[t].mode # "no"
                 PROVE  pass.before[t].pending = calls'[pass.call].ask[t].boundary
      BY <1>4
    <3>1. pass.call \in Calls /\ pass.pc = "await"
      BY <1>0, <1>1 DEF Pass, PassInv
    <3>2. CallMoves(pass.call)
      BY <3>1, RequestMoves
    <3> QED
      BY <1>2, <3>1, <3>2, IdleAsksNothing DEF CallMoves, Sends
  <2>3. ASSUME NEW t \in Targets PROVE Reads(t)' /\ Writes(t)' /\ Holds(t)'
    BY <1>2, <1>4 DEF IsValid
  <2>4. ASSUME NEW t \in Targets
        PROVE  /\ t \in pass'.todo => pass'.before[t].pending # 0
               /\ pass'.got[t] # "none" => pass'.before[t].pending # 0
               /\ IsProof(pass'.got[t]) => StaysDone(t, pass'.before[t].pending)
    BY <1>2, <1>4, DoneStays
  <2> QED
    BY <1>3, <2>1, <2>2, <2>3, <2>4
<1>5. CASE pass' = NoPass
  BY <1>3, <1>5, EmptyIsValid, CallAssumption, IdleAsksNothing
  DEF NoPass, IsValid, NoOutcome, emptyTargetState
<1>6. CASE LoseFile
  <2>1. pass.pc = "idle" /\ pass' = pass /\ calls' = calls
    BY <1>6 DEF LoseFile
  <2> QED
    BY <1>0, <1>2, <1>3, <2>1, DoneStays DEF PassInv, IsValid
<1>7. CASE BeginPass
  <2> DEFINE before == [t \in Targets |-> Reconciled(file[t], due[t])]
             todo   == {t \in Targets : before[t].pending # 0 /\ t \notin waiting}
  <2>1. \A t \in Targets : /\ IsValid(before[t]) /\ before[t].succ = file[t].succ
                           /\ file[t].pending # 0 => before[t].pending = file[t].pending
    BY <1>0, <1>1, ReconciledIsValid DEF FileInv
  <2>2. before = file => \A t \in Targets : before[t] = file[t]
    OBVIOUS
  <2>3. /\ pass'.pc = (IF before # file THEN "write" ELSE "dispatch")
        /\ pass'.before = before /\ pass'.todo = todo /\ pass'.call = NoCall
        /\ pass'.got = NoOutcome /\ file' = file
    BY <1>7 DEF BeginPass, NoPass
  <2>4. \A t \in Targets : t \in todo => before[t].pending # 0
    OBVIOUS
  <2> HIDE DEF before, todo
  <2>5. \A t \in Targets : Reads(t)'
    BY <2>1, <2>3 DEF IsValid
  <2> QED
    BY <1>3, <2>1, <2>2, <2>3, <2>4, <2>5, IdleAsksNothing DEF NoOutcome
<1>8. CASE WriteBefore /\ pass.todo # {}
  <2>1. /\ pass.pc = "write" /\ file' = pass.before /\ calls' = calls
        /\ pass'.pc = "dispatch" /\ pass'.before = pass.before /\ pass'.todo = pass.todo
        /\ pass'.call = pass.call /\ pass'.got = pass.got
    BY <1>1, <1>8 DEF WriteBefore, Pass
  <2>2. pass.call = NoCall
    BY <1>0, <2>1 DEF PassInv
  <2>3. \A t \in Targets : Reads(t)'
    BY <1>2, <2>1 DEF IsValid
  <2> QED
    BY <1>2, <1>3, <2>1, <2>2, <2>3, DoneStays
<1>9. CASE Dispatch
  <2>1. PICK c \in Calls : Sends(c)
    BY <1>9, DispatchSends
  <2>2. /\ pass.pc = "dispatch" /\ file' = file
        /\ pass'.pc = "await" /\ pass'.before = pass.before /\ pass'.todo \subseteq pass.todo
        /\ pass'.got = pass.got
    BY <1>1, <1>9 DEF Dispatch, Pass
  <2>3. pass'.call # NoCall /\ pass'.call = c
    BY <2>1, CallAssumption DEF Sends
  <2>4. \A t \in Targets : Reads(t)'
    BY <1>2, <2>2 DEF IsValid
  <2>5. \A t \in Targets : Awaits(t)'
    BY <2>1, <2>2, <2>3 DEF Sends
  <2> QED
    BY <1>2, <1>3, <2>2, <2>3, <2>4, <2>5, DoneStays
<1>10. CASE SkipAborted
  <2>1. /\ pass.pc = "dispatch" /\ file' = file /\ calls' = calls
        /\ pass'.pc = "dispatch" /\ pass'.before = pass.before /\ pass'.todo = {}
        /\ pass'.call = pass.call
        /\ \A t \in Targets : pass'.got[t] = IF t \in pass.todo THEN "ambiguous" ELSE pass.got[t]
    BY <1>1, <1>10 DEF SkipAborted, Pass
  <2>2. pass.call = NoCall
    BY <1>0, <2>1 DEF PassInv
  <2>3. \A t \in Targets : Reads(t)'
    BY <1>2, <2>1 DEF IsValid
  <2> QED
    BY <1>2, <1>3, <2>1, <2>2, <2>3, DoneStays DEF IsProof
<1>11. CASE Stop
  <2>1. /\ pass.pc = "write" /\ file' = file /\ calls' = calls
        /\ pass'.pc = pass.pc /\ pass'.before = pass.before /\ pass'.todo = pass.todo
        /\ pass'.call = pass.call /\ pass'.got = pass.got
    BY <1>1, <1>11 DEF Stop, Pass
  <2>2. \A t \in Targets : Reads(t)'
    BY <1>2, <2>1 DEF IsValid
  <2> QED
    BY <1>0, <1>2, <1>3, <2>1, <2>2, DoneStays DEF PassInv
(* The awaited request has ended, and what it asked has an outcome. *)
<1>12. ASSUME pass.pc = "await", file' = file,
              pass'.pc = "dispatch", pass'.before = pass.before, pass'.todo = pass.todo,
              pass'.call = NoCall,
              \A t \in AskedOf(pass.call) : pass'.got[t] \in {calls[pass.call].out[t], "ambiguous"},
              \A t \in Targets \ AskedOf(pass.call) : pass'.got[t] = pass.got[t]
       PROVE  PassInv'
  <2>1. pass.call \in Calls /\ pass.call # NoCall
    BY <1>0, <1>1, <1>12 DEF PassInv, Pass
  <2>2. ASSUME NEW t \in AskedOf(pass.call)
        PROVE  pass.before[t].pending = calls[pass.call].ask[t].boundary /\ pass.before[t].pending # 0
    <3>1. t \in Targets /\ calls[pass.call].ask[t].mode # "no"
      BY DEF AskedOf
    <3> QED
      BY <1>0, <1>2, <2>1, <3>1 DEF AskInv
  <2>3. ASSUME NEW t \in AskedOf(pass.call), IsProof(pass'.got[t])
        PROVE  IsDone(t, pass.before[t].pending)
    BY <1>0, <1>12, <2>1, <2>2, <2>3 DEF OutInv, AskedOf, IsProof
  <2>4. \A t \in Targets : Reads(t)'
    BY <1>2, <1>12 DEF IsValid
  <2> QED
    BY <1>2, <1>3, <1>12, <2>2, <2>3, <2>4, DoneStays
<1>13. ASSUME NEW c \in Calls, Receive(c), pass.call = c PROVE PassInv'
  <2>1. /\ pass.pc = "await" /\ file' = file
        /\ pass'.pc = "dispatch" /\ pass'.before = pass.before /\ pass'.todo = pass.todo
        /\ pass'.call = NoCall
        /\ \A t \in AskedOf(pass.call) : pass'.got[t] = calls[pass.call].out[t]
        /\ \A t \in Targets \ AskedOf(pass.call) : pass'.got[t] = pass.got[t]
    BY <1>0, <1>1, <1>13, CallAssumption DEF Receive, Pass, PassInv, AskedOf
  <2> QED
    BY <1>12, <2>1
<1>14. ASSUME NEW stop \in BOOLEAN, GiveUp(stop) PROVE PassInv'
  <2>1. /\ pass.pc = "await" /\ file' = file
        /\ pass'.pc = "dispatch" /\ pass'.before = pass.before /\ pass'.todo = pass.todo
        /\ pass'.call = NoCall
        /\ \A t \in AskedOf(pass.call) : pass'.got[t] = "ambiguous"
        /\ \A t \in Targets \ AskedOf(pass.call) : pass'.got[t] = pass.got[t]
    BY <1>1, <1>14 DEF GiveUp, Pass, AskedOf
  <2> QED
    BY <1>12, <2>1
<1>15. CASE Restart /\ pass.pc = "await"
  <2>1. /\ file' = file
        /\ pass'.pc = "dispatch" /\ pass'.before = pass.before /\ pass'.todo = pass.todo
        /\ pass'.call = NoCall
        /\ \A t \in AskedOf(pass.call) : pass'.got[t] = "ambiguous"
        /\ \A t \in Targets \ AskedOf(pass.call) : pass'.got[t] = pass.got[t]
    BY <1>1, <1>15 DEF Restart, Pass, AskedOf
  <2> QED
    BY <1>12, <1>15, <2>1
<1> QED
  BY <1>4, <1>5, <1>6, <1>7, <1>8, <1>9, <1>10, <1>11, <1>13, <1>14, <1>15
  DEF Next, vars, WriteBefore, Commit, EndPass, Deploy, Restart, FallDue, SetClockBack,
      RetryIsDue, Receive, Inspect, Claim, Reply, StoreFails, HandlerEnds, SettleLate, Lapse

-----------------------------------------------------------------------------
(* Theorems *)

(* The inductive invariant holds in every reachable state of supervisor    *)
(* and runtime.                                                            *)
THEOREM Invariance == Spec => []IInv
<1>1. IInv /\ [Next]_vars => IInv'
  BY TypeStep, KeyStep, AskStep, OutStep, FileStep, PassStep DEF IInv
<1> QED
  BY <1>1, InitHolds, PTL DEF Spec

(* The cursor file, the pass, the requests and the table keep their types. *)
THEOREM TypesHold == Spec => []TypeOK
BY Invariance, PTL DEF IInv

(* What validateSelfHostScheduleState demands holds of every state that is *)
(* written or worked on, whatever the clock does: no pass ends because it  *)
(* may not write its own state.                                            *)
THEOREM FileIsAlwaysValid == Spec => []FileStaysValid
<1>1. IInv => FileStaysValid
  BY DEF IInv, FileInv, PassInv, FileStaysValid
<1> QED
  BY <1>1, Invariance, PTL

(* A cursor stands at a boundary only if its handler has completed, once,  *)
(* however requests were lost, given up, repeated or answered late.        *)
THEOREM CursorsAreTrue == Spec => []CursorIsTrue
<1>1. IInv => CursorIsTrue
  <2> SUFFICES ASSUME IInv, NEW t \in Targets, file[t].succ # 0
               PROVE  done[<<t, file[t].succ>>] = 1
    BY DEF CursorIsTrue
  <2>1. IsDone(t, file[t].succ)
    BY DEF IInv, FileInv
  <2>2. KeyIsSound(<<t, file[t].succ>>)
    BY <2>1 DEF IInv, KeyInv, IsDone, Keys
  <2> QED
    BY <2>1, <2>2 DEF IsDone, KeyIsSound
<1> QED
  BY <1>1, Invariance, PTL

(* A boundary that was begun is what the file pursues until it has         *)
(* succeeded, as long as the file is not lost.                             *)
THEOREM BegunBoundariesArePursued == Spec => []BegunIsPursued
<1>1. IInv => BegunIsPursued
  BY DEF IInv, FileInv, BegunIsPursued, Begun
<1> QED
  BY <1>1, Invariance, PTL

(* No step but the loss of the file moves a cursor back.                   *)
THEOREM CursorsAdvance == Spec => CursorAdvances
<1>1. IInv /\ [Next]_vars => [\A t \in Targets : file'[t].succ >= file[t].succ \/ lost']_vars
  <2> SUFFICES ASSUME IInv, [Next]_vars, NEW t \in Targets
               PROVE  file'[t].succ >= file[t].succ \/ lost'
    OBVIOUS
  <2>1. FileMoves(t) /\ PassInv /\ file[t] \in TargetState /\ pass.got[t] \in Outcome
    BY CursorMoves DEF IInv, TypeOK, Pass
  <2>2. CASE pass.pc = "dispatch" /\ file'[t] = After(pass.before[t], pass.got[t])
    <3>1. pass.before[t] = file[t] /\ IsValid(file[t])
          /\ (pass.got[t] # "none" => file[t].pending # 0)
      BY <2>1, <2>2 DEF PassInv
    <3>2. file'[t].succ = IF IsProof(pass.got[t]) THEN file[t].pending ELSE file[t].succ
      BY <2>1, <2>2, <3>1, AfterIsValid
    <3> QED
      BY <2>1, <3>1, <3>2 DEF IsValid, IsProof, TargetState
  <2> QED
    BY <2>1, <2>2 DEF FileMoves, PassInv, TargetState
<1> QED
  BY <1>1, Invariance, PTL DEF Spec, CursorAdvances

(* The table under the supervisor's retries, replays and reconciliations   *)
(* implements DeliveryLedger: a key that has completed is not run again.   *)
THEOREM TableImplementsLedger == Spec => ImplementsLedger
<1>1. Init => Ledger!Init
  BY DEF Init, Ledger!Init
<1>2. IInv /\ [Next]_vars => [Ledger!Next]_<<rows, done>>
  <2> SUFFICES ASSUME IInv, [Next]_vars PROVE Ledger!Next
    OBVIOUS
  <2>1. TypeOK' /\ KeyInv'
    BY TypeStep, KeyStep
  <2>2. rows' \in [Keys -> Ledger!States]
    BY <2>1 DEF TypeOK, Status, Ledger!States
  <2>3. done' \in [Keys -> {0, 1}]
    BY <2>1 DEF TypeOK, KeyInv, KeyIsSound
  <2>4. ASSUME NEW k \in Keys
        PROVE  \/ Ledger!Attempt(k) \/ Ledger!Complete(k) \/ Ledger!Conclude(k)
               \/ Ledger!Lapse(k) \/ Ledger!Retire(k) \/ Ledger!Idle(k)
    <3>1. Moves(k) /\ KeyIsSound(k)
      BY KeyMoves DEF IInv, KeyInv
    <3>2. CASE Rests(k)
      BY <3>2 DEF Rests, Ledger!Idle
    <3>3. CASE Begins(k)
      BY <3>1, <3>3 DEF Begins, KeyIsSound, Ledger!Attempt
    <3>4. CASE Completes(k)
      BY <3>1, <3>4 DEF Completes, KeyIsSound, Ledger!Complete
    <3>5. CASE Concludes(k)
      BY <3>1, <3>5 DEF Concludes, Ended, KeyIsSound, Ledger!Conclude
    <3>6. CASE Lapses(k)
      BY <3>6 DEF Lapses, Ledger!Lapse
    <3> QED
      BY <3>1, <3>2, <3>3, <3>4, <3>5, <3>6 DEF Moves
  <2> QED
    BY <2>2, <2>3, <2>4 DEF Ledger!Next
<1> QED
  BY <1>1, <1>2, Invariance, PTL DEF Spec, ImplementsLedger, Ledger!Spec
=============================================================================
