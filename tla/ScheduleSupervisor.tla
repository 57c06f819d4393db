-------------------------- MODULE ScheduleSupervisor --------------------------
(***************************************************************************)
(* The self-host schedule supervisor and the runtime it drives:            *)
(* packages/cli/src/lib/self-host-schedule-supervisor.ts over              *)
(* packages/server/src/routes/self-host-control.ts and                     *)
(* lib/scheduled-delivery.ts.                                              *)
(*                                                                         *)
(* The supervisor keeps one cursor file, reads it at the start of a pass,  *)
(* writes it before it sends anything and again when every request of the  *)
(* pass has ended.  A request it gave up may still reach the runtime, or   *)
(* be executing there.  A request carries at most one database chunk.      *)
(*                                                                         *)
(* The clock enters in two ways: `due', the latest fire time of a target,  *)
(* which may also go back, and `waiting', a nextAttemptAt in the future.   *)
(***************************************************************************)
EXTENDS Integers, FiniteSets

CONSTANTS
  Targets,      \* ids of the manifest's entries
  Calls,        \* requests that can be in the network or in the runtime
  Fragile,      \* targets whose requests may be given up, lost or aborted
  ChunkSize,    \* MAX_SELF_HOST_SCHEDULE_TARGETS_PER_REQUEST
  MaxBoundary,  \* bound: fire times per target
  MaxFaults,    \* bound: faults of any kind
  MaxFailures   \* bound: handlers that fail

ASSUME SupervisorAssumption ==
  /\ IsFiniteSet(Targets) /\ Fragile \subseteq Targets
  /\ ChunkSize \in Nat \ {0} /\ MaxBoundary \in Nat \ {0}
  /\ MaxFaults \in Nat /\ MaxFailures \in Nat

Boundaries == 1..MaxBoundary
Keys == Targets \X Boundaries

VARIABLES
  due,       \* [Targets -> Boundaries]: getPreviousFireTime at this moment
  file,      \* [Targets -> TargetState]: the state file
  waiting,   \* targets whose nextAttemptAt, as filed, is in the future
  pass,      \* the pass under way
  manifest,  \* generation of the bundle on disk
  active,    \* generation the runtime was started with
  calls,     \* [Calls -> Call]
  rows,      \* [Keys -> Status]: _scheduled_delivery_items
  hands,     \* [Keys -> Hand]: the handler of the latest attempt
  done,      \* [Keys -> Nat]: completed runs of the handler (history)
  faults,    \* faults so far
  failures,  \* failed handlers so far
  lost       \* whether the state file has been lost (history)

vars == <<due, file, waiting, pass, manifest, active, calls, rows, hands, done,
          faults, failures, lost>>
clock  == <<due, manifest>>
disk   == <<file, waiting, lost>>
server == <<active, rows, hands, done, failures>>

(* A target's cursor; 0 is null.  `tried' is attempt > 0. *)
TargetState == [pending : 0..MaxBoundary, succ : 0..MaxBoundary, seen : 0..MaxBoundary,
                tried : BOOLEAN, mode : {"execute", "reconcile"}]
emptyTargetState == [pending |-> 0, succ |-> 0, seen |-> 0, tried |-> FALSE,
                     mode |-> "execute"]

Status   == {"new", "running", "uncertain", "succeeded", "failed"}
Hand     == {"none", "live", "ok", "bad", "orphan"}
(* What the supervisor learns about one target of a request. *)
Outcome  == {"none", "succeeded", "duplicate", "failed", "timed_out", "in_flight",
             "uncertain", "ambiguous", "stale"}
Ask      == [boundary : 0..MaxBoundary, mode : {"no", "execute", "reconcile"}]
NoAsk    == [boundary |-> 0, mode |-> "no"]
NoCall   == "no call"
ASSUME CallAssumption == NoCall \notin Calls
Call     == [pc : {"idle", "sent", "claim", "run", "replied"}, gen : Nat,
             ask : [Targets -> Ask], mine : SUBSET Targets, out : [Targets -> Outcome]]
NoOutcome == [t \in Targets |-> "none"]
IdleCall == [pc |-> "idle", gen |-> 0, ask |-> [t \in Targets |-> NoAsk], mine |-> {},
             out |-> NoOutcome]
Pass     == [pc : {"idle", "write", "dispatch", "await"}, gen : Nat,
             before : [Targets -> TargetState], todo : SUBSET Targets,
             call : Calls \cup {NoCall}, got : [Targets -> Outcome], aborted : BOOLEAN]
NoPass   == [pc |-> "idle", gen |-> 0, before |-> [t \in Targets |-> emptyTargetState],
             todo |-> {}, call |-> NoCall, got |-> NoOutcome, aborted |-> FALSE]

Init ==
  /\ due = [t \in Targets |-> 1]
  /\ file = [t \in Targets |-> emptyTargetState] /\ waiting = {} /\ lost = FALSE
  /\ pass = NoPass /\ manifest = 1 /\ active = 1
  /\ calls = [c \in Calls |-> IdleCall]
  /\ rows = [k \in Keys |-> "new"] /\ hands = [k \in Keys |-> "none"]
  /\ done = [k \in Keys |-> 0] /\ faults = 0 /\ failures = 0

Fault == faults < MaxFaults /\ faults' = faults + 1

-----------------------------------------------------------------------------
(* The supervisor. *)

(* reconcileSelfHostScheduleState, for one target. *)
MutLatestOnly(s, d) == d
Observed(s, d) == IF s.seen > d THEN s.seen ELSE d
MutEverDue(s, d) == TRUE
IsNewlyDue(s, d) == s.succ = 0 \/ d > s.succ

Reconciled(s, d) ==
  LET seen == [s EXCEPT !.seen = Observed(s, d)]
  IN  IF s.pending = 0 /\ IsNewlyDue(s, d)
      THEN [seen EXCEPT !.pending = d, !.tried = FALSE, !.mode = "execute"]
      ELSE seen

(* The read at the start of runSelfHostSchedulePass.  A missing file reads *)
(* as one of empty targets.  A target that falls due now does not wait.    *)
BeginPass ==
  LET before == [t \in Targets |-> Reconciled(file[t], due[t])]
      todo   == {t \in Targets : before[t].pending # 0 /\ t \notin waiting}
  IN  /\ pass.pc = "idle"
      /\ before # file \/ todo # {}
      /\ pass' = [NoPass EXCEPT !.pc = IF before # file THEN "write" ELSE "dispatch",
                                !.gen = manifest, !.before = before, !.todo = todo]
      /\ UNCHANGED <<clock, disk, calls, server, faults>>

(* writeSelfHostScheduleStateAtomic, before anything is sent. *)
WriteBefore ==
  /\ pass.pc = "write"
  /\ file' = pass.before
  /\ pass' = IF pass.todo = {} THEN NoPass ELSE [pass EXCEPT !.pc = "dispatch"]
  /\ UNCHANGED <<clock, waiting, lost, calls, server, faults>>

(* The next chunk is posted, or the abort is noticed before it. *)
Dispatch ==
  /\ pass.pc = "dispatch" /\ ~pass.aborted
  /\ \E S \in SUBSET pass.todo, c \in Calls :
       /\ Cardinality(S) = (IF Cardinality(pass.todo) < ChunkSize
                            THEN Cardinality(pass.todo) ELSE ChunkSize)
       /\ S # {} /\ calls[c].pc = "idle"
       /\ calls' = [calls EXCEPT ![c] =
            [IdleCall EXCEPT !.pc = "sent", !.gen = pass.gen,
               !.ask = [t \in Targets |-> IF t \notin S THEN NoAsk ELSE
                          [boundary |-> pass.before[t].pending, mode |-> pass.before[t].mode]]]]
       /\ pass' = [pass EXCEPT !.pc = "await", !.todo = @ \ S, !.call = c]
  /\ UNCHANGED <<clock, disk, server, faults>>

SkipAborted ==
  /\ pass.pc = "dispatch" /\ pass.aborted /\ pass.todo # {}
  /\ pass' = [pass EXCEPT !.todo = {},
                !.got = [t \in Targets |-> IF t \in pass.todo THEN "ambiguous" ELSE @[t]]]
  /\ UNCHANGED <<clock, disk, calls, server, faults>>

AskedOf(c) == {t \in Targets : calls[c].ask[t].mode # "no"}

(* The response arrives; a call nobody awaits any more answers no one. *)
Receive(c) ==
  /\ calls[c].pc = "replied"
  /\ calls' = [calls EXCEPT ![c] = IdleCall]
  /\ pass' = IF pass.call # c THEN pass
             ELSE [pass EXCEPT !.pc = "dispatch", !.call = NoCall,
                     !.got = [t \in Targets |-> IF t \in AskedOf(c) THEN calls[c].out[t] ELSE @[t]]]
  /\ UNCHANGED <<clock, disk, server, faults>>

(* stop() while the first write is awaited: nothing will be sent. *)
Stop ==
  /\ pass.pc = "write" /\ ~pass.aborted /\ pass.todo \subseteq Fragile /\ Fault
  /\ pass' = [pass EXCEPT !.aborted = TRUE]
  /\ UNCHANGED <<clock, disk, calls, server>>

(* A timeout, a reset connection or stop() ends the wait, not the request. *)
GiveUp(stop) ==
  /\ pass.pc = "await" /\ AskedOf(pass.call) \subseteq Fragile
  /\ Fault
  /\ pass' = [pass EXCEPT !.pc = "dispatch", !.call = NoCall, !.aborted = stop,
                !.got = [t \in Targets |-> IF t \in AskedOf(pass.call) THEN "ambiguous" ELSE @[t]]]
  /\ \E arrives \in BOOLEAN :
       /\ arrives \/ calls[pass.call].pc = "sent"
       /\ calls' = IF arrives THEN calls ELSE [calls EXCEPT ![pass.call] = IdleCall]
  /\ UNCHANGED <<clock, disk, server>>

(* What an outcome makes of a target's cursor. *)
IsAmbiguous(o) == o \in {"timed_out", "in_flight", "uncertain", "ambiguous"}
MutInFlightIsDone(o) == o \in {"succeeded", "duplicate", "in_flight"}
IsProof(o) == o \in {"succeeded", "duplicate"}

MutMoveOn(s, o) ==
  [s EXCEPT !.pending = IF s.seen > s.pending THEN s.seen ELSE s.pending, !.tried = TRUE,
            !.mode = IF s.seen > s.pending \/ ~IsAmbiguous(o) THEN "execute" ELSE "reconcile"]
MutReconcileAll(s, o) == [s EXCEPT !.tried = TRUE, !.mode = "reconcile"]
Kept(s, o) ==
  [s EXCEPT !.tried = TRUE,
            !.mode = CASE IsAmbiguous(o) -> "reconcile" [] o = "stale" -> s.mode
                       [] OTHER -> "execute"]

MutNextFire(s, o) ==
  IF o = "none" THEN s
  ELSE IF IsProof(o)
  THEN [s EXCEPT !.succ = s.pending, !.pending = s.pending + 1, !.tried = FALSE, !.mode = "execute"]
  ELSE Kept(s, o)
After(s, o) ==
  IF o = "none" THEN s
  ELSE IF IsProof(o)
  THEN [s EXCEPT !.succ = s.pending, !.pending = IF s.seen > s.pending THEN s.seen ELSE 0,
                 !.tried = FALSE, !.mode = "execute"]
  ELSE Kept(s, o)

(* All outcomes are committed in one write. *)
Commit ==
  LET after == [t \in Targets |-> After(pass.before[t], pass.got[t])]
      tried == {t \in Targets : pass.got[t] # "none"}
  IN  /\ pass.pc = "dispatch" /\ pass.todo = {}
      /\ file' = after
      /\ waiting' = (waiting \ tried) \cup {t \in tried : after[t].tried}
      /\ pass' = NoPass
      /\ UNCHANGED <<clock, lost, calls, server, faults>>

(* The process dies, or a write of the file fails and ends the pass. *)
EndPass ==
  /\ pass.pc # "idle" /\ Fault
  /\ pass.pc = "await" => AskedOf(pass.call) \subseteq Fragile
  /\ pass' = NoPass
  /\ UNCHANGED <<clock, disk, calls, server>>

(* The file is unreadable at the next pass and is quarantined, or is gone. *)
LoseFile ==
  /\ pass.pc = "idle" /\ Fault
  /\ file' = [t \in Targets |-> emptyTargetState] /\ waiting' = {} /\ lost' = TRUE
  /\ UNCHANGED <<clock, pass, calls, server>>

-----------------------------------------------------------------------------
(* The clock and the disk. *)

FallDue(t) ==
  /\ due[t] < MaxBoundary /\ due' = [due EXCEPT ![t] = @ + 1]
  /\ UNCHANGED <<disk, pass, manifest, calls, server, faults>>

SetClockBack(t) ==
  /\ due[t] > 1 /\ Fault /\ due' = [due EXCEPT ![t] = @ - 1]
  /\ UNCHANGED <<disk, pass, manifest, calls, server>>

RetryIsDue(t) ==
  /\ t \in waiting /\ waiting' = waiting \ {t}
  /\ UNCHANGED <<clock, file, lost, pass, calls, server, faults>>

(* A new bundle is put in place under the running runtime. *)
Deploy ==
  /\ Fragile = Targets /\ manifest = active /\ Fault /\ manifest' = manifest + 1
  /\ UNCHANGED <<due, disk, pass, calls, server>>

-----------------------------------------------------------------------------
(* The runtime. *)

KeyOf(c, t) == <<t, calls[c].ask[t].boundary>>
AskedFor(c, mode) == {t \in Targets : calls[c].ask[t].mode = mode}
Told(c, out) == [calls EXCEPT ![c].pc = "replied", ![c].out = out]
Refusal(c, o) == [t \in Targets |-> IF t \in AskedOf(c) THEN o ELSE "none"]

(* What a request learns of a row it does not claim. *)
Report(status) == CASE status = "succeeded" -> "duplicate"
                    [] status = "running"   -> "in_flight"
                    [] OTHER                -> status

(* The authority check, then inspectMany: a reconciled key without a row   *)
(* makes the whole request fail.                                           *)
Inspect(c) ==
  LET unclaimed == {t \in AskedFor(c, "reconcile") : rows[KeyOf(c, t)] = "new"}
  IN  /\ calls[c].pc = "sent"
      /\ calls' = IF calls[c].gen # active THEN Told(c, Refusal(c, "stale"))
                  ELSE IF unclaimed # {} THEN Told(c, Refusal(c, "ambiguous"))
                  ELSE [calls EXCEPT ![c].pc = "claim",
                          ![c].out = [t \in Targets |-> IF t \in AskedFor(c, "reconcile")
                                        THEN Report(rows[KeyOf(c, t)]) ELSE "none"]]
      /\ UNCHANGED <<clock, disk, pass, server, faults>>

(* claimMany: a new key, or one whose last attempt was settled as failed. *)
MutTakeLapsed(status) == status \in {"new", "failed", "uncertain"}
IsClaimable(status) == status \in {"new", "failed"}

Claimed(c) == {t \in AskedFor(c, "execute") : IsClaimable(rows[KeyOf(c, t)])}
WithClaims(c) ==
  [k \in Keys |-> IF \E t \in Claimed(c) : k = KeyOf(c, t) THEN "running" ELSE rows[k]]

Claim(c) ==
  /\ calls[c].pc = "claim"
  /\ rows' = WithClaims(c)
  /\ hands' = [k \in Keys |-> IF \E t \in Claimed(c) : k = KeyOf(c, t) THEN "live" ELSE hands[k]]
  /\ calls' = [calls EXCEPT ![c].pc = "run", ![c].mine = Claimed(c),
                 ![c].out = [t \in Targets |-> IF t \in AskedFor(c, "execute") \ Claimed(c)
                               THEN Report(rows[KeyOf(c, t)]) ELSE @[t]]]
  /\ UNCHANGED <<clock, disk, pass, active, done, failures, faults>>

(* Handlers end at any time; the promise itself settles nothing. *)
HandlerEnds(k, ok) ==
  /\ hands[k] \in {"live", "orphan"}
  /\ ok \/ failures < MaxFailures
  /\ failures' = IF ok THEN failures ELSE failures + 1
  /\ done' = [done EXCEPT ![k] = IF ok THEN @ + 1 ELSE @]
  /\ hands' = [hands EXCEPT ![k] = IF @ = "orphan" THEN "none" ELSE IF ok THEN "ok" ELSE "bad"]
  /\ UNCHANGED <<clock, disk, pass, active, calls, rows, faults>>

Ended(k) == hands[k] \in {"ok", "bad"}
SettledRows(K) ==
  [k \in Keys |-> IF k \notin K THEN rows[k]
                 ELSE IF hands[k] = "ok" THEN "succeeded" ELSE "failed"]
Settled(K) ==
  /\ rows' = SettledRows(K)
  /\ hands' = [k \in Keys |-> IF k \in K THEN "none" ELSE hands[k]]
MineOf(c) == {KeyOf(c, t) : t \in calls[c].mine}

(* Each handler has ended or timed out: settleMany, then the response.     *)
(* Handlers that timed out go on, to be settled late.                      *)
Reply(c) ==
  /\ calls[c].pc = "run"
  /\ Settled({k \in MineOf(c) : Ended(k)})
  /\ calls' = Told(c, [t \in Targets |->
                 IF t \notin calls[c].mine THEN calls[c].out[t]
                 ELSE CASE hands[KeyOf(c, t)] = "ok"  -> "succeeded"
                        [] hands[KeyOf(c, t)] = "bad" -> "failed"
                        [] OTHER                      -> "timed_out"])
  /\ UNCHANGED <<clock, disk, pass, active, done, failures, faults>>

SettleLate(k) ==
  /\ Ended(k) /\ \A c \in Calls : k \notin MineOf(c) \/ calls[c].pc # "run"
  /\ Settled({k})
  /\ UNCHANGED <<clock, disk, pass, active, calls, done, failures, faults>>

(* A statement of claimMany or settleMany rejects, before its effect or    *)
(* after: 503, and nobody will settle what the request has claimed and not *)
(* settled, handlers that go on after their timeout included.              *)
StoreFails(c) ==
  /\ AskedOf(c) \subseteq Fragile /\ Fault
  /\ calls' = Told(c, Refusal(c, "ambiguous"))
  /\ \/ /\ calls[c].pc = "claim"
        /\ rows' \in {rows, WithClaims(c)}
        /\ UNCHANGED hands
     \/ /\ calls[c].pc = "run" /\ \A k \in MineOf(c) : hands[k] # "none"
        /\ rows' \in {rows, SettledRows({k \in MineOf(c) : Ended(k)})}
        /\ hands' = [k \in Keys |-> IF k \notin MineOf(c) THEN hands[k]
                                  ELSE IF hands[k] = "live" THEN "orphan" ELSE "none"]
  /\ UNCHANGED <<clock, disk, pass, active, done, failures>>

(* A claim's lease ends before its settlement; the next wake's prune or    *)
(* claim concludes it.                                                     *)
Lapse(k) ==
  /\ rows[k] = "running" /\ k[1] \in Fragile /\ Fault
  /\ rows' = [rows EXCEPT ![k] = "uncertain"]
  /\ UNCHANGED <<clock, disk, pass, active, calls, hands, done, failures>>

(* The runtime dies, with its requests and its handlers, and is started    *)
(* again from the bundle on disk.                                          *)
Restart ==
  /\ Fragile = Targets /\ Fault
  /\ active' = manifest
  /\ calls' = [c \in Calls |-> IdleCall]
  /\ hands' = [k \in Keys |-> "none"]
  /\ pass' = IF pass.pc # "await" THEN pass
             ELSE [pass EXCEPT !.pc = "dispatch", !.call = NoCall,
                     !.got = [t \in Targets |-> IF t \in AskedOf(pass.call) THEN "ambiguous" ELSE @[t]]]
  /\ UNCHANGED <<clock, disk, rows, done, failures>>

-----------------------------------------------------------------------------
Next ==
  \/ BeginPass \/ WriteBefore \/ Dispatch \/ SkipAborted \/ Stop \/ Commit
  \/ \E stop \in BOOLEAN : GiveUp(stop)
  \/ EndPass \/ LoseFile \/ Deploy \/ Restart
  \/ \E t \in Targets : FallDue(t) \/ SetClockBack(t) \/ RetryIsDue(t)
  \/ \E c \in Calls : Receive(c) \/ Inspect(c) \/ Claim(c) \/ Reply(c) \/ StoreFails(c)
  \/ \E k \in Keys : \/ \E ok \in BOOLEAN : HandlerEnds(k, ok)
                     \/ SettleLate(k) \/ Lapse(k)

Spec == Init /\ [][Next]_vars

(* The supervisor's timer re-arms after every pass, retries fall due, the  *)
(* runtime serves what reaches it, and handlers end.                       *)
Fairness ==
  /\ WF_vars(BeginPass) /\ WF_vars(WriteBefore) /\ WF_vars(Dispatch)
  /\ WF_vars(SkipAborted) /\ WF_vars(Commit)
  /\ \A t \in Targets : WF_vars(RetryIsDue(t))
  /\ \A c \in Calls : WF_vars(Receive(c)) /\ WF_vars(Inspect(c)) /\ WF_vars(Claim(c))
                      /\ WF_vars(Reply(c))
  /\ \A k \in Keys : WF_vars(HandlerEnds(k, TRUE)) /\ WF_vars(SettleLate(k))

FairSpec == Spec /\ Fairness
-----------------------------------------------------------------------------
(* Properties. *)

(* Types: what the file, the pass, the requests and the table range over. *)
TypeOK ==
  /\ due \in [Targets -> Boundaries]
  /\ file \in [Targets -> TargetState] /\ waiting \subseteq Targets
  /\ pass \in Pass /\ calls \in [Calls -> Call]
  /\ manifest \in Nat /\ active \in Nat
  /\ rows \in [Keys -> Status] /\ hands \in [Keys -> Hand]
  /\ done \in [Keys -> Nat] /\ faults \in 0..MaxFaults /\ failures \in 0..MaxFailures
  /\ lost \in BOOLEAN

(* What validateSelfHostScheduleState demands of a target.  A state that   *)
(* broke it would end every pass in the write, or, on disk, be quarantined *)
(* and forgotten.  It has to survive a clock that is set back.             *)
IsValid(s) ==
  /\ s.pending = 0 => ~s.tried
  /\ s.pending # 0 => s.pending > s.succ /\ s.seen >= s.pending
  /\ s.succ # 0 => s.seen >= s.succ
FileStaysValid == \A t \in Targets : IsValid(file[t]) /\ IsValid(pass.before[t])

(* The cursor moves past a boundary only when the handler of exactly that  *)
(* boundary has completed, whatever was given up, lost, replayed or        *)
(* settled late on the way.                                                *)
CursorIsTrue == \A t \in Targets : file[t].succ # 0 => done[<<t, file[t].succ>>] = 1

(* A boundary whose execution was begun is not abandoned for a later one   *)
(* before it is known to have succeeded, unless the file was lost.         *)
BegunIsPursued ==
  \A t \in Targets, b \in Boundaries :
    rows[<<t, b>>] \in {"running", "uncertain", "failed"} /\ ~lost => file[t].pending = b

(* Nothing but the loss of the file moves a cursor back, though the clock  *)
(* may have been set back when the pass began.                             *)
CursorAdvances == [][\A t \in Targets : file'[t].succ >= file[t].succ \/ lost']_vars

(* The table under the supervisor's retries, replays and reconciliations   *)
(* keeps the promise of DeliveryLedger: no completed handler runs again.   *)
Ledger == INSTANCE DeliveryLedger WITH state <- rows, done <- done
ImplementsLedger == Ledger!Spec

(* Every boundary that a target's clock reaches is delivered or superseded *)
(* by a later one that is, as long as nothing but handlers fails.          *)
DueIsDelivered ==
  \A t \in Targets, b \in Boundaries :
    due[t] >= b ~> file[t].succ >= b \/ faults > 0

(* "One ambiguous target therefore cannot block safe siblings or their     *)
(* later boundaries": what is observed as due for a target whose requests  *)
(* are all answered is delivered, even if one for another target was lost. *)
SafeSiblingsGoOn ==
  \A t \in Targets \ Fragile, b \in Boundaries : file[t].seen >= b ~> file[t].succ >= b
=============================================================================
