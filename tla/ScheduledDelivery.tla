------------------------- MODULE ScheduledDelivery -------------------------
(***************************************************************************)
(* Durable delivery of scheduled functions:                                *)
(* packages/server/src/lib/scheduled-delivery.ts, driven by                *)
(* packages/server/src/lib/managed-scheduled-runtime.ts.                   *)
(*                                                                         *)
(* A wake is one call of executeManagedScheduledEnvelopes.  Any number of  *)
(* wakes may name the same delivery key <<cron, scheduledTime, itemId>>,   *)
(* one after the other or at the same time.  They meet only in the D1      *)
(* table _scheduled_delivery_items; each db.batch is one transaction, and  *)
(* everything between two batches interleaves.                             *)
(***************************************************************************)
EXTENDS Integers, FiniteSets

CONSTANTS
  Keys,          \* delivery keys
  Wakes,         \* wakes that can be under way at the same time
  SystemKeys,    \* keys of the "system" lane: executing one prunes first
  SchedAt,       \* [Keys -> Nat]: the scheduledTime of a key
  ChunkOf,       \* [Keys -> 1..NumChunks]: the DB chunk a key falls into
  NumChunks,
  HandlerSlots,  \* SCHEDULED_DELIVERY_HANDLER_CONCURRENCY
  TimeoutMs, LeaseMs, RetentionMs,
  PruneLimit,    \* SCHEDULED_DELIVERY_PRUNE_LIMIT
  Redelivery,    \* a key is delivered at SchedAt[k] .. SchedAt[k]+Redelivery
  Lifetime,      \* the platform ends a wake, handlers included, by this age
  MaxFailures,   \* bound: from this attempt on a handler no longer fails
  MaxTime        \* bound on the clock

ASSUME KeysAssumption ==
  /\ IsFiniteSet(Keys)
  /\ SystemKeys \subseteq Keys
  /\ NumChunks \in Nat \ {0}
  /\ SchedAt \in [Keys -> Nat]
  /\ ChunkOf \in [Keys -> 1..NumChunks]

(* leaseMs > timeoutMs is checked by executeScheduledDeliveries.  That a    *)
(* row outlives every redelivery of its key is what the 30 day retention   *)
(* is for; nothing in the code checks it.                                  *)
ASSUME TimeAssumption ==
  /\ TimeoutMs \in Nat \ {0} /\ LeaseMs \in Nat /\ LeaseMs > TimeoutMs
  /\ RetentionMs \in Nat /\ Redelivery \in Nat /\ Lifetime \in Nat
  /\ RetentionMs >= Redelivery + Lifetime
  /\ HandlerSlots \in Nat \ {0} /\ PruneLimit \in Nat \ {0}
  /\ MaxFailures \in Nat /\ MaxTime \in Nat

VARIABLES
  clock,    \* Date.now()
  rows,     \* [Keys -> Row]: _scheduled_delivery_items
  pc,       \* [Wakes -> phase]
  born,     \* [Wakes -> time the wake began]
  at,       \* [Wakes -> the `now` captured for the store call under way]
  mode,     \* [Wakes -> [Keys -> Modes]]: what the wake was asked to do
  chunk,    \* [Wakes -> number of the chunk being processed]
  claim,    \* [Wakes -> [Keys -> ClaimStates]]: claimsByKey and its worklists
  att,      \* [Wakes -> [Keys -> attempt loaded or claimed]]
  hand,     \* [Wakes -> [Keys -> HandlerStates]]
  mark,     \* [Wakes -> [Keys -> time the handler started, then ended]]
  outcome,  \* [Wakes -> [Keys -> ScheduledDeliveryOutcome.status]]
  succ      \* [Keys -> number of handler runs that completed] (history)

local == <<pc, born, at, mode, chunk, claim, att, hand, mark, outcome>>
vars == <<clock, rows, pc, born, at, mode, chunk, claim, att, hand, mark,
          outcome, succ>>

Null == -1

Modes == {"none", "execute", "reconcile"}
RowStatus == {"absent", "running", "succeeded", "failed", "timed_out", "uncertain"}
Phases == {"idle", "migrate", "prune", "chunk", "inspectPrune", "inspectLoad", "claim",
           "insert", "load", "expire", "expireReload", "retry", "retryReload",
           "run", "done", "thrown"}
ClaimStates == {"none", "unresolved", "expired", "retry", "raced", "claimed",
                "refused"}
HandlerStates == {"none", "live", "ok", "err", "late", "lateOk", "lateErr",
                  "settled"}
Outcomes == {"none", "succeeded", "failed", "timed_out", "duplicate",
             "in_flight", "uncertain"}

(* A handler is running while "live" (still awaited) or "late" (its timer   *)
(* fired, its promise goes on); an attempt is open until it is settled.     *)
Running == {"live", "late"}
OpenHandler == {"live", "ok", "err", "late", "lateOk", "lateErr"}

Row == [status: RowStatus, attempt: Nat,
        leaseAt: Nat \cup {Null}, settledAt: Nat \cup {Null}]
NoRow == [status |-> "absent", attempt |-> 0,
          leaseAt |-> Null, settledAt |-> Null]

NoneFor(v) == [k \in Keys |-> v]

----------------------------------------------------------------------------
(* SQL of the store                                                         *)

(* Mutant: an attempt whose lease lapsed is run again. *)
RetryUncertain(status) == status \in {"failed", "uncertain"}

shouldRetryScheduledDelivery(status) == status = "failed"

NewRow(now) ==
  [status |-> "running", attempt |-> 1,
   leaseAt |-> now + LeaseMs, settledAt |-> Null]

RetriedRow(r, now) ==
  [status |-> "running", attempt |-> r.attempt + 1,
   leaseAt |-> now + LeaseMs, settledAt |-> Null]

(* Mutant: a lapsed lease counts as a failure. *)
LapseIsFailure(r, now) ==
  [r EXCEPT !.status = "failed", !.settledAt = now, !.leaseAt = Null]

ExpiredRow(r, now) ==
  [r EXCEPT !.status = "uncertain", !.settledAt = now, !.leaseAt = Null]

SettledRow(r, status, when) ==
  [r EXCEPT !.status = status, !.settledAt = when, !.leaseAt = Null]

LeaseExpired(r, now) ==
  r.status = "running" /\ r.leaseAt # Null /\ r.leaseAt <= now

(* Mutant: a settlement that comes after the lease is refused. *)
SettleOnlyRunning(r, attempt) == r.status = "running" /\ r.attempt = attempt

(* WHERE clause of settleMany's UPDATE *)
SettleMatches(r, attempt) ==
  r.status \in {"running", "uncertain"} /\ r.attempt = attempt

(* Mutant: the retry does not compare the attempt it loaded. *)
RetryAnyAttempt(r, attempt) == r.status \in {"failed", "timed_out", "uncertain"}

(* WHERE clause of claimMany's retry UPDATE *)
RetryMatches(r, attempt) ==
  r.attempt = attempt /\ r.status \in {"failed", "timed_out", "uncertain"}

(* ORDER BY field ASC LIMIT PruneLimit over the eligible rows *)
OldestFirst(S, eligible, field) ==
  /\ S \subseteq eligible
  /\ S = eligible \/ Cardinality(S) = PruneLimit
  /\ Cardinality(S) <= PruneLimit
  /\ \A x \in S, y \in eligible \ S : field[x] <= field[y]

(* Mutant: every settled row is past its retention. *)
NoRetention(now) == now

(* cutoff of prune *)
Cutoff(now) == now - RetentionMs

(* prune(now): mark expired leases, then delete what settled before the     *)
(* retention cutoff; one batch.                                             *)
Marked(lost, now) ==
  [k \in Keys |-> IF k \in lost THEN ExpiredRow(rows[k], now) ELSE rows[k]]

prune(now) ==
  \E lost \in SUBSET Keys, gone \in SUBSET Keys :
    /\ OldestFirst(lost, {k \in Keys : LeaseExpired(rows[k], now)},
                   [k \in Keys |-> rows[k].leaseAt])
    /\ OldestFirst(gone, {k \in Keys :
                            /\ Marked(lost, now)[k].status \notin {"absent", "running"}
                            /\ Marked(lost, now)[k].settledAt < Cutoff(now)},
                   [k \in Keys |-> Marked(lost, now)[k].settledAt])
    /\ rows' = [k \in Keys |-> IF k \in gone THEN NoRow ELSE Marked(lost, now)[k]]

(* Mutant: running rows are reported by their own status. *)
ReportAsIs(status) == IF status = "succeeded" THEN "duplicate" ELSE status
(* Mutant: any row at all makes the delivery a duplicate. *)
AnyRowIsDuplicate(status) == "duplicate"

(* The outcome status reported for a row the wake did not claim. *)
OutcomeOf(status) ==
  CASE status = "succeeded" -> "duplicate"
    [] status = "running"   -> "in_flight"
    [] OTHER                -> status

----------------------------------------------------------------------------
Init ==
  /\ clock = 0
  /\ rows = NoneFor(NoRow)
  /\ pc = [w \in Wakes |-> "idle"]
  /\ born = [w \in Wakes |-> 0]
  /\ at = [w \in Wakes |-> 0]
  /\ mode = [w \in Wakes |-> NoneFor("none")]
  /\ chunk = [w \in Wakes |-> 1]
  /\ claim = [w \in Wakes |-> NoneFor("none")]
  /\ att = [w \in Wakes |-> NoneFor(0)]
  /\ hand = [w \in Wakes |-> NoneFor("none")]
  /\ mark = [w \in Wakes |-> NoneFor(0)]
  /\ outcome = [w \in Wakes |-> NoneFor("none")]
  /\ succ = NoneFor(0)

Goto(w, phase) == pc' = [pc EXCEPT ![w] = phase]

(* Everything the wake holds in memory is gone. *)
Forget(w) ==
  /\ Goto(w, "idle")
  /\ mode' = [mode EXCEPT ![w] = NoneFor("none")]
  /\ chunk' = [chunk EXCEPT ![w] = 1]
  /\ claim' = [claim EXCEPT ![w] = NoneFor("none")]
  /\ att' = [att EXCEPT ![w] = NoneFor(0)]
  /\ hand' = [hand EXCEPT ![w] = NoneFor("none")]
  /\ mark' = [mark EXCEPT ![w] = NoneFor(0)]
  /\ outcome' = [outcome EXCEPT ![w] = NoneFor("none")]
  /\ born' = [born EXCEPT ![w] = 0]
  /\ at' = [at EXCEPT ![w] = 0]

(* The keys of the wake's current chunk with the given mode / claim state. *)
InChunk(w) == {k \in Keys : ChunkOf[k] = chunk[w]}
Reconciled(w) == {k \in InChunk(w) : mode[w][k] = "reconcile"}
Executed(w) == {k \in InChunk(w) : mode[w][k] = "execute"}
With(w, c) == {k \in Executed(w) : claim[w][k] = c}

----------------------------------------------------------------------------
(* The wake                                                                 *)

(* A provider or the self-host supervisor calls                             *)
(* executeManagedScheduledEnvelopes with the targets in m.                  *)
Begin(w, m) ==
  /\ pc[w] = "idle"
  /\ \E k \in Keys : m[k] # "none"
  /\ \A k \in Keys : m[k] # "none" =>
        /\ SchedAt[k] <= clock
        /\ clock <= SchedAt[k] + Redelivery
  /\ mode' = [mode EXCEPT ![w] = m]
  /\ born' = [born EXCEPT ![w] = clock]
  /\ at' = [at EXCEPT ![w] = clock]
  /\ Goto(w, "migrate")
  /\ UNCHANGED <<clock, rows, chunk, claim, att, hand, mark, outcome, succ>>

(* Plugin migrations are done (or there were none): a wake that executes a  *)
(* system target prunes first.                                              *)
Migrated(w) ==
  /\ pc[w] = "migrate"
  /\ at' = [at EXCEPT ![w] = clock]
  /\ Goto(w, IF \E k \in SystemKeys : mode[w][k] = "execute" THEN "prune" ELSE "chunk")
  /\ UNCHANGED <<clock, rows, born, mode, chunk, claim, att, hand, mark, outcome,
                 succ>>

PruneStep(w) ==
  /\ \/ pc[w] = "prune" /\ Goto(w, "chunk")
     \/ pc[w] = "inspectPrune" /\ Goto(w, "inspectLoad")
  /\ prune(at[w])
  /\ UNCHANGED <<clock, born, at, mode, chunk, claim, att, hand, mark, outcome,
                 succ>>

(* Head of the chunk loop, then of its executable part: now() is read, and  *)
(* used only when the store call that follows gets to the database.         *)
NextChunk(w) ==
  /\ pc[w] = "chunk"
  /\ at' = [at EXCEPT ![w] = clock]
  /\ Goto(w, IF chunk[w] > NumChunks THEN "done"
             ELSE IF Reconciled(w) # {} THEN "inspectPrune" ELSE "claim")
  /\ UNCHANGED <<clock, rows, born, mode, chunk, claim, att, hand, mark,
                 outcome, succ>>

(* inspectMany's load: a key without a row makes the wake throw. *)
InspectLoad(w) ==
  /\ pc[w] = "inspectLoad"
  /\ \A k \in Reconciled(w) : rows[k].status # "absent"
  /\ outcome' = [outcome EXCEPT ![w] = [k \in Keys |->
        IF k \in Reconciled(w) THEN OutcomeOf(rows[k].status) ELSE @[k]]]
  /\ Goto(w, "claim")
  /\ UNCHANGED <<clock, rows, born, at, mode, chunk, claim, att, hand, mark, succ>>

StartClaim(w) ==
  /\ pc[w] = "claim"
  /\ IF Executed(w) = {}
       THEN /\ chunk' = [chunk EXCEPT ![w] = @ + 1]
            /\ Goto(w, "chunk")
            /\ UNCHANGED at
       ELSE /\ at' = [at EXCEPT ![w] = clock]
            /\ Goto(w, "insert")
            /\ UNCHANGED chunk
  /\ UNCHANGED <<clock, rows, born, mode, claim, att, hand, mark, outcome, succ>>

----------------------------------------------------------------------------
(* claimMany                                                                *)

(* Where claimMany goes on: expired leases, then retries, then the wake     *)
(* runs what it claimed.                                                    *)
AfterLoad(c) ==
  IF \E k \in Keys : c[k] = "expired" THEN "expire"
  ELSE IF \E k \in Keys : c[k] = "retry" THEN "retry" ELSE "run"

(* INSERT OR IGNORE ... RETURNING *)
Insert(w) ==
  /\ pc[w] = "insert"
  /\ LET new == {k \in Executed(w) : rows[k].status = "absent"}
     IN /\ rows' = [k \in Keys |-> IF k \in new THEN NewRow(at[w]) ELSE rows[k]]
        /\ claim' = [claim EXCEPT ![w] = [k \in Keys |->
              IF k \in new THEN "claimed"
              ELSE IF k \in Executed(w) THEN "unresolved" ELSE "none"]]
        /\ att' = [att EXCEPT ![w] = [k \in Keys |-> IF k \in new THEN 1 ELSE @[k]]]
        /\ Goto(w, IF new = Executed(w) THEN "run" ELSE "load")
  /\ UNCHANGED <<clock, born, at, mode, chunk, hand, mark, outcome, succ>>

(* loadMany(unresolved) and the loop that sorts what it returns. *)
Load(w) ==
  /\ pc[w] = "load"
  /\ LET U == With(w, "unresolved")
         sorted == [k \in Keys |->
            CASE k \notin U -> claim[w][k]
              [] k \in U /\ LeaseExpired(rows[k], at[w]) -> "expired"
              [] k \in U /\ shouldRetryScheduledDelivery(rows[k].status) -> "retry"
              [] OTHER -> "refused"]
     IN /\ \A k \in U : rows[k].status # "absent"
        /\ claim' = [claim EXCEPT ![w] = sorted]
        /\ att' = [att EXCEPT ![w] = [k \in Keys |->
              IF k \in U THEN rows[k].attempt ELSE @[k]]]
        /\ outcome' = [outcome EXCEPT ![w] = [k \in Keys |->
              IF k \in U /\ sorted[k] = "refused" THEN OutcomeOf(rows[k].status)
                                                  ELSE @[k]]]
        /\ Goto(w, AfterLoad(sorted))
  /\ UNCHANGED <<clock, rows, born, at, mode, chunk, hand, mark, succ>>

(* UPDATE ... SET status = 'uncertain' of the leases seen expired. *)
Expire(w) ==
  /\ pc[w] = "expire"
  /\ LET hit == {k \in With(w, "expired") : /\ LeaseExpired(rows[k], at[w])
                                            /\ rows[k].attempt = att[w][k]}
         resolved == [k \in Keys |->
            CASE k \in hit -> "refused"
              [] k \in With(w, "expired") \ hit -> "raced"
              [] OTHER -> claim[w][k]]
     IN /\ rows' = [k \in Keys |-> IF k \in hit THEN ExpiredRow(rows[k], at[w])
                                               ELSE rows[k]]
        /\ claim' = [claim EXCEPT ![w] = resolved]
        /\ outcome' = [outcome EXCEPT ![w] = [k \in Keys |->
              IF k \in hit THEN "uncertain" ELSE @[k]]]
        /\ Goto(w, IF \E k \in Keys : resolved[k] = "raced" THEN "expireReload"
                                                           ELSE AfterLoad(resolved))
  /\ UNCHANGED <<clock, born, at, mode, chunk, att, hand, mark, succ>>

(* UPDATE ... SET status = 'running', attempt = attempt + 1 of the failures.*)
Retry(w) ==
  /\ pc[w] = "retry"
  /\ LET hit == {k \in With(w, "retry") : RetryMatches(rows[k], att[w][k])}
         resolved == [k \in Keys |->
            CASE k \in hit -> "claimed"
              [] k \in With(w, "retry") \ hit -> "raced"
              [] OTHER -> claim[w][k]]
     IN /\ rows' = [k \in Keys |-> IF k \in hit THEN RetriedRow(rows[k], at[w])
                                               ELSE rows[k]]
        /\ claim' = [claim EXCEPT ![w] = resolved]
        /\ att' = [att EXCEPT ![w] = [k \in Keys |->
              IF k \in hit THEN @[k] + 1 ELSE @[k]]]
        /\ Goto(w, IF \E k \in Keys : resolved[k] = "raced" THEN "retryReload"
                                                           ELSE "run")
  /\ UNCHANGED <<clock, born, at, mode, chunk, hand, mark, outcome, succ>>

(* loadMany(raced): whoever won the race decides the outcome. *)
Reload(w) ==
  /\ pc[w] \in {"expireReload", "retryReload"}
  /\ LET R == With(w, "raced")
         resolved == [k \in Keys |-> IF k \in R THEN "refused" ELSE claim[w][k]]
     IN /\ \A k \in R : rows[k].status # "absent"
        /\ claim' = [claim EXCEPT ![w] = resolved]
        /\ outcome' = [outcome EXCEPT ![w] = [k \in Keys |->
              IF k \in R THEN OutcomeOf(rows[k].status) ELSE @[k]]]
        /\ Goto(w, AfterLoad(resolved))
  /\ UNCHANGED <<clock, rows, born, at, mode, chunk, att, hand, mark, succ>>

----------------------------------------------------------------------------
(* runClaimedItem and settleMany                                            *)

(* Mutant: a handler that timed out keeps its slot. *)
LateKeepsSlot(w, k) ==
  /\ pc[w] = "run"
  /\ k \in With(w, "claimed") /\ hand[w][k] = "none"
  /\ Cardinality({j \in Keys : hand[w][j] \in Running}) < HandlerSlots
  /\ hand' = [hand EXCEPT ![w][k] = "live"]
  /\ mark' = [mark EXCEPT ![w][k] = clock]
  /\ UNCHANGED <<clock, rows, pc, born, at, mode, chunk, claim, att, outcome, succ>>

StartHandler(w, k) ==
  /\ pc[w] = "run"
  /\ k \in With(w, "claimed") /\ hand[w][k] = "none"
  /\ Cardinality({j \in Keys : hand[w][j] = "live"}) < HandlerSlots
  /\ hand' = [hand EXCEPT ![w][k] = "live"]
  /\ mark' = [mark EXCEPT ![w][k] = clock]
  /\ UNCHANGED <<clock, rows, pc, born, at, mode, chunk, claim, att, outcome, succ>>

(* The handler's promise settles, before or after its timer. *)
EndHandler(w, k, ok) ==
  /\ hand[w][k] \in Running
  /\ ok \/ att[w][k] <= MaxFailures
  /\ hand' = [hand EXCEPT ![w][k] =
        CASE @ = "live" /\ ok  -> "ok"
          [] @ = "live" /\ ~ok -> "err"
          [] @ = "late" /\ ok  -> "lateOk"
          [] OTHER             -> "lateErr"]
  /\ mark' = [mark EXCEPT ![w][k] = clock]
  /\ succ' = [succ EXCEPT ![k] = IF ok THEN @ + 1 ELSE @]
  /\ UNCHANGED <<clock, rows, pc, born, at, mode, chunk, claim, att, outcome>>

(* The timer wins the race; the claim stays running and the promise goes on.*)
TimeOut(w, k) ==
  /\ hand[w][k] = "live"
  /\ clock >= mark[w][k] + TimeoutMs
  /\ hand' = [hand EXCEPT ![w][k] = "late"]
  /\ UNCHANGED <<clock, rows, pc, born, at, mode, chunk, claim, att, mark,
                 outcome, succ>>

(* Mutant: a handler that outlived its timer is settled as failed. *)
LateIsFailure(h) == IF h = "ok" THEN "succeeded" ELSE "failed"
(* Mutant: the handler's error is swallowed. *)
ErrorSwallowed(h) == "succeeded"

SettledAs(h) == IF h \in {"ok", "lateOk"} THEN "succeeded" ELSE "failed"

(* Every claimed item of the chunk has returned or timed out: one batch     *)
(* settles the ones that returned, then the late ones are attached, then    *)
(* the loop goes on with the next chunk.  settleMany throws after its batch *)
(* when some UPDATE found no row, and so does a reply lost on the way.      *)
Settle(w) ==
  /\ pc[w] = "run"
  /\ \A k \in With(w, "claimed") : hand[w][k] \notin {"none", "live"}
  /\ LET S == {k \in With(w, "claimed") : hand[w][k] \in {"ok", "err"}}
         hit == {k \in S : SettleMatches(rows[k], att[w][k])}
     IN /\ rows' = [k \in Keys |->
              IF k \in hit THEN SettledRow(rows[k], SettledAs(hand[w][k]), mark[w][k])
                           ELSE rows[k]]
        /\ hand' = [hand EXCEPT ![w] = [k \in Keys |->
              IF k \in S THEN "settled" ELSE @[k]]]
        /\ \/ /\ hit = S
              /\ outcome' = [outcome EXCEPT ![w] = [k \in Keys |->
                    IF k \in S THEN SettledAs(hand[w][k])
                    ELSE IF k \in With(w, "claimed") THEN "timed_out" ELSE @[k]]]
              /\ chunk' = [chunk EXCEPT ![w] = @ + 1]
              /\ Goto(w, "chunk")
           \/ /\ S # {}
              /\ Goto(w, "thrown")
              /\ UNCHANGED <<outcome, chunk>>
  /\ UNCHANGED <<clock, born, at, mode, claim, att, mark, succ>>

(* lateSettlement.then(settleMany).catch(log): attached once the chunk of k *)
(* was settled, kept alive by waitUntil, on its own transaction.            *)
LateSettle(w, k) ==
  /\ hand[w][k] \in {"lateOk", "lateErr"}
  /\ ChunkOf[k] < chunk[w]
  /\ rows' = [rows EXCEPT ![k] =
        IF SettleMatches(@, att[w][k])
          THEN SettledRow(@, SettledAs(hand[w][k]), mark[w][k]) ELSE @]
  /\ hand' = [hand EXCEPT ![w][k] = "settled"]
  /\ UNCHANGED <<clock, pc, born, at, mode, chunk, claim, att, mark, outcome, succ>>

(* ... and the same call failing: the error is only logged. *)
LateSettleFails(w, k) ==
  /\ hand[w][k] \in {"lateOk", "lateErr"}
  /\ ChunkOf[k] < chunk[w]
  /\ hand' = [hand EXCEPT ![w][k] = "settled"]
  /\ UNCHANGED <<clock, rows, pc, born, at, mode, chunk, claim, att, mark,
                 outcome, succ>>

----------------------------------------------------------------------------
(* Failures and the end of a wake                                           *)

(* A store call rejects, or finds that its row disappeared: the exception   *)
(* ends the call of executeScheduledDeliveries.  Handlers that timed out go *)
(* on by themselves.                                                        *)
Throw(w) ==
  /\ pc[w] \notin {"idle", "chunk", "claim", "done", "thrown"}
  /\ pc[w] = "run" =>
        /\ \A k \in With(w, "claimed") : hand[w][k] \notin {"none", "live"}
        /\ \E k \in With(w, "claimed") : hand[w][k] \in {"ok", "err"}
  /\ Goto(w, "thrown")
  /\ UNCHANGED <<clock, rows, born, at, mode, chunk, claim, att, hand, mark,
                 outcome, succ>>

(* The isolate dies; its handlers die with it. *)
Crash(w) ==
  /\ pc[w] # "idle"
  /\ Forget(w)
  /\ UNCHANGED <<clock, rows, succ>>

(* The call has returned or thrown and nothing it started is pending. *)
Retire(w) ==
  /\ pc[w] \in {"done", "thrown"}
  /\ \A k \in Keys : hand[w][k] \in OpenHandler =>
        hand[w][k] \in {"lateOk", "lateErr"} /\ ChunkOf[k] >= chunk[w]
  /\ Forget(w)
  /\ UNCHANGED <<clock, rows, succ>>

(* No wake outlives Lifetime: the platform has ended it before. *)
Tick ==
  /\ clock < MaxTime
  /\ \A w \in Wakes : pc[w] # "idle" => clock < born[w] + Lifetime
  /\ clock' = clock + 1
  /\ UNCHANGED <<rows, local, succ>>

Step(w) ==
  \/ \E m \in [Keys -> Modes] : Begin(w, m)
  \/ Migrated(w) \/ PruneStep(w) \/ NextChunk(w) \/ InspectLoad(w) \/ StartClaim(w)
  \/ Insert(w) \/ Load(w) \/ Expire(w) \/ Retry(w) \/ Reload(w)
  \/ \E k \in Keys : \/ StartHandler(w, k)
                     \/ \E ok \in BOOLEAN : EndHandler(w, k, ok)
                     \/ TimeOut(w, k) \/ LateSettle(w, k) \/ LateSettleFails(w, k)
  \/ Settle(w) \/ Throw(w) \/ Crash(w) \/ Retire(w)

Next == Tick \/ \E w \in Wakes : Step(w)

Spec == Init /\ [][Next]_vars

(* For liveness: the code's own steps take no time, so the clock moves only *)
(* while every wake waits for a handler or its timer.  No handler need ever *)
(* return, and no store call fail.                                          *)
Waiting(w) ==
  \/ pc[w] \in {"idle", "done", "thrown"}
  \/ /\ pc[w] = "run"
     /\ \E k \in Keys : hand[w][k] = "live"
     /\ \A k \in Keys : hand[w][k] = "live" => clock < mark[w][k] + TimeoutMs
     /\ \/ \A k \in With(w, "claimed") : hand[w][k] # "none"
        \/ Cardinality({k \in Keys : hand[w][k] = "live"}) = HandlerSlots

Progress(w) ==
  \/ Migrated(w) \/ PruneStep(w) \/ NextChunk(w) \/ InspectLoad(w) \/ StartClaim(w)
  \/ Insert(w) \/ Load(w) \/ Expire(w) \/ Retry(w) \/ Reload(w)
  \/ \E k \in Keys : StartHandler(w, k) \/ TimeOut(w, k)
  \/ Settle(w) \/ Throw(w)

TimelyTick == Tick /\ \A w \in Wakes : Waiting(w)
TimelyNext == TimelyTick \/ \E w \in Wakes : Step(w)

FairSpec ==
  /\ Init /\ [][TimelyNext]_vars
  /\ WF_vars(TimelyTick)
  /\ \A w \in Wakes : WF_vars(Progress(w))

----------------------------------------------------------------------------
(* Properties                                                               *)

(* Every variable has its type. *)
TypeOK ==
  /\ clock \in Nat
  /\ rows \in [Keys -> Row]
  /\ pc \in [Wakes -> Phases]
  /\ born \in [Wakes -> Nat]
  /\ at \in [Wakes -> Nat]
  /\ mode \in [Wakes -> [Keys -> Modes]]
  /\ chunk \in [Wakes -> 1..NumChunks + 1]
  /\ claim \in [Wakes -> [Keys -> ClaimStates]]
  /\ att \in [Wakes -> [Keys -> Nat]]
  /\ hand \in [Wakes -> [Keys -> HandlerStates]]
  /\ mark \in [Wakes -> [Keys -> Nat]]
  /\ outcome \in [Wakes -> [Keys -> Outcomes]]
  /\ succ \in [Keys -> Nat]

(* "can never admit a second mutation while this attempt may still be      *)
(* live" (scheduled-delivery.ts, runClaimedItem): two handlers of one key  *)
(* never run at the same time, whatever leases expire in between.          *)
OneHandlerPerKey ==
  \A k \in Keys : \A v, w \in Wakes :
    hand[v][k] \in Running /\ hand[w][k] \in Running => v = w

(* However often a key is redelivered, its handler completes successfully  *)
(* at most once.                                                           *)
AtMostOneSuccess == \A k \in Keys : succ[k] <= 1

(* settleMany never raises "settlement lost its running claim": an attempt *)
(* whose handler has started and is not yet settled still owns its row.    *)
SettlementFindsItsClaim ==
  \A w \in Wakes, k \in Keys :
    hand[w][k] \in OpenHandler => SettleMatches(rows[k], att[w][k])

(* What the table says about a key is what happened to it: "succeeded"     *)
(* rows had their handler complete, "failed" rows did not, so that the     *)
(* retry a failed row is given never repeats a completed run.              *)
RowTellsTheTruth ==
  \A k \in Keys : /\ rows[k].status = "succeeded" => succ[k] = 1
                  /\ rows[k].status = "failed" => succ[k] = 0

(* ScheduledDeliveryReport.complete *)
Complete(w) == \A k \in Keys :
  mode[w][k] # "none" => outcome[w][k] \in {"succeeded", "duplicate"}

(* A report that says complete is about items whose handler completed.     *)
CompleteReportIsTrue ==
  \A w \in Wakes : pc[w] = "done" /\ Complete(w) =>
    \A k \in Keys : mode[w][k] # "none" => succ[k] = 1

(* Handlers that hang do not hang the wake: its call always returns or      *)
(* throws, because every claimed item times out and frees its slot.         *)
WakeReturns ==
  \A w \in Wakes : pc[w] # "idle" ~> pc[w] \in {"idle", "done", "thrown"}

(* claimMany's retry UPDATE would accept a timed out or uncertain row; what*)
(* it starts again is nevertheless always a settled failure, one attempt   *)
(* later.                                                                  *)
RetryOnlyAfterFailure ==
  [][\A k \in Keys : rows'[k].attempt > rows[k].attempt =>
        \/ rows[k].status = "absent" /\ rows'[k].attempt = 1
        \/ rows[k].status = "failed" /\ rows'[k].attempt = rows[k].attempt + 1]_vars

(* A row is forgotten only when its key can no longer be delivered, so that*)
(* no redelivery finds the table empty and runs the item again.            *)
ForgottenOnlyWhenStale ==
  [][\A k \in Keys : rows[k].status # "absent" /\ rows'[k].status = "absent" =>
        /\ clock > SchedAt[k] + Redelivery
        /\ \A w \in Wakes : mode[w][k] = "none"]_vars

----------------------------------------------------------------------------
(* The ledger it implements                                                 *)

(* No wake can still deliver the key. *)
Stale(k) == clock > SchedAt[k] + Redelivery + Lifetime

Ledger == INSTANCE DeliveryLedger WITH
  state <- [k \in Keys |->
              IF rows[k].status = "absent"
                THEN IF Stale(k) THEN "retired" ELSE "new"
                ELSE rows[k].status],
  done <- succ

(* The table and the handlers behind it move along the ledger of           *)
(* DeliveryLedger: an absent row is a key that is new, or retired once its *)
(* window has passed.                                                      *)
ImplementsLedger == Ledger!Spec

----------------------------------------------------------------------------
(* The inductive invariant behind them                                      *)

(* The wake holds the running attempt of the key: claimed and not started,  *)
(* or started and not settled.                                              *)
Owns(w, k) ==
  \/ hand[w][k] \in OpenHandler
  \/ claim[w][k] = "claimed" /\ hand[w][k] = "none"

(* A wake that is under way lives within its lifetime and its keys' windows,*)
(* and works on the chunks there are.                                       *)
TimeInv ==
  \A w \in Wakes : pc[w] # "idle" => /\ born[w] <= at[w] /\ at[w] <= clock
                                     /\ clock <= born[w] + Lifetime
WindowInv ==
  \A w \in Wakes, k \in Keys :
    /\ mode[w][k] # "none" => /\ pc[w] # "idle"
                              /\ SchedAt[k] <= born[w]
                              /\ born[w] <= SchedAt[k] + Redelivery
    /\ claim[w][k] # "none" => mode[w][k] = "execute"
    /\ hand[w][k] # "none" => mode[w][k] = "execute" /\ SchedAt[k] <= mark[w][k]
ChunkInv ==
  \A w \in Wakes : chunk[w] > NumChunks => pc[w] \in {"chunk", "done", "thrown"}
WakeInv == TimeInv /\ WindowInv /\ ChunkInv

(* Settlement and lease times lie after the scheduled time; a timed out     *)
(* attempt stays running until its promise settles.                         *)
RowInv ==
  \A k \in Keys :
    /\ rows[k].status = "running" => /\ rows[k].leaseAt \in Nat
                                     /\ SchedAt[k] <= rows[k].leaseAt
    /\ rows[k].status \notin {"absent", "running"} =>
         /\ rows[k].settledAt \in Nat
         /\ SchedAt[k] <= rows[k].settledAt
    /\ rows[k].status = "absent" => rows[k].attempt = 0
    /\ rows[k].status # "timed_out"

(* One owner per row, and the row shows its attempt. *)
OwnerInv ==
  \A k \in Keys, w \in Wakes :
    /\ Owns(w, k) => SettleMatches(rows[k], att[w][k])
    /\ \A v \in Wakes : Owns(w, k) /\ Owns(v, k) => v = w

(* A failure seen by claimMany is still the current one, or is past. *)
RetryInv ==
  \A k \in Keys, w \in Wakes :
    claim[w][k] = "retry" =>
      /\ rows[k].status # "absent"
      /\ att[w][k] <= rows[k].attempt
      /\ att[w][k] = rows[k].attempt => rows[k].status = "failed"

(* How often the handler completed, told by the row and by its owner. *)
SuccInv ==
  \A k \in Keys :
    /\ succ[k] \in {0, 1}
    /\ rows[k].status = "succeeded" => succ[k] = 1
    /\ rows[k].status = "failed" => succ[k] = 0
    /\ rows[k].status = "absent" => succ[k] = 0 \/ Stale(k)
    /\ \A w \in Wakes :
         /\ Owns(w, k) => succ[k] = IF hand[w][k] \in {"ok", "lateOk"} THEN 1 ELSE 0
         /\ outcome[w][k] \in {"succeeded", "duplicate"} => succ[k] = 1

IInv == TypeOK /\ WakeInv /\ RowInv /\ OwnerInv /\ RetryInv /\ SuccInv
=============================================================================
