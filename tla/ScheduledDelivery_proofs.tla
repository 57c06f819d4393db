---------------------- MODULE ScheduledDelivery_proofs ----------------------
(***************************************************************************)
(* Proofs about ScheduledDelivery: IInv is inductive, and the properties   *)
(* of the component follow from it for every set of keys and wakes.        *)
(***************************************************************************)
EXTENDS ScheduledDelivery, TLAPS

USE DEF Null

----------------------------------------------------------------------------
(* The initial states, the rows the statements write, the delivery window   *)

(* The initial state satisfies the inductive invariant.                     *)
LEMMA InitHolds == Init => IInv
<1> SUFFICES ASSUME Init PROVE IInv
  OBVIOUS
<1>1. TypeOK
  BY KeysAssumption DEF Init, TypeOK, NoneFor, NoRow, Row, RowStatus, Phases,
         Modes, ClaimStates, HandlerStates, Outcomes
<1>2. WakeInv
  BY KeysAssumption DEF Init, WakeInv, TimeInv, WindowInv, ChunkInv, NoneFor
<1>3. RowInv
  BY DEF Init, RowInv, NoneFor, NoRow
<1>4. OwnerInv /\ RetryInv
  BY DEF Init, OwnerInv, RetryInv, NoneFor, Owns, OpenHandler
<1>5. SuccInv
  BY DEF Init, SuccInv, NoneFor, NoRow, Owns, OpenHandler
<1> QED
  BY <1>1, <1>2, <1>3, <1>4, <1>5 DEF IInv

(* The rows the statements write: their type and the columns that matter.   *)
LEMMA NewRowShape ==
  ASSUME NEW now \in Nat
  PROVE  /\ NewRow(now) \in Row
         /\ NewRow(now).status = "running" /\ NewRow(now).attempt = 1
         /\ NewRow(now).leaseAt = now + LeaseMs
BY TimeAssumption DEF NewRow, Row, RowStatus

(* The row of a claim that is tried again, with the next attempt and a new lease. *)
LEMMA RetriedRowShape ==
  ASSUME NEW r \in Row, NEW now \in Nat
  PROVE  /\ RetriedRow(r, now) \in Row
         /\ RetriedRow(r, now).status = "running"
         /\ RetriedRow(r, now).attempt = r.attempt + 1
         /\ RetriedRow(r, now).leaseAt = now + LeaseMs
BY TimeAssumption DEF RetriedRow, Row, RowStatus

(* The row of a claim whose lease ran out: uncertain, with the attempt it had. *)
LEMMA ExpiredRowShape ==
  ASSUME NEW r \in Row, NEW now \in Nat
  PROVE  /\ ExpiredRow(r, now) \in Row
         /\ ExpiredRow(r, now).status = "uncertain"
         /\ ExpiredRow(r, now).attempt = r.attempt
         /\ ExpiredRow(r, now).settledAt = now
BY DEF ExpiredRow, Row, RowStatus

(* The row of a claim that is settled, with the attempt it had. *)
LEMMA SettledRowShape ==
  ASSUME NEW r \in Row, NEW now \in Nat, NEW s \in {"succeeded", "failed"}
  PROVE  /\ SettledRow(r, s, now) \in Row
         /\ SettledRow(r, s, now).status = s
         /\ SettledRow(r, s, now).attempt = r.attempt
         /\ SettledRow(r, s, now).settledAt = now
BY DEF SettledRow, Row, RowStatus

(* Only a succeeded row is reported as done.                                *)
LEMMA OutcomeTellsSuccess ==
  ASSUME IInv, NEW k \in Keys, rows[k].status # "absent",
         OutcomeOf(rows[k].status) \in {"succeeded", "duplicate"}
  PROVE  succ[k] = 1
BY DEF IInv, TypeOK, Row, RowStatus, OutcomeOf, SuccInv

(* The constants and the times are numbers.                                 *)
LEMMA ConstantsAreNumbers ==
  /\ NumChunks \in Nat /\ NumChunks >= 1
  /\ LeaseMs \in Nat /\ Lifetime \in Nat /\ Redelivery \in Nat /\ RetentionMs \in Nat
  /\ RetentionMs >= Redelivery + Lifetime
  /\ \A k \in Keys : SchedAt[k] \in Nat
BY KeysAssumption, TimeAssumption

(* Times, chunks, marks and attempts are natural numbers. *)
LEMMA TimesAreNumbers ==
  ASSUME TypeOK
  PROVE  /\ clock \in Nat
         /\ \A w \in Wakes : born[w] \in Nat /\ at[w] \in Nat /\ chunk[w] \in Nat
         /\ \A w \in Wakes, k \in Keys : mark[w][k] \in Nat /\ att[w][k] \in Nat
BY ConstantsAreNumbers DEF TypeOK

(* A key that a wake was asked to deliver is due and not stale.             *)
LEMMA WindowOpen ==
  ASSUME IInv, NEW w \in Wakes, NEW k \in Keys, mode[w][k] # "none"
  PROVE  /\ SchedAt[k] <= at[w] /\ SchedAt[k] <= clock
         /\ clock <= SchedAt[k] + Redelivery + Lifetime
         /\ ~Stale(k)
<1>1. TypeOK /\ TimeInv /\ WindowInv
  BY DEF IInv, WakeInv
<1>2. /\ born[w] <= at[w] /\ at[w] <= clock /\ clock <= born[w] + Lifetime
      /\ SchedAt[k] <= born[w] /\ born[w] <= SchedAt[k] + Redelivery
  BY <1>1 DEF TimeInv, WindowInv
<1> QED
  BY <1>1, <1>2, ConstantsAreNumbers, TimesAreNumbers DEF Stale

(* A step within claimMany: only the phase and the claims of w change.      *)
LEMMA ClaimFrame ==
  ASSUME IInv, NEW w \in Wakes,
         UNCHANGED <<clock, born, at, mode, chunk, hand, mark>>,
         pc[w] \notin {"idle", "chunk", "done", "thrown"}, pc'[w] # "idle",
         \A v \in Wakes : v # w => pc'[v] = pc[v] /\ claim'[v] = claim[v],
         \A k \in Keys : claim'[w][k] # "none" => mode[w][k] = "execute"
  PROVE  WakeInv'
<1>1. TimeInv'
  BY DEF IInv, WakeInv, TimeInv
<1>2. WindowInv'
  BY DEF IInv, WakeInv, WindowInv
<1>3. ChunkInv'
  BY DEF IInv, WakeInv, ChunkInv
<1> QED
  BY <1>1, <1>2, <1>3 DEF WakeInv

----------------------------------------------------------------------------
(* The steps of the wake that write no row                                  *)

(* Steps that change neither rows, claims, handlers nor outcomes keep what  *)
(* the table, the owners and the handlers agree on.                         *)
LEMMA QuietFrame ==
  ASSUME IInv, UNCHANGED <<rows, claim, att, hand, outcome, succ>>,
         clock \in Nat, clock' \in Nat, clock <= clock'
  PROVE  RowInv' /\ OwnerInv' /\ RetryInv' /\ SuccInv'
<1>1. \A k \in Keys : Stale(k) => Stale(k)'
  BY ConstantsAreNumbers DEF Stale
<1> QED
  BY <1>1 DEF IInv, RowInv, OwnerInv, RetryInv, SuccInv, Owns, SettleMatches

(* A wake begins inside the delivery window of each of its keys.            *)
LEMMA BeginKeeps ==
  ASSUME IInv, NEW w \in Wakes, NEW m \in [Keys -> Modes], Begin(w, m) PROVE IInv'
<1>1. TypeOK'
  BY DEF IInv, Begin, TypeOK, Goto, Phases
<1>2. TimeInv'
  BY TimesAreNumbers, ConstantsAreNumbers
     DEF IInv, Begin, TypeOK, WakeInv, TimeInv, Goto
<1>3. WindowInv' /\ ChunkInv'
  BY DEF IInv, Begin, TypeOK, WakeInv, WindowInv, ChunkInv, Goto
<1>4. RowInv' /\ OwnerInv' /\ RetryInv' /\ SuccInv'
  BY QuietFrame DEF IInv, TypeOK, Begin
<1> QED
  BY <1>1, <1>2, <1>3, <1>4 DEF IInv, WakeInv

(* The head of the chunk loop moves within the chunks or ends the wake.     *)
LEMMA NextChunkKeeps == ASSUME IInv, NEW w \in Wakes, NextChunk(w) PROVE IInv'
<1>1. TypeOK'
  BY DEF IInv, NextChunk, TypeOK, Goto, Phases
<1>2. TimeInv'
  BY TimesAreNumbers DEF IInv, NextChunk, TypeOK, WakeInv, TimeInv, Goto
<1>3. WindowInv' /\ ChunkInv'
  BY DEF IInv, NextChunk, TypeOK, WakeInv, WindowInv, ChunkInv, Goto
<1>4. RowInv' /\ OwnerInv' /\ RetryInv' /\ SuccInv'
  BY QuietFrame DEF IInv, TypeOK, NextChunk
<1> QED
  BY <1>1, <1>2, <1>3, <1>4 DEF IInv, WakeInv

(* The migrations of the plugins only take time.                            *)
LEMMA MigratedKeeps == ASSUME IInv, NEW w \in Wakes, Migrated(w) PROVE IInv'
<1>1. TypeOK'
  BY DEF IInv, Migrated, TypeOK, Goto, Phases
<1>2. TimeInv'
  BY TimesAreNumbers DEF IInv, Migrated, TypeOK, WakeInv, TimeInv, Goto
<1>3. WindowInv' /\ ChunkInv'
  BY DEF IInv, Migrated, TypeOK, WakeInv, WindowInv, ChunkInv, Goto
<1>4. RowInv' /\ OwnerInv' /\ RetryInv' /\ SuccInv'
  BY QuietFrame DEF IInv, TypeOK, Migrated
<1> QED
  BY <1>1, <1>2, <1>3, <1>4 DEF IInv, WakeInv

(* A chunk with nothing to execute is skipped, the others are claimed.      *)
LEMMA StartClaimKeeps == ASSUME IInv, NEW w \in Wakes, StartClaim(w) PROVE IInv'
<1>1. chunk[w] + 1 \in 1..NumChunks + 1 /\ pc[w] = "claim"
  <2>1. chunk[w] \in 1..NumChunks + 1 /\ pc[w] = "claim"
    BY DEF IInv, TypeOK, StartClaim
  <2>2. ~(chunk[w] > NumChunks)
    BY <2>1 DEF IInv, WakeInv, ChunkInv
  <2> QED
    BY <2>1, <2>2, ConstantsAreNumbers
<1>2. CASE Executed(w) = {}
  <2>1. /\ chunk' = [chunk EXCEPT ![w] = @ + 1] /\ pc' = [pc EXCEPT ![w] = "chunk"]
        /\ UNCHANGED <<clock, rows, born, at, mode, claim, att, hand, mark, outcome, succ>>
    BY <1>2 DEF StartClaim, Goto
  <2>2. TypeOK'
    BY <1>1, <2>1 DEF IInv, TypeOK, Phases
  <2>3. WakeInv'
    BY <1>1, <2>1 DEF IInv, TypeOK, WakeInv, TimeInv, WindowInv, ChunkInv
  <2> QED
    BY <2>1, <2>2, <2>3, QuietFrame DEF IInv, TypeOK
<1>3. CASE Executed(w) # {}
  <2>1. /\ at' = [at EXCEPT ![w] = clock] /\ pc' = [pc EXCEPT ![w] = "insert"]
        /\ UNCHANGED <<clock, rows, born, mode, chunk, claim, att, hand, mark, outcome,
                       succ>>
    BY <1>3 DEF StartClaim, Goto
  <2>2. TypeOK'
    BY <2>1 DEF IInv, TypeOK, Phases
  <2>3. WindowInv' /\ ChunkInv'
    BY <1>1, <2>1 DEF IInv, TypeOK, WakeInv, WindowInv, ChunkInv
  <2>4. TimeInv'
    BY <1>1, <2>1, TimesAreNumbers DEF IInv, TypeOK, WakeInv, TimeInv
  <2> QED
    BY <2>1, <2>2, <2>3, <2>4, QuietFrame DEF IInv, TypeOK, WakeInv
<1> QED
  BY <1>2, <1>3

(* An exception leaves everything but the phase as it is.                   *)
LEMMA ThrowKeeps == ASSUME IInv, NEW w \in Wakes, Throw(w) PROVE IInv'
<1>1. TypeOK'
  BY DEF IInv, Throw, TypeOK, Goto, Phases
<1>2. WakeInv'
  BY DEF IInv, Throw, TypeOK, WakeInv, TimeInv, WindowInv, ChunkInv, Goto
<1>3. RowInv' /\ OwnerInv' /\ RetryInv' /\ SuccInv'
  BY QuietFrame DEF IInv, TypeOK, Throw
<1> QED
  BY <1>1, <1>2, <1>3 DEF IInv

(* Time passes only while every wake is within its lifetime.                *)
LEMMA TickKeeps == ASSUME IInv, Tick PROVE IInv'
<1>1. TypeOK'
  BY DEF IInv, Tick, TypeOK, local
<1>2. TimeInv'
  BY TimesAreNumbers, ConstantsAreNumbers DEF IInv, Tick, local, WakeInv, TimeInv
<1>3. WindowInv' /\ ChunkInv'
  BY DEF IInv, Tick, local, WakeInv, WindowInv, ChunkInv
<1>4. RowInv' /\ OwnerInv' /\ RetryInv' /\ SuccInv'
  BY QuietFrame DEF IInv, TypeOK, Tick, local
<1> QED
  BY <1>1, <1>2, <1>3, <1>4 DEF IInv, WakeInv

(* A wake that ends forgets what it owned; the table keeps it.              *)
LEMMA ForgetKeeps ==
  ASSUME IInv, NEW w \in Wakes, Forget(w), UNCHANGED <<clock, rows, succ>>
  PROVE  IInv'
<1>1. TypeOK'
  BY ConstantsAreNumbers DEF IInv, Forget, TypeOK, Goto, NoneFor, Phases, Modes,
         ClaimStates, HandlerStates, Outcomes
<1>2. WakeInv'
  BY ConstantsAreNumbers
     DEF IInv, Forget, TypeOK, WakeInv, TimeInv, WindowInv, ChunkInv, Goto, NoneFor
<1>3. \A v \in Wakes, k \in Keys :
        /\ Owns(v, k)' => v # w /\ Owns(v, k)
        /\ claim'[v][k] = "retry" => v # w
  BY DEF IInv, TypeOK, Forget, NoneFor, Owns, OpenHandler
<1>4. \A v \in Wakes : v # w => /\ att'[v] = att[v] /\ hand'[v] = hand[v]
                               /\ outcome'[v] = outcome[v] /\ claim'[v] = claim[v]
  BY DEF IInv, TypeOK, Forget
<1>5. RowInv' /\ OwnerInv' /\ RetryInv'
  BY <1>3, <1>4 DEF IInv, RowInv, OwnerInv, RetryInv, SettleMatches
<1>6. SuccInv'
  <2>1. \A k \in Keys : outcome'[w][k] = "none"
    BY DEF IInv, TypeOK, Forget, NoneFor
  <2> QED
    BY <1>3, <1>4, <2>1 DEF IInv, SuccInv, Stale
<1> QED
  BY <1>1, <1>2, <1>5, <1>6 DEF IInv

----------------------------------------------------------------------------
(* claimMany and inspectMany                                                *)

(* A reconciliation reports "duplicate" only for a succeeded row.           *)
LEMMA InspectLoadKeeps == ASSUME IInv, NEW w \in Wakes, InspectLoad(w) PROVE IInv'
<1>1. TypeOK'
  BY DEF IInv, InspectLoad, TypeOK, Goto, Phases, OutcomeOf, Row, RowStatus, Outcomes
<1>2. WakeInv'
  BY DEF IInv, InspectLoad, TypeOK, WakeInv, TimeInv, WindowInv, ChunkInv, Goto
<1>3. RowInv' /\ OwnerInv' /\ RetryInv'
  BY DEF IInv, InspectLoad, RowInv, OwnerInv, RetryInv, Owns, SettleMatches
<1>4. SuccInv'
  <2>1. \A v \in Wakes, k \in Keys :
          \/ outcome'[v][k] = outcome[v][k]
          \/ outcome'[v][k] = OutcomeOf(rows[k].status) /\ rows[k].status # "absent"
    BY DEF IInv, TypeOK, InspectLoad
  <2>2. \A v \in Wakes, k \in Keys :
          outcome'[v][k] \in {"succeeded", "duplicate"} => succ[k] = 1
    BY <2>1, OutcomeTellsSuccess DEF IInv, SuccInv
  <2> QED
    BY <2>2 DEF IInv, InspectLoad, SuccInv, Owns, Stale
<1> QED
  BY <1>1, <1>2, <1>3, <1>4 DEF IInv

(* A row is inserted for a key that nobody owns and that never completed.   *)
LEMMA InsertKeeps == ASSUME IInv, NEW w \in Wakes, Insert(w) PROVE IInv'
<1>1. TypeOK'
  BY TimeAssumption DEF IInv, Insert, TypeOK, Goto, NewRow, Row, RowStatus, Phases,
         ClaimStates
<1>2. \A k \in Keys :
        \/ rows'[k] = rows[k] /\ att'[w][k] = att[w][k] /\ claim'[w][k] # "claimed"
        \/ /\ rows[k].status = "absent" /\ mode[w][k] = "execute"
           /\ rows'[k] = NewRow(at[w]) /\ att'[w][k] = 1
  BY DEF IInv, TypeOK, Insert, Executed, InChunk
<1>3. \A k \in Keys : /\ claim'[w][k] # "none" => mode[w][k] = "execute"
                      /\ claim'[w][k] # "retry"
  BY DEF IInv, TypeOK, Insert, Executed, InChunk
<1>4. \A v \in Wakes : v # w => /\ claim'[v] = claim[v] /\ att'[v] = att[v]
                               /\ pc'[v] = pc[v]
  BY DEF IInv, TypeOK, Insert, Goto
<1>5. pc[w] = "insert" /\ pc'[w] \in {"run", "load"}
  BY DEF IInv, TypeOK, Insert, Goto
<1>6. WakeInv'
  BY <1>3, <1>4, <1>5, ClaimFrame DEF Insert
<1>7. \A k \in Keys :
        \/ rows'[k] = rows[k] /\ att'[w][k] = att[w][k] /\ claim'[w][k] # "claimed"
        \/ /\ rows[k].status = "absent" /\ mode[w][k] = "execute"
           /\ rows'[k].status = "running" /\ rows'[k].attempt = 1 /\ att'[w][k] = 1
           /\ rows'[k].leaseAt = at[w] + LeaseMs
  BY <1>2, NewRowShape DEF IInv, TypeOK
<1>8. RowInv'
  <2>1. \A k \in Keys : mode[w][k] = "execute" =>
          /\ at[w] + LeaseMs \in Nat /\ SchedAt[k] <= at[w] + LeaseMs
    BY WindowOpen, ConstantsAreNumbers, TimesAreNumbers DEF IInv
  <2> QED
    BY <1>7, <2>1 DEF IInv, RowInv
<1>9. ASSUME NEW k \in Keys, rows[k].status = "absent", mode[w][k] = "execute"
      PROVE  succ[k] = 0 /\ \A v \in Wakes : ~Owns(v, k)
  BY <1>9, WindowOpen DEF IInv, OwnerInv, SuccInv, SettleMatches
<1>10. \A v \in Wakes, k \in Keys : Owns(v, k)' =>
         \/ Owns(v, k) /\ rows'[k] = rows[k] /\ att'[v][k] = att[v][k]
         \/ /\ v = w /\ rows[k].status = "absent" /\ mode[w][k] = "execute"
            /\ hand[v][k] = "none"
            /\ rows'[k].status = "running" /\ rows'[k].attempt = att'[v][k]
  BY <1>4, <1>7, <1>9 DEF Insert, Owns
<1>11. OwnerInv'
  BY <1>9, <1>10 DEF IInv, Insert, OwnerInv, SettleMatches
<1>12. RetryInv'
  BY <1>3, <1>4, <1>7 DEF IInv, RetryInv
<1>13. SuccInv'
  BY <1>7, <1>9, <1>10 DEF IInv, Insert, SuccInv, Stale
<1> QED
  BY <1>1, <1>6, <1>8, <1>11, <1>12, <1>13 DEF IInv

(* A loaded failure is a retry candidate; a loaded success is a duplicate.  *)
LEMMA LoadKeeps == ASSUME IInv, NEW w \in Wakes, Load(w) PROVE IInv'
<1>1. TypeOK'
  BY DEF IInv, Load, TypeOK, Goto, With, AfterLoad, OutcomeOf, Row, RowStatus,
         Phases, ClaimStates, Outcomes
<1>2. \A k \in Keys :
        \/ /\ claim'[w][k] = claim[w][k]
           /\ att'[w][k] = att[w][k]
           /\ outcome'[w][k] = outcome[w][k]
        \/ /\ claim[w][k] = "unresolved" /\ mode[w][k] = "execute"
           /\ claim'[w][k] \in {"expired", "retry", "refused"}
           /\ claim'[w][k] = "retry" => rows[k].status = "failed"
           /\ att'[w][k] = rows[k].attempt
           /\ rows[k].status # "absent"
           /\ outcome'[w][k] \in {outcome[w][k], OutcomeOf(rows[k].status)}
  BY DEF IInv, TypeOK, Load, With, Executed, InChunk, shouldRetryScheduledDelivery,
         LeaseExpired
<1>3. \A v \in Wakes : v # w => /\ claim'[v] = claim[v] /\ att'[v] = att[v]
                               /\ outcome'[v] = outcome[v] /\ pc'[v] = pc[v]
  BY DEF IInv, TypeOK, Load, Goto
<1>4. WakeInv'
  <2>1. pc[w] = "load" /\ pc'[w] \in {"expire", "retry", "run"}
    BY DEF IInv, TypeOK, Load, Goto, AfterLoad
  <2>2. \A k \in Keys : claim'[w][k] # "none" => mode[w][k] = "execute"
    BY <1>2 DEF IInv, WakeInv, WindowInv
  <2> QED
    BY <1>3, <2>1, <2>2, ClaimFrame DEF Load
<1>5. RowInv'
  BY DEF IInv, Load, RowInv
<1>6. \A v \in Wakes, k \in Keys : Owns(v, k)' =>
        Owns(v, k) /\ att'[v][k] \in {att[v][k], rows[k].attempt}
  BY <1>2, <1>3 DEF Load, Owns
<1>7. OwnerInv'
  BY <1>6 DEF IInv, Load, OwnerInv, SettleMatches
<1>8. RetryInv'
  <2>1. ASSUME NEW k \in Keys, NEW v \in Wakes, claim'[v][k] = "retry"
        PROVE  /\ rows[k].status # "absent"
               /\ att'[v][k] <= rows[k].attempt
               /\ att'[v][k] = rows[k].attempt => rows[k].status = "failed"
    <3>1. CASE v # w
      BY <2>1, <3>1, <1>3 DEF IInv, RetryInv
    <3>2. CASE v = w
      <4>1. rows[k].attempt \in Nat
        BY DEF IInv, TypeOK, Row
      <4> QED
        BY <2>1, <3>2, <4>1, <1>2 DEF IInv, RetryInv
    <3> QED
      BY <3>1, <3>2
  <2> QED
    BY <2>1 DEF Load, RetryInv
<1>9. SuccInv'
  <2>1. \A v \in Wakes, k \in Keys :
          outcome'[v][k] \in {"succeeded", "duplicate"} => succ[k] = 1
    BY <1>2, <1>3, OutcomeTellsSuccess DEF IInv, SuccInv
  <2> QED
    BY <1>6, <2>1 DEF IInv, Load, SuccInv, Stale
<1> QED
  BY <1>1, <1>4, <1>5, <1>7, <1>8, <1>9 DEF IInv

(* An expired lease turns the row uncertain: its owner, if any, keeps it.   *)
LEMMA ExpireKeeps == ASSUME IInv, NEW w \in Wakes, Expire(w) PROVE IInv'
<1>1. \A k \in Keys : rows[k] \in Row /\ at[w] \in Nat
  BY DEF IInv, TypeOK
<1>2. \A k \in Keys :
        \/ rows'[k] = rows[k]
        \/ /\ rows[k].status = "running" /\ rows[k].leaseAt <= at[w]
           /\ rows'[k] = ExpiredRow(rows[k], at[w])
  BY DEF Expire, LeaseExpired
<1>3. \A k \in Keys :
        /\ claim'[w][k] \in {"refused", "raced"} \/ claim'[w][k] = claim[w][k]
        /\ outcome'[w][k] \in {"uncertain", outcome[w][k]}
        /\ claim'[w][k] # "none" => mode[w][k] = "execute"
  BY DEF IInv, TypeOK, WakeInv, WindowInv, Expire, With, Executed
<1>4. \A v \in Wakes : v # w => /\ claim'[v] = claim[v] /\ outcome'[v] = outcome[v]
                               /\ pc'[v] = pc[v]
  BY DEF IInv, TypeOK, Expire, Goto
<1>5. TypeOK'
  <2>1. rows' \in [Keys -> Row]
    BY <1>1, <1>2, ExpiredRowShape DEF Expire
  <2>2. claim' \in [Wakes -> [Keys -> ClaimStates]]
    BY DEF IInv, TypeOK, Expire, ClaimStates
  <2>3. outcome' \in [Wakes -> [Keys -> Outcomes]]
    BY DEF IInv, TypeOK, Expire, Outcomes
  <2>4. pc' \in [Wakes -> Phases]
    BY DEF IInv, TypeOK, Expire, Goto, AfterLoad, Phases
  <2> QED
    BY <2>1, <2>2, <2>3, <2>4 DEF IInv, TypeOK, Expire
<1>6. WakeInv'
  <2>1. pc[w] = "expire" /\ pc'[w] \in {"expireReload", "expire", "retry", "run"}
    BY DEF IInv, TypeOK, Expire, Goto, AfterLoad
  <2> QED
    BY <2>1, <1>3, <1>4, ClaimFrame DEF Expire
<1>7. \A k \in Keys :
        \/ rows'[k] = rows[k]
        \/ /\ rows[k].status = "running" /\ rows[k].leaseAt <= at[w]
           /\ rows'[k].status = "uncertain" /\ rows'[k].attempt = rows[k].attempt
           /\ rows'[k].settledAt = at[w]
  BY <1>1, <1>2, ExpiredRowShape
<1>8. RowInv'
  <2>1. ASSUME NEW k \in Keys, rows[k].status = "running", rows[k].leaseAt <= at[w]
        PROVE  SchedAt[k] <= at[w]
    BY <2>1, <1>1, ConstantsAreNumbers DEF IInv, RowInv
  <2> QED
    BY <1>1, <1>7, <2>1 DEF IInv, RowInv
<1>9. \A v \in Wakes, k \in Keys : /\ Owns(v, k)' => Owns(v, k)
                                   /\ claim'[v][k] = "retry" => claim[v][k] = "retry"
  BY <1>3, <1>4 DEF Expire, Owns
<1>10. OwnerInv' /\ RetryInv'
  BY <1>7, <1>9 DEF IInv, Expire, OwnerInv, RetryInv, SettleMatches
<1>11. SuccInv'
  <2>1. \A v \in Wakes, k \in Keys :
          outcome'[v][k] \in {"succeeded", "duplicate"} => succ[k] = 1
    BY <1>3, <1>4 DEF IInv, SuccInv
  <2> QED
    BY <2>1, <1>7, <1>9 DEF IInv, Expire, SuccInv, Stale
<1> QED
  BY <1>5, <1>6, <1>8, <1>10, <1>11 DEF IInv

(* Only a failure that is still the current attempt is started again.       *)
LEMMA RetryKeeps == ASSUME IInv, NEW w \in Wakes, Retry(w) PROVE IInv'
<1>1. \A k \in Keys : rows[k] \in Row /\ at[w] \in Nat
  BY DEF IInv, TypeOK
<1>2. \A k \in Keys :
        \/ /\ rows'[k] = rows[k] /\ att'[w][k] = att[w][k]
           /\ claim'[w][k] = "raced" \/ claim'[w][k] = claim[w][k]
        \/ /\ rows[k].status = "failed" /\ rows[k].attempt = att[w][k]
           /\ rows'[k] = RetriedRow(rows[k], at[w])
           /\ att'[w][k] = att[w][k] + 1 /\ claim'[w][k] = "claimed"
  BY DEF IInv, TypeOK, Retry, RetryMatches, RetryInv, With, Executed, InChunk
<1>3. \A v \in Wakes : v # w => /\ claim'[v] = claim[v] /\ att'[v] = att[v]
                               /\ pc'[v] = pc[v]
  BY DEF IInv, TypeOK, Retry, Goto
<1>4. TypeOK'
  <2>1. rows' \in [Keys -> Row]
    BY <1>1, <1>2, RetriedRowShape DEF Retry
  <2>2. claim' \in [Wakes -> [Keys -> ClaimStates]] /\ att' \in [Wakes -> [Keys -> Nat]]
    BY DEF IInv, TypeOK, Retry, ClaimStates
  <2>3. pc' \in [Wakes -> Phases]
    BY DEF IInv, TypeOK, Retry, Goto, Phases
  <2> QED
    BY <2>1, <2>2, <2>3 DEF IInv, TypeOK, Retry
<1>5. \A k \in Keys : claim'[w][k] # "none" => mode[w][k] = "execute"
  BY DEF IInv, TypeOK, WakeInv, WindowInv, Retry, With, Executed
<1>6. WakeInv'
  <2>1. pc[w] = "retry" /\ pc'[w] \in {"retryReload", "run"}
    BY DEF IInv, TypeOK, Retry, Goto
  <2> QED
    BY <2>1, <1>3, <1>5, ClaimFrame DEF Retry
<1>7. \A k \in Keys :
        \/ /\ rows'[k] = rows[k] /\ att'[w][k] = att[w][k]
           /\ claim'[w][k] = "raced" \/ claim'[w][k] = claim[w][k]
        \/ /\ rows[k].status = "failed" /\ claim'[w][k] = "claimed"
           /\ rows'[k].status = "running" /\ rows'[k].attempt = rows[k].attempt + 1
           /\ att'[w][k] = rows'[k].attempt
           /\ rows'[k].leaseAt = at[w] + LeaseMs
  <2> SUFFICES ASSUME NEW k \in Keys
               PROVE  \/ /\ rows'[k] = rows[k] /\ att'[w][k] = att[w][k]
                         /\ claim'[w][k] = "raced" \/ claim'[w][k] = claim[w][k]
                      \/ /\ rows[k].status = "failed" /\ claim'[w][k] = "claimed"
                         /\ rows'[k].status = "running"
                         /\ rows'[k].attempt = rows[k].attempt + 1
                         /\ att'[w][k] = rows'[k].attempt
                         /\ rows'[k].leaseAt = at[w] + LeaseMs
    OBVIOUS
  <2>1. CASE rows'[k] = RetriedRow(rows[k], at[w]) /\ claim'[w][k] = "claimed"
    <3>1. /\ rows'[k].status = "running" /\ rows'[k].attempt = rows[k].attempt + 1
          /\ rows'[k].leaseAt = at[w] + LeaseMs
      BY <2>1 DEF RetriedRow
    <3>2. rows'[k] # rows[k]
      <4>1. rows[k].attempt \in Nat
        BY <1>1 DEF Row
      <4> QED
        BY <3>1, <4>1
    <3> QED
      BY <1>2, <2>1, <3>1, <3>2
  <2>2. CASE ~(rows'[k] = RetriedRow(rows[k], at[w]) /\ claim'[w][k] = "claimed")
    BY <1>2, <2>2
  <2> QED
    BY <2>1, <2>2
<1>8. RowInv'
  <2>1. \A k \in Keys : claim'[w][k] = "claimed" =>
          at[w] + LeaseMs \in Nat /\ SchedAt[k] <= at[w] + LeaseMs
    BY <1>1, <1>5, WindowOpen, ConstantsAreNumbers
  <2> QED
    BY <1>7, <2>1 DEF IInv, RowInv
<1>9. ASSUME NEW k \in Keys, rows[k].status = "failed"
      PROVE  \A v \in Wakes : ~Owns(v, k)
  BY <1>9 DEF IInv, OwnerInv, SettleMatches
<1>10. \A v \in Wakes, k \in Keys : Owns(v, k)' =>
         \/ Owns(v, k) /\ rows'[k] = rows[k] /\ att'[v][k] = att[v][k]
         \/ /\ v = w /\ rows[k].status = "failed" /\ hand[v][k] = "none"
            /\ rows'[k].status = "running" /\ rows'[k].attempt = att'[v][k]
  <2>1. ASSUME NEW v \in Wakes, NEW k \in Keys, Owns(v, k)', rows'[k] # rows[k]
        PROVE  /\ v = w /\ rows[k].status = "failed" /\ hand[v][k] = "none"
               /\ rows'[k].status = "running" /\ rows'[k].attempt = att'[v][k]
    BY <2>1, <1>3, <1>7, <1>9 DEF Retry, Owns
  <2>2. ASSUME NEW v \in Wakes, NEW k \in Keys, Owns(v, k)', rows'[k] = rows[k]
        PROVE  Owns(v, k) /\ att'[v][k] = att[v][k]
    <3>1. rows[k].attempt + 1 # rows[k].attempt
      BY <1>1 DEF Row
    <3> QED
      BY <2>2, <3>1, <1>3, <1>7 DEF Retry, Owns
  <2> QED
    BY <2>1, <2>2
<1>11. OwnerInv'
  BY <1>9, <1>10 DEF IInv, Retry, OwnerInv, SettleMatches
<1>12. RetryInv'
  <2>1. \A k \in Keys : rows[k].attempt \in Nat /\ \A v \in Wakes : att[v][k] \in Nat
    BY DEF IInv, TypeOK, Row
  <2>2. \A v \in Wakes, k \in Keys : claim'[v][k] = "retry" =>
          claim[v][k] = "retry" /\ att'[v][k] = att[v][k]
    BY <1>2, <1>3
  <2> QED
    BY <2>1, <2>2, <1>7 DEF IInv, RetryInv
<1>13. SuccInv'
  BY <1>7, <1>10 DEF IInv, Retry, SuccInv, Stale
<1> QED
  BY <1>4, <1>6, <1>8, <1>11, <1>12, <1>13 DEF IInv

(* The loser of a race claims nothing and reports what the winner left.     *)
LEMMA ReloadKeeps == ASSUME IInv, NEW w \in Wakes, Reload(w) PROVE IInv'
<1>1. TypeOK'
  BY DEF IInv, Reload, TypeOK, Goto, With, AfterLoad, OutcomeOf, Row, RowStatus,
         Phases, ClaimStates, Outcomes
<1>2. \A k \in Keys :
        /\ claim'[w][k] = "refused" \/ claim'[w][k] = claim[w][k]
        /\ claim'[w][k] # "none" => mode[w][k] = "execute"
        /\ \/ outcome'[w][k] = outcome[w][k]
           \/ outcome'[w][k] = OutcomeOf(rows[k].status) /\ rows[k].status # "absent"
  BY DEF IInv, TypeOK, WakeInv, WindowInv, Reload, With, Executed
<1>3. \A v \in Wakes : v # w => /\ claim'[v] = claim[v] /\ outcome'[v] = outcome[v]
                               /\ pc'[v] = pc[v]
  BY DEF IInv, TypeOK, Reload, Goto
<1>4. WakeInv'
  <2>1. pc[w] \in {"expireReload", "retryReload"} /\ pc'[w] \in {"expire", "retry", "run"}
    BY DEF IInv, TypeOK, Reload, Goto, AfterLoad
  <2> QED
    BY <2>1, <1>2, <1>3, ClaimFrame DEF Reload
<1>5. \A v \in Wakes, k \in Keys : /\ Owns(v, k)' => Owns(v, k)
                                   /\ claim'[v][k] = "retry" => claim[v][k] = "retry"
  BY <1>2, <1>3 DEF Reload, Owns
<1>6. RowInv' /\ OwnerInv' /\ RetryInv'
  BY <1>5 DEF IInv, Reload, RowInv, OwnerInv, RetryInv, SettleMatches
<1>7. SuccInv'
  <2>1. \A v \in Wakes, k \in Keys :
          outcome'[v][k] \in {"succeeded", "duplicate"} => succ[k] = 1
    BY <1>2, <1>3, OutcomeTellsSuccess DEF IInv, SuccInv
  <2> QED
    BY <2>1, <1>5 DEF IInv, Reload, SuccInv, Stale
<1> QED
  BY <1>1, <1>4, <1>6, <1>7 DEF IInv

----------------------------------------------------------------------------
(* Handlers and their settlement                                            *)

(* A handler starts only for an attempt the wake owns.                      *)
LEMMA StartHandlerKeeps ==
  ASSUME IInv, NEW w \in Wakes, NEW k \in Keys, StartHandler(w, k) PROVE IInv'
<1>1. TypeOK'
  BY DEF IInv, StartHandler, TypeOK, HandlerStates
<1>2. claim[w][k] = "claimed" /\ hand[w][k] = "none" /\ mode[w][k] = "execute"
  BY DEF StartHandler, With, Executed
<1>3. WakeInv'
  <2>1. SchedAt[k] <= clock
    BY <1>2, WindowOpen
  <2> QED
    BY <1>2, <2>1
       DEF IInv, StartHandler, TypeOK, WakeInv, TimeInv, WindowInv, ChunkInv
<1>4. \A v \in Wakes, j \in Keys :
        /\ Owns(v, j)' => Owns(v, j)
        /\ hand'[v][j] \in {"ok", "lateOk"} <=> hand[v][j] \in {"ok", "lateOk"}
  BY <1>2 DEF IInv, TypeOK, StartHandler, Owns, OpenHandler
<1>5. RowInv' /\ OwnerInv' /\ RetryInv'
  BY <1>4 DEF IInv, StartHandler, RowInv, OwnerInv, RetryInv, SettleMatches
<1>6. SuccInv'
  BY <1>4 DEF IInv, StartHandler, SuccInv, Stale
<1> QED
  BY <1>1, <1>3, <1>5, <1>6 DEF IInv

(* The one running handler of a key is the only one that can complete it.   *)
LEMMA EndHandlerKeeps ==
  ASSUME IInv, NEW w \in Wakes, NEW k \in Keys, NEW ok \in BOOLEAN, EndHandler(w, k, ok)
  PROVE  IInv'
<1>1. hand[w][k] \in {"live", "late"} /\ Owns(w, k)
  BY DEF EndHandler, Running, Owns, OpenHandler
<1>2. /\ hand'[w][k] \in {"ok", "err", "lateOk", "lateErr"}
      /\ hand'[w][k] \in {"ok", "lateOk"} <=> ok
      /\ succ'[k] = IF ok THEN succ[k] + 1 ELSE succ[k]
      /\ \A j \in Keys : j # k => succ'[j] = succ[j]
      /\ \A v \in Wakes, j \in Keys : v # w \/ j # k => hand'[v][j] = hand[v][j]
  BY <1>1 DEF IInv, TypeOK, EndHandler
<1>3. TypeOK'
  BY DEF IInv, EndHandler, TypeOK, Running, HandlerStates
<1>4. WakeInv'
  <2>1. mode[w][k] = "execute" /\ hand[w][k] # "none"
    BY <1>1 DEF IInv, WakeInv, WindowInv
  <2>2. SchedAt[k] <= clock
    BY <2>1, WindowOpen
  <2>3. WindowInv'
    BY <2>1, <2>2, <1>2 DEF IInv, EndHandler, TypeOK, WakeInv, WindowInv
  <2> QED
    BY <2>3 DEF IInv, EndHandler, WakeInv, TimeInv, ChunkInv
<1>5. \A v \in Wakes, j \in Keys : Owns(v, j)' => Owns(v, j)
  BY <1>1, <1>2 DEF EndHandler, Owns
<1>6. RowInv' /\ OwnerInv' /\ RetryInv'
  BY <1>5 DEF IInv, EndHandler, RowInv, OwnerInv, RetryInv, SettleMatches
<1>7. succ[k] = 0 /\ rows[k].status \in {"running", "uncertain"}
  BY <1>1 DEF IInv, OwnerInv, SuccInv, SettleMatches
<1>8. \A v \in Wakes : Owns(v, k) => v = w
  BY <1>1 DEF IInv, OwnerInv
<1>9. SuccInv'
  BY <1>1, <1>2, <1>5, <1>7, <1>8 DEF IInv, EndHandler, SuccInv, Stale
<1> QED
  BY <1>3, <1>4, <1>6, <1>9 DEF IInv

(* A timer that fires leaves the attempt with its wake.                     *)
LEMMA TimeOutKeeps ==
  ASSUME IInv, NEW w \in Wakes, NEW k \in Keys, TimeOut(w, k) PROVE IInv'
<1>1. TypeOK'
  BY DEF IInv, TimeOut, TypeOK, HandlerStates
<1>2. WakeInv'
  BY DEF IInv, TimeOut, TypeOK, WakeInv, TimeInv, WindowInv, ChunkInv
<1>3. \A v \in Wakes, j \in Keys :
        /\ Owns(v, j)' => Owns(v, j)
        /\ hand'[v][j] \in {"ok", "lateOk"} <=> hand[v][j] \in {"ok", "lateOk"}
  BY DEF IInv, TypeOK, TimeOut, Owns, OpenHandler
<1>4. RowInv' /\ OwnerInv' /\ RetryInv'
  BY <1>3 DEF IInv, TimeOut, RowInv, OwnerInv, RetryInv, SettleMatches
<1>5. SuccInv'
  BY <1>3 DEF IInv, TimeOut, SuccInv, Stale
<1> QED
  BY <1>1, <1>2, <1>4, <1>5 DEF IInv

(* A settlement, of a chunk or late: the rows in hit take the result of the *)
(* handler w ran for them, and the wake gives up the keys in S.             *)
LEMMA SettlementFrame ==
  ASSUME IInv, TypeOK', NEW w \in Wakes, NEW hit \in SUBSET Keys,
         UNCHANGED <<clock, claim, att, succ>>,
         \A k \in hit : /\ hand[w][k] \in OpenHandler \ {"live", "late"}
                        /\ hand'[w][k] = "settled"
                        /\ rows'[k] = SettledRow(rows[k], SettledAs(hand[w][k]), mark[w][k]),
         \A k \in Keys \ hit : rows'[k] = rows[k],
         \A k \in Keys : hand'[w][k] \in {hand[w][k], "settled"},
         \A v \in Wakes : v # w => hand'[v] = hand[v],
         \A v \in Wakes, k \in Keys : outcome'[v][k] \in {"succeeded", "duplicate"} =>
            succ[k] = 1
  PROVE  RowInv' /\ OwnerInv' /\ RetryInv' /\ SuccInv'
<1>1. \A k \in hit : Owns(w, k) /\ \A v \in Wakes : Owns(v, k) => v = w
  BY DEF IInv, OwnerInv, Owns
<1>2. \A k \in hit : /\ rows[k].status \in {"running", "uncertain"}
                     /\ SchedAt[k] <= mark[w][k] /\ mark[w][k] \in Nat
                     /\ succ[k] = IF hand[w][k] \in {"ok", "lateOk"} THEN 1 ELSE 0
  <2>1. \A k \in hit : hand[w][k] # "none" /\ hand[w][k] \in HandlerStates
    BY ZenonT(30) DEF OpenHandler, IInv, TypeOK
  <2>2. \A k \in hit : SchedAt[k] <= mark[w][k] /\ mark[w][k] \in Nat
    BY <2>1, TimesAreNumbers DEF IInv, WakeInv, WindowInv
  <2>3. \A k \in hit : rows[k].status \in {"running", "uncertain"}
    BY <1>1 DEF IInv, OwnerInv, SettleMatches
  <2>4. \A k \in hit : succ[k] = IF hand[w][k] \in {"ok", "lateOk"} THEN 1 ELSE 0
    BY <1>1 DEF IInv, SuccInv
  <2> QED
    BY <2>2, <2>3, <2>4
<1>3. \A k \in hit : /\ rows'[k].status = SettledAs(hand[w][k])
                     /\ rows'[k].attempt = rows[k].attempt
                     /\ rows'[k].settledAt = mark[w][k]
  <2> SUFFICES ASSUME NEW k \in hit
               PROVE  /\ rows'[k].status = SettledAs(hand[w][k])
                      /\ rows'[k].attempt = rows[k].attempt
                      /\ rows'[k].settledAt = mark[w][k]
    OBVIOUS
  <2>1. SettledAs(hand[w][k]) \in {"succeeded", "failed"} /\ rows[k] \in Row
    BY DEF SettledAs, IInv, TypeOK
  <2>2. rows'[k] = SettledRow(rows[k], SettledAs(hand[w][k]), mark[w][k])
    OBVIOUS
  <2> QED
    BY <2>1, <2>2 DEF SettledRow, Row
<1>4. \A v \in Wakes, k \in Keys : Owns(v, k)' => Owns(v, k) /\ hand'[v][k] = hand[v][k]
                                                  /\ k \notin hit
  BY <1>1 DEF Owns, OpenHandler
<1>5. RowInv'
  BY <1>2, <1>3 DEF IInv, RowInv, SettledAs
<1>6. OwnerInv'
  BY <1>4 DEF IInv, OwnerInv, SettleMatches
<1>7. RetryInv'
  BY <1>2, <1>3 DEF IInv, RetryInv, SettledAs
<1>8. SuccInv'
  BY <1>2, <1>3, <1>4 DEF IInv, SuccInv, SettledAs, Stale
<1> QED
  BY <1>5, <1>6, <1>7, <1>8

(* The settlement of a chunk, reported or lost.                             *)
LEMMA SettleKeeps == ASSUME IInv, NEW w \in Wakes, Settle(w) PROVE IInv'
<1> DEFINE S == {k \in With(w, "claimed") : hand[w][k] \in {"ok", "err"}}
           hit == {k \in S : SettleMatches(rows[k], att[w][k])}
           told == [k \in Keys |->
             IF k \in S THEN SettledAs(hand[w][k])
             ELSE IF k \in With(w, "claimed") THEN "timed_out" ELSE outcome[w][k]]
<1>1. /\ rows' = [k \in Keys |->
            IF k \in hit THEN SettledRow(rows[k], SettledAs(hand[w][k]), mark[w][k])
                         ELSE rows[k]]
      /\ hand' = [hand EXCEPT ![w] = [k \in Keys |->
            IF k \in S THEN "settled" ELSE hand[w][k]]]
      /\ UNCHANGED <<clock, born, at, mode, claim, att, mark, succ>>
      /\ pc[w] = "run"
  BY DEF Settle
<1>2. \/ /\ outcome' = [outcome EXCEPT ![w] = told]
         /\ chunk' = [chunk EXCEPT ![w] = @ + 1]
         /\ pc' = [pc EXCEPT ![w] = "chunk"]
      \/ /\ pc' = [pc EXCEPT ![w] = "thrown"]
         /\ UNCHANGED <<outcome, chunk>>
  BY DEF Settle, Goto
<1>3. S \subseteq Keys /\ hit \subseteq S
  BY DEF With, Executed, InChunk
<1>4. \A k \in S : hand[w][k] \in {"ok", "err"}
  OBVIOUS
<1>a. /\ \A k \in Keys : \/ told[k] \in {outcome[w][k], "timed_out"}
                         \/ k \in S /\ told[k] = SettledAs(hand[w][k])
      /\ told \in [Keys -> Outcomes]
  <2>1. \A k \in Keys : outcome[w][k] \in Outcomes
    BY DEF IInv, TypeOK
  <2>2. \A k \in Keys : SettledAs(hand[w][k]) \in Outcomes /\ "timed_out" \in Outcomes
    BY DEF SettledAs, Outcomes
  <2> HIDE DEF S
  <2> QED
    BY <2>1, <2>2
<1> HIDE DEF S, hit, told
<1>5. TypeOK'
  <2>1. rows' \in [Keys -> Row]
    <3>1. ASSUME NEW k \in Keys
          PROVE  /\ rows[k] \in Row /\ mark[w][k] \in Nat
                 /\ SettledRow(rows[k], SettledAs(hand[w][k]), mark[w][k]) \in Row
      <4>1. rows[k] \in Row /\ mark[w][k] \in Nat
        BY DEF IInv, TypeOK
      <4>2. SettledAs(hand[w][k]) \in {"succeeded", "failed"}
        BY DEF SettledAs
      <4> QED
        BY <4>1, <4>2, SettledRowShape
    <3> QED
      BY <1>1, <3>1
  <2>2. hand' \in [Wakes -> [Keys -> HandlerStates]]
    BY <1>1 DEF IInv, TypeOK, HandlerStates
  <2>3. outcome' \in [Wakes -> [Keys -> Outcomes]]
    BY <1>2, <1>a DEF IInv, TypeOK
  <2>4. pc' \in [Wakes -> Phases]
    BY <1>2 DEF IInv, TypeOK, Phases
  <2>5. chunk' \in [Wakes -> 1..NumChunks + 1]
    <3>1. chunk[w] \in 1..NumChunks + 1 /\ ~(chunk[w] > NumChunks)
      BY <1>1 DEF IInv, TypeOK, WakeInv, ChunkInv
    <3>2. chunk[w] + 1 \in 1..NumChunks + 1
      BY <3>1, ConstantsAreNumbers
    <3> QED
      BY <1>2, <3>2 DEF IInv, TypeOK
  <2> QED
    BY <1>1, <2>1, <2>2, <2>3, <2>4, <2>5 DEF IInv, TypeOK
<1>6. WakeInv'
  <2>1. \A v \in Wakes : \/ v # w /\ pc'[v] = pc[v] /\ chunk'[v] = chunk[v]
                         \/ v = w /\ pc'[v] = "chunk" /\ pc[v] = "run"
                         \/ v = w /\ pc'[v] = "thrown" /\ pc[v] = "run"
    BY <1>1, <1>2 DEF IInv, TypeOK
  <2>2. \A v \in Wakes, k \in Keys : hand'[v][k] # "none" => hand[v][k] # "none"
    BY <1>1, <1>4 DEF IInv, TypeOK
  <2>3. TimeInv' /\ ChunkInv'
    BY <1>1, <2>1 DEF IInv, WakeInv, TimeInv, ChunkInv
  <2>4. WindowInv'
    BY <1>1, <2>1, <2>2 DEF IInv, WakeInv, WindowInv
  <2> QED
    BY <2>3, <2>4 DEF WakeInv
<1>7. \A v \in Wakes, k \in Keys :
        outcome'[v][k] \in {"succeeded", "duplicate"} => succ[k] = 1
  <2>1. \A k \in S : SettledAs(hand[w][k]) = "succeeded" => succ[k] = 1
    <3>1. \A k \in S : Owns(w, k)
      BY <1>4 DEF Owns, OpenHandler
    <3> QED
      BY <1>3, <3>1 DEF IInv, SuccInv, SettledAs
  <2>2. \A k \in S : SettledAs(hand[w][k]) # "duplicate"
    BY DEF SettledAs
  <2>3. \A v \in Wakes, k \in Keys :
          \/ outcome'[v][k] \in {outcome[v][k], "timed_out"}
          \/ k \in S /\ outcome'[v][k] = SettledAs(hand[w][k])
    BY <1>2, <1>a DEF IInv, TypeOK
  <2> QED
    BY <2>1, <2>2, <2>3 DEF IInv, SuccInv
<1>8. /\ \A k \in hit : /\ hand[w][k] \in OpenHandler \ {"live", "late"}
                        /\ hand'[w][k] = "settled"
                        /\ rows'[k] = SettledRow(rows[k], SettledAs(hand[w][k]), mark[w][k])
      /\ \A k \in Keys \ hit : rows'[k] = rows[k]
      /\ \A k \in Keys : hand'[w][k] \in {hand[w][k], "settled"}
      /\ \A v \in Wakes : v # w => hand'[v] = hand[v]
  BY <1>1, <1>3, <1>4 DEF IInv, TypeOK, OpenHandler
<1>9. RowInv' /\ OwnerInv' /\ RetryInv' /\ SuccInv'
  BY <1>1, <1>3, <1>5, <1>7, <1>8, SettlementFrame
<1> QED
  BY <1>5, <1>6, <1>9 DEF IInv

(* A late settlement, applied or failed.                                    *)
LEMMA LateSettleKeeps ==
  ASSUME IInv, NEW w \in Wakes, NEW k \in Keys,
         LateSettle(w, k) \/ LateSettleFails(w, k)
  PROVE  IInv'
<1> DEFINE hit == {j \in Keys : /\ j = k /\ LateSettle(w, k)
                                /\ SettleMatches(rows[k], att[w][k])}
<1>1. /\ hand[w][k] \in {"lateOk", "lateErr"}
      /\ hand' = [hand EXCEPT ![w][k] = "settled"]
      /\ UNCHANGED <<clock, pc, born, at, mode, chunk, claim, att, mark, outcome, succ>>
  BY DEF LateSettle, LateSettleFails
<1>2. /\ rows[k] \in Row /\ mark[w][k] \in Nat
      /\ SettledAs(hand[w][k]) \in {"succeeded", "failed"}
  BY DEF IInv, TypeOK, SettledAs
<1>3. rows' = [j \in Keys |->
         IF j \in hit THEN SettledRow(rows[j], SettledAs(hand[w][j]), mark[w][j])
                      ELSE rows[j]]
  BY DEF IInv, TypeOK, LateSettle, LateSettleFails
<1>4. hit \subseteq {k}
  OBVIOUS
<1> HIDE DEF hit
<1>5. TypeOK'
  <2>1. SettledRow(rows[k], SettledAs(hand[w][k]), mark[w][k]) \in Row
    BY <1>2, SettledRowShape
  <2>2. rows' \in [Keys -> Row]
    BY <1>3, <1>4, <2>1 DEF IInv, TypeOK
  <2> QED
    BY <1>1, <2>2 DEF IInv, TypeOK, HandlerStates
<1>6. WakeInv'
  BY <1>1 DEF IInv, TypeOK, WakeInv, TimeInv, WindowInv, ChunkInv
<1>7. /\ \A j \in hit : /\ hand[w][j] \in OpenHandler \ {"live", "late"}
                        /\ hand'[w][j] = "settled"
                        /\ rows'[j] = SettledRow(rows[j], SettledAs(hand[w][j]), mark[w][j])
      /\ \A j \in Keys \ hit : rows'[j] = rows[j]
      /\ \A j \in Keys : hand'[w][j] \in {hand[w][j], "settled"}
      /\ \A v \in Wakes : v # w => hand'[v] = hand[v]
  BY <1>1, <1>3, <1>4 DEF IInv, TypeOK, OpenHandler
<1>8. \A v \in Wakes, j \in Keys :
        outcome'[v][j] \in {"succeeded", "duplicate"} => succ[j] = 1
  BY <1>1 DEF IInv, SuccInv
<1>9. RowInv' /\ OwnerInv' /\ RetryInv' /\ SuccInv'
  BY <1>1, <1>4, <1>5, <1>7, <1>8, SettlementFrame
<1> QED
  BY <1>5, <1>6, <1>9 DEF IInv

----------------------------------------------------------------------------
(* prune                                                                    *)

(* What prune does to one row: nothing, or the lease expired, or the row is *)
(* forgotten, and then its key is stale.                                    *)
LEMMA PruneRows ==
  ASSUME IInv, NEW w \in Wakes, pc[w] # "idle", prune(at[w])
  PROVE  /\ rows' \in [Keys -> Row]
         /\ \A k \in Keys :
              \/ rows'[k] = rows[k]
              \/ /\ rows[k].status = "running" /\ SchedAt[k] <= at[w]
                 /\ rows'[k].status = "uncertain"
                 /\ rows'[k].attempt = rows[k].attempt
                 /\ rows'[k].settledAt = at[w]
              \/ /\ rows[k].status \notin {"absent", "running"}
                 /\ rows'[k] = NoRow /\ Stale(k)
<1>1. PICK lost \in SUBSET Keys, gone \in SUBSET Keys :
        /\ lost \subseteq {k \in Keys : LeaseExpired(rows[k], at[w])}
        /\ gone \subseteq {k \in Keys :
              /\ Marked(lost, at[w])[k].status \notin {"absent", "running"}
              /\ Marked(lost, at[w])[k].settledAt < at[w] - RetentionMs}
        /\ rows' = [k \in Keys |-> IF k \in gone THEN NoRow ELSE Marked(lost, at[w])[k]]
  BY DEF prune, OldestFirst, Cutoff
<1>2. /\ at[w] \in Nat /\ clock \in Nat /\ at[w] <= clock
      /\ \A k \in Keys : rows[k] \in Row
  BY DEF IInv, TypeOK, WakeInv, TimeInv
<1>3. \A k \in Keys : k \in lost =>
        /\ rows[k].status = "running" /\ rows[k].leaseAt <= at[w]
        /\ Marked(lost, at[w])[k] \in Row
        /\ Marked(lost, at[w])[k].status = "uncertain"
        /\ Marked(lost, at[w])[k].attempt = rows[k].attempt
        /\ Marked(lost, at[w])[k].settledAt = at[w]
  <2> SUFFICES ASSUME NEW k \in Keys, k \in lost
               PROVE  /\ rows[k].status = "running" /\ rows[k].leaseAt <= at[w]
                      /\ Marked(lost, at[w])[k] \in Row
                      /\ Marked(lost, at[w])[k].status = "uncertain"
                      /\ Marked(lost, at[w])[k].attempt = rows[k].attempt
                      /\ Marked(lost, at[w])[k].settledAt = at[w]
    OBVIOUS
  <2>1. Marked(lost, at[w])[k] = ExpiredRow(rows[k], at[w])
    BY DEF Marked
  <2>2. rows[k].status = "running" /\ rows[k].leaseAt <= at[w]
    BY <1>1 DEF LeaseExpired
  <2> QED
    BY <1>2, <2>1, <2>2, ExpiredRowShape
<1>4. \A k \in Keys : k \notin lost => Marked(lost, at[w])[k] = rows[k]
  BY DEF Marked
<1>5. \A k \in Keys : k \in lost => SchedAt[k] <= at[w]
  BY <1>2, <1>3, ConstantsAreNumbers DEF IInv, RowInv
<1>6. ASSUME NEW k \in gone
      PROVE  rows[k].status \notin {"absent", "running"} /\ Stale(k)
  <2>1. k \notin lost
    BY <1>1, <1>2, <1>3, ConstantsAreNumbers
  <2>2. /\ rows[k].status \notin {"absent", "running"}
        /\ rows[k].settledAt < at[w] - RetentionMs
    BY <1>1, <1>4, <2>1
  <2>3. rows[k].settledAt \in Nat /\ SchedAt[k] <= rows[k].settledAt
    BY <2>2 DEF IInv, RowInv
  <2> QED
    BY <1>2, <2>2, <2>3, ConstantsAreNumbers DEF Stale
<1>7. NoRow \in Row
  BY DEF NoRow, Row, RowStatus
<1>8. rows' \in [Keys -> Row]
  BY <1>1, <1>2, <1>3, <1>4, <1>7
<1> QED
  BY <1>1, <1>3, <1>4, <1>5, <1>6, <1>8

(* Nobody owns, and nobody may deliver, a stale key: prune keeps IInv.      *)
LEMMA PruneStepKeeps == ASSUME IInv, NEW w \in Wakes, PruneStep(w) PROVE IInv'
<1>1. /\ prune(at[w]) /\ pc[w] \in {"prune", "inspectPrune"}
      /\ pc'[w] \in {"chunk", "inspectLoad"} /\ pc' \in [Wakes -> Phases]
      /\ \A v \in Wakes : v # w => pc'[v] = pc[v]
      /\ UNCHANGED <<clock, born, at, mode, chunk, claim, att, hand, mark, outcome, succ>>
  BY DEF IInv, TypeOK, PruneStep, Goto, Phases
<1> DEFINE Kept(k) == rows'[k] = rows[k]
           Lost(k) == /\ rows[k].status = "running" /\ SchedAt[k] <= at[w]
                      /\ rows'[k].status = "uncertain"
                      /\ rows'[k].attempt = rows[k].attempt
                      /\ rows'[k].settledAt = at[w]
           Gone(k) == /\ rows[k].status \notin {"absent", "running"}
                      /\ rows'[k].status = "absent" /\ rows'[k].attempt = 0
                      /\ Stale(k) /\ \A v \in Wakes : mode[v][k] = "none"
<1>2. \A k \in Keys : Stale(k) => \A v \in Wakes : mode[v][k] = "none"
  BY WindowOpen
<1>3. rows' \in [Keys -> Row] /\ \A k \in Keys : Kept(k) \/ Lost(k) \/ Gone(k)
  BY <1>1, <1>2, PruneRows DEF NoRow
<1>4. TypeOK'
  BY <1>1, <1>3 DEF IInv, TypeOK
<1>5. WakeInv'
  BY <1>1, ClaimFrame DEF IInv, WakeInv, WindowInv
<1>6. RowInv'
  BY <1>1, <1>3, TimesAreNumbers DEF IInv, RowInv
<1>7. \A v \in Wakes, k \in Keys : mode[v][k] = "none" =>
        claim[v][k] = "none" /\ hand[v][k] = "none"
  BY DEF IInv, WakeInv, WindowInv
<1>8. \A v \in Wakes, k \in Keys : mode[v][k] = "none" => ~Owns(v, k)
  BY <1>7 DEF Owns, OpenHandler
<1>9. OwnerInv' /\ RetryInv'
  BY <1>1, <1>3, <1>7, <1>8 DEF IInv, OwnerInv, RetryInv, Owns, SettleMatches
<1>10. SuccInv'
  BY <1>1, <1>3, <1>8 DEF IInv, SuccInv, Owns, Stale
<1> QED
  BY <1>4, <1>5, <1>6, <1>9, <1>10 DEF IInv

----------------------------------------------------------------------------
(* The theorems                                                             *)

(* Every step of every wake, and the passing of time, keeps IInv.           *)
LEMMA StepKeeps == IInv /\ [Next]_vars => IInv'
<1> SUFFICES ASSUME IInv, [Next]_vars PROVE IInv'
  OBVIOUS
<1>1. CASE UNCHANGED vars
  BY <1>1 DEF vars, IInv, TypeOK, WakeInv, TimeInv, WindowInv, ChunkInv, RowInv,
         OwnerInv, RetryInv, SuccInv, Owns, SettleMatches, Stale
<1>2. CASE Tick
  BY <1>2, TickKeeps
<1>3. ASSUME NEW w \in Wakes, Step(w) PROVE IInv'
  <2>1. CASE \E m \in [Keys -> Modes] : Begin(w, m)
    BY <2>1, BeginKeeps
  <2>2. CASE Migrated(w) \/ PruneStep(w) \/ NextChunk(w) \/ InspectLoad(w) \/ StartClaim(w)
    BY <2>2, MigratedKeeps, PruneStepKeeps, NextChunkKeeps, InspectLoadKeeps, StartClaimKeeps
  <2>3. CASE Insert(w) \/ Load(w) \/ Expire(w) \/ Retry(w) \/ Reload(w)
    BY <2>3, InsertKeeps, LoadKeeps, ExpireKeeps, RetryKeeps, ReloadKeeps
  <2>4. CASE \E k \in Keys : \E ok \in BOOLEAN : EndHandler(w, k, ok)
    BY <2>4, EndHandlerKeeps
  <2>5. CASE \E k \in Keys : StartHandler(w, k) \/ TimeOut(w, k)
    BY <2>5, StartHandlerKeeps, TimeOutKeeps
  <2>6. CASE \E k \in Keys : LateSettle(w, k) \/ LateSettleFails(w, k)
    BY <2>6, LateSettleKeeps
  <2>7. CASE Settle(w) \/ Throw(w)
    BY <2>7, SettleKeeps, ThrowKeeps
  <2>8. CASE Crash(w) \/ Retire(w)
    BY <2>8, ForgetKeeps DEF Crash, Retire
  <2> QED
    BY <1>3, <2>1, <2>2, <2>3, <2>4, <2>5, <2>6, <2>7, <2>8 DEF Step
<1> QED
  BY <1>1, <1>2, <1>3 DEF Next

(* The inductive invariant holds in every reachable state.                  *)
THEOREM Invariance == Spec => []IInv
BY InitHolds, StepKeeps, PTL DEF Spec

(* Type correctness.                                                        *)
THEOREM TypeCorrect == Spec => []TypeOK
<1>1. IInv => TypeOK
  BY DEF IInv
<1> QED
  BY <1>1, Invariance, PTL

(* Two handlers of one key never run at the same time: both their wakes     *)
(* would own the row.                                                       *)
THEOREM MutualExclusion == Spec => []OneHandlerPerKey
<1>1. IInv => OneHandlerPerKey
  BY DEF IInv, OwnerInv, Owns, OpenHandler, Running, OneHandlerPerKey
<1> QED
  BY <1>1, Invariance, PTL

(* However often a key is redelivered, it completes at most once.           *)
THEOREM CompletesAtMostOnce == Spec => []AtMostOneSuccess
<1>1. IInv => AtMostOneSuccess
  BY DEF IInv, SuccInv, AtMostOneSuccess
<1> QED
  BY <1>1, Invariance, PTL

(* settleMany always finds the claim it settles.                            *)
THEOREM ClaimsAreNeverLost == Spec => []SettlementFindsItsClaim
<1>1. IInv => SettlementFindsItsClaim
  BY DEF IInv, OwnerInv, Owns, SettlementFindsItsClaim
<1> QED
  BY <1>1, Invariance, PTL

(* The table tells what the handlers did: succeeded rows are those whose    *)
(* handler has completed, whoever settled them and however late.            *)
THEOREM TableIsTrue == Spec => []RowTellsTheTruth
<1>1. IInv => RowTellsTheTruth
  BY DEF IInv, SuccInv, RowTellsTheTruth
<1> QED
  BY <1>1, Invariance, PTL

(* A report that calls a wake complete is true: every item in it has been   *)
(* completed by some handler, this wake's or an earlier one's.              *)
THEOREM CompleteReportsAreTrue == Spec => []CompleteReportIsTrue
<1>1. IInv => CompleteReportIsTrue
  BY DEF IInv, SuccInv, CompleteReportIsTrue, Complete
<1> QED
  BY <1>1, Invariance, PTL

----------------------------------------------------------------------------
(* What a step does to the table                                            *)

(* The ways in which a step may change the row of a key.                    *)
RowInserted(k) ==
  /\ rows[k].status = "absent" /\ rows[k].attempt = 0
  /\ rows'[k].status = "running" /\ rows'[k].attempt = 1
  /\ succ[k] = 0 /\ ~Stale(k)
RowRetried(k) ==
  /\ rows[k].status = "failed"
  /\ rows'[k].status = "running" /\ rows'[k].attempt = rows[k].attempt + 1
RowExpired(k) ==
  /\ rows[k].status = "running"
  /\ rows'[k].status = "uncertain" /\ rows'[k].attempt = rows[k].attempt
RowSettled(k) ==
  /\ rows[k].status \in {"running", "uncertain"}
  /\ rows'[k].status = IF succ[k] = 1 THEN "succeeded" ELSE "failed"
  /\ rows'[k].attempt = rows[k].attempt
RowForgotten(k) ==
  /\ rows[k].status \notin {"absent", "running"} /\ rows'[k] = NoRow
  /\ Stale(k) /\ \A w \in Wakes : mode[w][k] = "none"
RowMoves ==
  \A k \in Keys : \/ rows'[k] = rows[k] \/ RowInserted(k) \/ RowRetried(k)
                  \/ RowExpired(k) \/ RowSettled(k) \/ RowForgotten(k)

(* claimMany's three statements.                                            *)
LEMMA ClaimMoves ==
  ASSUME IInv, NEW w \in Wakes, Insert(w) \/ Expire(w) \/ Retry(w)
  PROVE  RowMoves /\ UNCHANGED <<clock, succ>>
<1>1. \A k \in Keys : rows[k] \in Row /\ at[w] \in Nat
  BY DEF IInv, TypeOK
<1>2. CASE Insert(w)
  <2>1. \A k \in Keys :
          \/ rows'[k] = rows[k]
          \/ /\ rows[k].status = "absent" /\ mode[w][k] = "execute"
             /\ rows'[k].status = "running" /\ rows'[k].attempt = 1
    BY <1>1, <1>2 DEF Insert, Executed, InChunk, NewRow
  <2>2. \A k \in Keys : rows[k].status = "absent" /\ mode[w][k] = "execute" =>
          rows[k].attempt = 0 /\ succ[k] = 0 /\ ~Stale(k)
    BY WindowOpen DEF IInv, RowInv, SuccInv
  <2> QED
    BY <1>2, <2>1, <2>2 DEF RowMoves, RowInserted, Insert
<1>3. CASE Expire(w)
  BY <1>1, <1>3 DEF Expire, LeaseExpired, ExpiredRow, Row, RowMoves, RowExpired
<1>4. CASE Retry(w)
  <2>1. \A k \in Keys :
          \/ rows'[k] = rows[k]
          \/ rows[k].status = "failed" /\ rows'[k] = RetriedRow(rows[k], at[w])
    <3>1. \A k \in With(w, "retry") : RetryMatches(rows[k], att[w][k]) =>
            rows[k].status = "failed"
      BY DEF IInv, RetryMatches, RetryInv, With, Executed, InChunk
    <3>2. \A k \in Keys :
            \/ rows'[k] = rows[k]
            \/ /\ k \in With(w, "retry") /\ RetryMatches(rows[k], att[w][k])
               /\ rows'[k] = RetriedRow(rows[k], at[w])
      BY <1>4 DEF Retry
    <3> QED
      BY <3>1, <3>2
  <2>2. ASSUME NEW k \in Keys PROVE rows'[k] = rows[k] \/ RowRetried(k)
    <3>1. CASE rows'[k] = RetriedRow(rows[k], at[w]) /\ rows[k].status = "failed"
      BY <3>1 DEF RetriedRow, RowRetried
    <3> QED
      BY <2>1, <3>1
  <2> QED
    BY <1>4, <2>2 DEF Retry, RowMoves
<1> QED
  BY <1>2, <1>3, <1>4

(* Settlements write what the handler did.                                  *)
LEMMA SettlementMoves ==
  ASSUME IInv, NEW w \in Wakes,
         \/ Settle(w)
         \/ \E k \in Keys : LateSettle(w, k) \/ LateSettleFails(w, k)
  PROVE  RowMoves /\ UNCHANGED <<clock, succ>>
<1>1. \A k \in Keys :
        \/ rows'[k] = rows[k]
        \/ /\ hand[w][k] \in {"ok", "err", "lateOk", "lateErr"}
           /\ rows'[k] = SettledRow(rows[k], SettledAs(hand[w][k]), mark[w][k])
  BY DEF IInv, TypeOK, Settle, LateSettle, LateSettleFails
<1>2. ASSUME NEW k \in Keys, hand[w][k] \in {"ok", "err", "lateOk", "lateErr"}
      PROVE  /\ rows[k].status \in {"running", "uncertain"}
             /\ SettledAs(hand[w][k]) = IF succ[k] = 1 THEN "succeeded" ELSE "failed"
  <2>1. Owns(w, k)
    BY <1>2 DEF Owns, OpenHandler
  <2> QED
    BY <1>2, <2>1 DEF IInv, OwnerInv, SettleMatches, SuccInv, SettledAs
<1>3. ASSUME NEW k \in Keys PROVE rows'[k] = rows[k] \/ RowSettled(k)
  <2>1. rows[k] \in Row
    BY DEF IInv, TypeOK
  <2> QED
    BY <1>1, <1>2, <2>1, ZenonT(30) DEF SettledRow, Row, RowSettled
<1>4. UNCHANGED <<clock, succ>>
  BY DEF Settle, LateSettle, LateSettleFails
<1> QED
  BY <1>3, <1>4 DEF RowMoves

(* prune forgets only what is stale.                                        *)
LEMMA PruneMoves ==
  ASSUME IInv, NEW w \in Wakes, PruneStep(w)
  PROVE  RowMoves /\ UNCHANGED <<clock, succ>>
<1>1. prune(at[w]) /\ pc[w] # "idle" /\ UNCHANGED <<clock, succ>>
  BY DEF PruneStep
<1>2. \A k \in Keys : Stale(k) => \A v \in Wakes : mode[v][k] = "none"
  BY WindowOpen
<1> QED
  BY <1>1, <1>2, PruneRows DEF RowMoves, RowExpired, RowForgotten

(* Every step moves each row in one of these ways; completions and time     *)
(* never change in a step that changes the table.                           *)
LEMMA TableMoves ==
  ASSUME IInv, Next
  PROVE  \/ RowMoves /\ UNCHANGED <<clock, succ>>
         \/ UNCHANGED <<rows, succ>> /\ clock' = clock + 1
         \/ /\ UNCHANGED <<rows, clock>>
            /\ \E w \in Wakes, k \in Keys, ok \in BOOLEAN : EndHandler(w, k, ok)
<1>1. CASE Tick
  BY <1>1 DEF Tick
<1>2. ASSUME NEW w \in Wakes, Step(w), ~(RowMoves /\ UNCHANGED <<clock, succ>>)
      PROVE  \E k \in Keys, ok \in BOOLEAN : EndHandler(w, k, ok)
  <2>1. ASSUME UNCHANGED <<rows, clock, succ>> PROVE FALSE
    BY <1>2, <2>1 DEF RowMoves
  <2>2. ~(Insert(w) \/ Expire(w) \/ Retry(w))
    BY <1>2, ClaimMoves
  <2>3. ~(Settle(w) \/ \E k \in Keys : LateSettle(w, k) \/ LateSettleFails(w, k))
    BY <1>2, SettlementMoves
  <2>4. ~PruneStep(w)
    BY <1>2, PruneMoves
  <2>5. ~(Load(w) \/ Reload(w) \/ Migrated(w) \/ NextChunk(w) \/ InspectLoad(w) \/ StartClaim(w))
    BY <2>1 DEF Load, Reload, Migrated, NextChunk, InspectLoad, StartClaim
  <2>6. ~(Throw(w) \/ Crash(w) \/ Retire(w) \/ \E m \in [Keys -> Modes] : Begin(w, m))
    BY <2>1 DEF Throw, Crash, Retire, Begin
  <2>7. ~(\E k \in Keys : StartHandler(w, k) \/ TimeOut(w, k))
    BY <2>1 DEF StartHandler, TimeOut
  <2> QED
    BY <1>2, <2>2, <2>3, <2>4, <2>5, <2>6, <2>7 DEF Step
<1>3. ASSUME NEW w \in Wakes, NEW k \in Keys, NEW ok \in BOOLEAN, EndHandler(w, k, ok)
      PROVE  UNCHANGED <<rows, clock>>
  BY <1>3 DEF EndHandler
<1> QED
  BY <1>1, <1>2, <1>3 DEF Next

(* A new attempt starts only on an empty row or after a settled failure.    *)
THEOREM RetriesFollowFailures == Spec => RetryOnlyAfterFailure
<1> DEFINE Good == \A k \in Keys : rows'[k].attempt > rows[k].attempt =>
              \/ rows[k].status = "absent" /\ rows'[k].attempt = 1
              \/ rows[k].status = "failed" /\ rows'[k].attempt = rows[k].attempt + 1
<1>1. IInv /\ [Next]_vars => [Good]_vars
  <2> SUFFICES ASSUME IInv, Next PROVE Good
    OBVIOUS
  <2>1. \A k \in Keys : rows[k].attempt \in Nat
    BY DEF IInv, TypeOK, Row
  <2>2. CASE UNCHANGED rows
    BY <2>1, <2>2
  <2>3. CASE RowMoves
    BY <2>1, <2>3 DEF RowMoves, RowInserted, RowRetried, RowExpired, RowSettled,
           RowForgotten, NoRow
  <2> QED
    BY <2>2, <2>3, TableMoves
<1> QED
  BY <1>1, Invariance, PTL DEF Spec, RetryOnlyAfterFailure

(* A row is forgotten only when nobody can deliver its key any more.        *)
THEOREM OnlyStaleRowsAreForgotten == Spec => ForgottenOnlyWhenStale
<1> DEFINE Good == \A k \in Keys :
              rows[k].status # "absent" /\ rows'[k].status = "absent" =>
                /\ clock > SchedAt[k] + Redelivery
                /\ \A w \in Wakes : mode[w][k] = "none"
<1>1. IInv /\ [Next]_vars => [Good]_vars
  <2> SUFFICES ASSUME IInv, Next PROVE Good
    OBVIOUS
  <2>1. \A k \in Keys : Stale(k) => clock > SchedAt[k] + Redelivery
    BY ConstantsAreNumbers DEF Stale, IInv, TypeOK
  <2>2. CASE UNCHANGED rows
    BY <2>2
  <2>3. CASE RowMoves
    BY <2>1, <2>3 DEF RowMoves, RowInserted, RowRetried, RowExpired, RowSettled,
           RowForgotten
  <2> QED
    BY <2>2, <2>3, TableMoves
<1> QED
  BY <1>1, Invariance, PTL DEF Spec, ForgottenOnlyWhenStale

----------------------------------------------------------------------------
(* Refinement                                                               *)

(* The table implements the delivery ledger.                                *)
THEOREM Refinement == Spec => ImplementsLedger
<1> DEFINE st == [k \in Keys |->
              IF rows[k].status = "absent"
                THEN IF Stale(k) THEN "retired" ELSE "new"
                ELSE rows[k].status]
<1>1. Init => Ledger!Init
  <2> SUFFICES ASSUME Init PROVE Ledger!Init
    OBVIOUS
  <2>1. \A k \in Keys : ~Stale(k) /\ rows[k].status = "absent" /\ succ[k] = 0
    BY ConstantsAreNumbers DEF Init, Stale, NoneFor, NoRow
  <2> QED
    BY <2>1 DEF Init, Ledger!Init, NoneFor
<1>2. IInv /\ IInv' /\ [Next]_vars => [Ledger!Next]_<<st, succ>>
  <2> SUFFICES ASSUME IInv, IInv', Next PROVE Ledger!Next \/ UNCHANGED <<st, succ>>
    BY DEF vars, Stale
  <2>1. st' \in [Keys -> Ledger!States] /\ succ' \in [Keys -> {0, 1}]
    <3>1. \A k \in Keys : rows'[k].status # "timed_out"
      BY DEF IInv, RowInv
    <3> QED
      BY <3>1 DEF IInv, TypeOK, Row, RowStatus, SuccInv, Ledger!States
  <2>2. ASSUME RowMoves, UNCHANGED <<clock, succ>> PROVE Ledger!Next
    <3> SUFFICES ASSUME NEW k \in Keys
                 PROVE  \/ Ledger!Attempt(k) \/ Ledger!Conclude(k) \/ Ledger!Lapse(k)
                        \/ Ledger!Retire(k) \/ Ledger!Idle(k)
      BY <2>1 DEF Ledger!Next
    <3>1. Stale(k)' = Stale(k)
      BY <2>2 DEF Stale
    <3>2. CASE rows'[k] = rows[k]
      BY <2>2, <3>1, <3>2 DEF Ledger!Idle
    <3>3. CASE RowInserted(k)
      BY <2>2, <3>3 DEF RowInserted, Ledger!Attempt
    <3>4. CASE RowRetried(k)
      BY <2>2, <3>4 DEF RowRetried, Ledger!Attempt, IInv, SuccInv
    <3>5. CASE RowExpired(k)
      BY <2>2, <3>5 DEF RowExpired, Ledger!Lapse
    <3>6. CASE RowSettled(k)
      BY <2>2, <3>6 DEF RowSettled, Ledger!Conclude
    <3>7. CASE RowForgotten(k)
      BY <2>2, <3>1, <3>7 DEF RowForgotten, NoRow, Ledger!Retire
    <3> QED
      BY <2>2, <3>2, <3>3, <3>4, <3>5, <3>6, <3>7 DEF RowMoves
  <2>3. ASSUME UNCHANGED <<rows, succ>>, clock' = clock + 1 PROVE Ledger!Next
    <3>1. \A k \in Keys : Stale(k) => Stale(k)'
      BY <2>3, ConstantsAreNumbers DEF Stale, IInv, TypeOK
    <3>2. \A k \in Keys : Ledger!Retire(k) \/ Ledger!Idle(k)
      BY <2>3, <3>1 DEF Ledger!Retire, Ledger!Idle
    <3> QED
      BY <2>1, <3>2 DEF Ledger!Next
  <2>4. ASSUME NEW w \in Wakes, NEW k \in Keys, NEW ok \in BOOLEAN, EndHandler(w, k, ok)
        PROVE  Ledger!Next
    <3>1. Owns(w, k) /\ hand[w][k] \in {"live", "late"}
      BY <2>4 DEF EndHandler, Running, Owns, OpenHandler
    <3>2. succ[k] = 0 /\ rows[k].status \in {"running", "uncertain"}
      BY <3>1 DEF IInv, OwnerInv, SuccInv, SettleMatches
    <3>3. /\ UNCHANGED <<rows, clock>> /\ succ'[k] \in {0, 1}
          /\ \A j \in Keys : j # k => succ'[j] = succ[j]
      BY <2>4, <3>2 DEF EndHandler, IInv, TypeOK
    <3>4. \A j \in Keys : Stale(j)' = Stale(j)
      BY <3>3 DEF Stale
    <3>5. \A j \in Keys : j # k => Ledger!Idle(j)
      BY <3>3, <3>4 DEF Ledger!Idle
    <3>6. Ledger!Idle(k) \/ Ledger!Complete(k)
      BY <3>2, <3>3 DEF Ledger!Idle, Ledger!Complete
    <3> QED
      BY <2>1, <3>5, <3>6 DEF Ledger!Next
  <2> QED
    BY <2>2, <2>3, <2>4, TableMoves
<1> QED
  BY <1>1, <1>2, Invariance, PTL DEF Spec, ImplementsLedger, Ledger!Spec

=============================================================================
