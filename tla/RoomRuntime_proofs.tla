------------------------ MODULE RoomRuntime_proofs -------------------------
(***************************************************************************)
(* Proofs about RoomRuntime, for any number of connections, users and      *)
(* timers and any delays: types, and the safety invariants that tie the    *)
(* deadlines of an instance to its blob and its alarm, and its players to  *)
(* the platform's sockets.                                                 *)
(*                                                                         *)
(* Handlers are operators from a memory and storage pair r to such a pair, *)
(* so most of the work is one lemma per operator, about pairs and not      *)
(* about states; the lemmas about the actions put them together.           *)
(***************************************************************************)
EXTENDS RoomRuntime, WellFoundedInduction, TLAPS

-----------------------------------------------------------------------------
(* The inductive invariant: what holds of a pair of memory and storage     *)

Pairs == [m : MemType, d : DiskType]
Now == [m |-> mem, d |-> disk]

(* The blob b holds nothing but a cleanup or a TTL. *)
Bare(b) == PendingIn(b.auth) = {} /\ PendingIn(b.disc) = {} /\ ~Pending(b.save)

(* b is what is stored, or what is deleted of it was bare *)
Kept(b, d) == d.blob = b \/ (d.blob = NoBlob /\ Bare(b))

(* The blob that the write guard compares with is still there, *)
LastStored(r) == \A b \in r.m.last : Kept(b, r.d)
(* and agrees with memory where storage is deleted: a cleanup or a TTL     *)
(* that is cleared then makes the guard let the write through.             *)
LastAgrees(r) == \A b \in r.m.last : b.cleanup = r.m.cleanup /\ b.ttl = r.m.ttl
LastWritten(r) == \A b \in r.m.last : b = r.d.blob

Stored(r) ==
  /\ \A c \in Conns : Pending(r.m.auth[c]) => r.d.blob.auth[c] = r.m.auth[c]
  /\ \A u \in Users : Pending(r.m.disc[u]) => r.d.blob.disc[u] = r.m.disc[u]
  /\ Pending(r.m.save) => r.d.blob.save = r.m.save

DirtyHasSave(r) == r.m.dirty => Pending(r.m.save)
GraceAlone(r) ==
  \A u \in Users : Pending(r.m.disc[u]) => \A c \in Conns : r.m.players[c] # u

(* What holds at every step of every handler *)
Sound(r) ==
  /\ LastStored(r) /\ LastAgrees(r) /\ Stored(r)
  /\ DirtyHasSave(r) /\ GraceAlone(r)

(* What a handler may break for a moment and an alarm pass while it lasts  *)
Covered(r) ==
  \A x \in Deadlines(r.m) : Pending(r.d.alarm) /\ r.d.alarm <= Max({1, x})
Mirrored(r) == \A u \in Users : Pending(r.d.blob.disc[u]) => Pending(r.m.disc[u])
Backed(r) == BlobOf(r.m) = NoBlob => r.d.blob = NoBlob
Wakes(r) == r.d.blob # NoBlob => Pending(r.d.alarm)
Untagged(r) == ~r.m.tagged /\ ~r.d.tagged

-----------------------------------------------------------------------------
(* ... and of the states of the room                                       *)

Early == pass.stage \in {"idle", "timers"}
Deserts == \A c \in Conns : sock[c] = "none"

SoundInv == Sound(Now) /\ (pass = NoPass => Covered(Now))

(* An instance that is to be recovered has done nothing but accept and     *)
(* close sockets.                                                          *)
RecInv ==
  mem.rec =>
    /\ pass = NoPass /\ leaves = {} /\ \A c \in Conns : task[c] = "idle"
    /\ \A c \in Conns : mem.players[c] = None
    /\ \A u \in Users : mem.disc[u] = Null
    /\ ~mem.dirty /\ LastWritten(Now)

TaskInv ==
  /\ \A c \in Conns : task[c] # "idle" => awake
  /\ \A c \in Conns : task[c] = "join" => who[c] # None
  /\ \A c \in Conns : sock[c] = "none" /\ who[c] # None => task[c] = "join"
  /\ \A l \in leaves : l.why = "close" => \A c \in l.conns : sock[c] = "none"
  /\ \A l \in leaves : l.why = "leave" => \A c \in l.conns : task[c] = "leave"
  /\ \A k, l \in leaves :
       k.why = "leave" /\ l.why = "leave" /\ k.conns \cap l.conns # {} => k = l

(* A grace period that is still to be recovered is that of a user without  *)
(* a socket, *)
AbsentInv ==
  ~awake \/ mem.rec =>
    \A u \in Users : Pending(disk.blob.disc[u]) =>
      \A c \in Conns : sock[c] # "none" => who[c] # u

(* and so is one in the blob of an instance that never recovered: it was   *)
(* made without a socket.                                                  *)
MirrorInv == awake /\ ~mem.rec /\ Early => Deserts \/ Mirrored(Now)

(* An instance that looks like a new one *)
Detached ==
  /\ mem = Blank /\ leaves = {} /\ pass = NoPass /\ Deserts
  /\ \A c \in Conns : task[c] = "idle"

WakeInv ==
  /\ Untagged(Now)
  /\ awake /\ ~mem.rec /\ Early => Backed(Now) \/ Detached
  /\ pass = NoPass => Wakes(Now)

(* A room whose metadata is never touched *)
Plain == "metadata" \notin Uses

(* What a room holds, in memory and in storage *)
HeldInv == SoundInv /\ RecInv /\ AbsentInv /\ MirrorInv /\ (Plain => WakeInv)

IInv == TypeOK /\ HeldInv /\ TaskInv /\ LiveAuthedArePlayers

-----------------------------------------------------------------------------
(* Minima, maxima and deadlines                                            *)

(* A set of naturals has a least element, which Min finds. *)
LEMMA MinFacts ==
  ASSUME NEW S \in SUBSET Nat, S # {}
  PROVE  Min(S) \in S /\ \A x \in S : Min(S) <= x
<1> DEFINE R == OpToRel(<, Nat)
<1>1. \E x \in S : \A y \in S : ~(<<y, x>> \in R)
  <2> HIDE DEF R
  <2>1. IsWellFoundedOn(R, Nat)
    BY NatLessThanWellFounded DEF R
  <2> QED
    BY <2>1, WFMin
<1>2. \E x \in S : \A y \in S : x <= y
  <2>1. \A x, y \in Nat : y < x => <<y, x>> \in R
    BY DEF OpToRel
  <2> HIDE DEF R
  <2>2. PICK x \in S : \A y \in S : ~(<<y, x>> \in R)
    BY <1>1
  <2>3. ASSUME NEW y \in S
        PROVE  x <= y
    <3>1. x \in Nat /\ y \in Nat /\ ~(y < x)
      BY <2>1, <2>2
    <3> QED
      BY <3>1
  <2> QED
    BY <2>3
<1> QED
  BY <1>2 DEF Min

(* The greater of two integers, as FiniteSetsExt defines it. *)
LEMMA MaxFacts ==
  ASSUME NEW a \in Int, NEW b \in Int
  PROVE  Max({a, b}) = IF a >= b THEN a ELSE b
  BY DEF Max

(* What the assumption on the constants says, in the forms the proofs cite. *)
LEMMA Constants ==
  /\ {AuthTimeout, Heartbeat, SaveInterval, CleanupDelay, StateTTL} \subseteq Nat \ {0}
  /\ {ReconnectTimeout, MaxVer} \subseteq Nat /\ TimerDelays \subseteq Nat
  /\ Max({StateTTL, IdleTimeout}) \in Nat /\ IdleTimeout \in Nat
  /\ StateTTL <= Max({StateTTL, IdleTimeout}) /\ IdleTimeout <= Max({StateTTL, IdleTimeout})
  /\ None \notin Users
<1>1. /\ \A d \in {MaxPlayers, AuthTimeout, Heartbeat, SaveInterval, CleanupDelay,
                  IdleTimeout, StateTTL} : d \in Nat \ {0}
      /\ ReconnectTimeout \in Nat /\ MaxVer \in Nat /\ TimerDelays \subseteq Nat
      /\ None \notin Users
  BY RoomAssumption DEF RoomAssumption
<1>2. Max({StateTTL, IdleTimeout})
        = IF StateTTL >= IdleTimeout THEN StateTTL ELSE IdleTimeout
  <2>1. StateTTL \in Int /\ IdleTimeout \in Int
    BY <1>1
  <2> QED
    BY <2>1, MaxFacts
<1>3. StateTTL \in Nat /\ IdleTimeout \in Nat
  BY <1>1
<1> DEFINE max == Max({StateTTL, IdleTimeout})
<1>4. max = IF StateTTL >= IdleTimeout THEN StateTTL ELSE IdleTimeout
  BY <1>2
<1> HIDE DEF max
<1>5. max \in Nat /\ StateTTL <= max /\ IdleTimeout <= max
  BY <1>3, <1>4
<1> QED
  BY <1>1, <1>3, <1>5 DEF max

(* Delays are integers from Null on, and run down to 0 within their range. *)
LEMMA DelayFacts ==
  ASSUME NEW max \in Int, NEW x \in Delays(max)
  PROVE  x \in Int /\ x >= Null /\ (Pending(x) => x \in Nat) /\ Elapse(x) \in Delays(max)
  BY DEF Delays, Null, Pending, Elapse

(* A named timer is off or a natural number: the delays it may have. *)
LEMMA TimerFacts ==
  ASSUME NEW f \in TimersType, NEW t \in Timers
  PROVE  f[t] \in Int /\ f[t] >= Null /\ (Pending(f[t]) => f[t] \in Nat)
<1>1. f[t] = Null \/ \E ms \in TimerDelays : f[t] \in Delays(ms)
  BY DEF TimersType
<1>2. CASE f[t] = Null
  BY <1>2 DEF Null, Pending
<1>3. ASSUME NEW ms \in TimerDelays, f[t] \in Delays(ms)
      PROVE  f[t] \in Int /\ f[t] >= Null /\ (Pending(f[t]) => f[t] \in Nat)
  <2>1. ms \in Int
    BY Constants
  <2> QED
    BY <1>3, <2>1, DelayFacts
<1> QED
  BY <1>1, <1>2, <1>3

(* Whatever memory holds of its type, the deadlines the alarm is set for are *)
(* natural numbers.                                                          *)
LEMMA DeadlinesAreNat ==
  ASSUME NEW m \in MemType
  PROVE  Deadlines(m) \in SUBSET Nat
<1>1. ASSUME NEW t \in PendingIn(m.timers)
      PROVE  m.timers[t] \in Nat
  <2>1. m.timers \in TimersType /\ DOMAIN m.timers = Timers
    BY DEF MemType, TimersType
  <2>2. t \in Timers /\ Pending(m.timers[t])
    BY <2>1 DEF PendingIn
  <2> QED
    BY <2>1, <2>2, TimerFacts
<1>2. ASSUME NEW c \in PendingIn(m.auth)
      PROVE  m.auth[c] \in Nat
  <2>1. m.auth[c] \in Delays(AuthTimeout) /\ Pending(m.auth[c])
    BY DEF MemType, PendingIn
  <2> QED
    BY <2>1, DelayFacts, Constants, SMTT(30)
<1>3. ASSUME NEW u \in PendingIn(m.disc)
      PROVE  m.disc[u] \in Nat
  <2>1. m.disc[u] \in Delays(ReconnectTimeout) /\ Pending(m.disc[u])
    BY DEF MemType, PendingIn
  <2> QED
    BY <2>1, DelayFacts, Constants
<1>4. ASSUME NEW x \in {m.cleanup, m.save, m.ttl, m.beat}, Pending(x)
      PROVE  x \in Nat
  <2>1. \E max \in {CleanupDelay, SaveInterval, Max({StateTTL, IdleTimeout}),
                    Heartbeat} : x \in Delays(max)
    BY DEF MemType
  <2>2. PICK max \in Int : x \in Delays(max)
    BY <2>1, Constants
  <2> QED
    BY <1>4, <2>2, DelayFacts
<1> QED
  BY <1>1, <1>2, <1>3, <1>4 DEF Deadlines

-----------------------------------------------------------------------------
(* _scheduleNextAlarm and syncEphemeralTimersToStorage                     *)

(* A pair is its two parts, and what memory puts into the blob has the blob's *)
(* type.                                                                      *)
LEMMA PairParts ==
  ASSUME NEW r \in Pairs
  PROVE  /\ r = [m |-> r.m, d |-> r.d] /\ r.m \in MemType /\ r.d \in DiskType
         /\ BlobOf(r.m) \in BlobType
<1>1. r = [m |-> r.m, d |-> r.d] /\ r.m \in MemType /\ r.d \in DiskType
  BY DEF Pairs
<1>2. BlobOf(r.m) \in BlobType
  BY <1>1 DEF BlobOf, MemType, BlobType
<1> QED
  BY <1>1, <1>2

(* Arm touches the alarm only, and covers every deadline. *)
LEMMA ArmFacts ==
  ASSUME NEW r \in Pairs
  PROVE  /\ Arm(r) \in Pairs /\ Arm(r).m = r.m
         /\ Arm(r).d = [r.d EXCEPT !.alarm = Arm(r).d.alarm]
         /\ Covered(Arm(r))
         /\ IF Deadlines(r.m) = {} THEN Arm(r) = r ELSE Pending(Arm(r).d.alarm)
<1> DEFINE D == Deadlines(r.m)
<1>1. r = [m |-> r.m, d |-> r.d] /\ r.m \in MemType /\ r.d \in DiskType
  BY PairParts
<1>2. CASE D = {}
  <2>1. Arm(r) = r
    BY <1>2 DEF Arm
  <2> QED
    BY <1>1, <1>2, <2>1 DEF Covered, DiskType
<1>3. CASE D # {}
  <2>1. Min(D) \in D /\ D \in SUBSET Nat /\ \A x \in D : Min(D) <= x
    BY <1>1, <1>3, MinFacts, DeadlinesAreNat
  <2> DEFINE a == Max({1, Min(D)})
  <2>2. a \in Nat /\ Pending(a) /\ \A x \in D : a <= Max({1, x})
    <3>1. Min(D) \in Nat /\ a = IF 1 >= Min(D) THEN 1 ELSE Min(D)
      BY <2>1, MaxFacts
    <3>2. \A x \in D : x \in Nat /\ Max({1, x}) = IF 1 >= x THEN 1 ELSE x
      BY <2>1, MaxFacts
    <3> HIDE DEF D, a
    <3> QED
      BY <2>1, <3>1, <3>2 DEF Pending, Null
  <2>3. Arm(r) = [r EXCEPT !.d.alarm = a]
    BY <1>3 DEF Arm
  <2> HIDE DEF a, D
  <2>4. /\ Arm(r) = [m |-> r.m, d |-> [r.d EXCEPT !.alarm = a]]
        /\ Arm(r).m = r.m /\ Arm(r).d = [r.d EXCEPT !.alarm = a]
    BY <1>1, <2>3
  <2>5. Arm(r).d.alarm = a /\ Arm(r).d \in DiskType
    BY <1>1, <2>2, <2>4 DEF DiskType
  <2>6. Arm(r) \in Pairs
    BY <1>1, <2>4, <2>5 DEF Pairs
  <2>7. Covered(Arm(r))
    BY <2>2, <2>4, <2>5 DEF Covered, D
  <2> QED
    BY <1>3, <2>2, <2>4, <2>5, <2>6, <2>7 DEF D
<1> QED
  BY <1>2, <1>3

(* How EXCEPT builds a pair, whatever it puts in                           *)
LEMMA PairEdit ==
  ASSUME NEW r \in Pairs, NEW x
  PROVE  /\ [r EXCEPT !.m = x] = [m |-> x, d |-> r.d]
         /\ [r EXCEPT !.d = x] = [m |-> r.m, d |-> x]
  BY PairParts

(* The same of a pair that is written out. *)
LEMMA PairAgain ==
  ASSUME NEW a, NEW b, NEW x
  PROVE  /\ [[m |-> a, d |-> b] EXCEPT !.m = x] = [m |-> x, d |-> b]
         /\ [[m |-> a, d |-> b] EXCEPT !.d = x] = [m |-> a, d |-> x]
         /\ [m |-> a, d |-> b].m = a /\ [m |-> a, d |-> b].d = b
  OBVIOUS

(* Sync leaves the memory's deadlines in the blob, whether it writes or    *)
(* not, if a write is skipped only when the blob is there.                 *)
LEMMA SyncFacts ==
  ASSUME NEW r \in Pairs,
         \A b \in r.m.last : b = BlobOf(r.m) => Kept(b, r.d)
  PROVE  /\ Sync(r) \in Pairs
         /\ Sync(r).m = [r.m EXCEPT !.last = {BlobOf(r.m)}]
         /\ Sync(r).d = [r.d EXCEPT !.blob = Sync(r).d.blob]
         /\ Kept(BlobOf(r.m), Sync(r).d)
         /\ LastWritten(r) => Sync(r).d.blob = BlobOf(r.m)
<1> DEFINE b == BlobOf(r.m)
<1>1. /\ r = [m |-> r.m, d |-> r.d] /\ r.m \in MemType /\ r.d \in DiskType
      /\ b \in BlobType
  BY PairParts
<1>2. CASE r.m.last = {b}
  <2>1. Sync(r) = r
    BY <1>2 DEF Sync
  <2>2. r.m = [r.m EXCEPT !.last = {b}] /\ r.d = [r.d EXCEPT !.blob = r.d.blob]
    BY <1>1, <1>2 DEF MemType, DiskType
  <2> QED
    BY <1>2, <2>1, <2>2 DEF LastWritten
<1>3. CASE r.m.last # {b}
  <2>1. Sync(r) = [r EXCEPT !.m.last = {b}, !.d.blob = b]
    BY <1>3 DEF Sync
  <2> HIDE DEF b
  <2>2. /\ Sync(r) = [m |-> [r.m EXCEPT !.last = {b}], d |-> [r.d EXCEPT !.blob = b]]
        /\ Sync(r).m = [r.m EXCEPT !.last = {b}]
        /\ Sync(r).d = [r.d EXCEPT !.blob = b]
    BY <1>1, <2>1
  <2>3. Sync(r).m \in MemType /\ Sync(r).d \in DiskType /\ Sync(r).d.blob = b
    BY <1>1, <2>2 DEF MemType, DiskType
  <2>4. Sync(r) \in Pairs
    BY <2>2, <2>3 DEF Pairs
  <2> QED
    BY <2>2, <2>3, <2>4 DEF b, Kept
<1> QED
  BY <1>2, <1>3

(* What the blob of a pair says when it is that of its memory              *)
LEMMA KeptIsSound ==
  ASSUME NEW s \in Pairs, s.m.last = {BlobOf(s.m)}, Kept(BlobOf(s.m), s.d),
         DirtyHasSave(s), GraceAlone(s)
  PROVE  Sound(s) /\ Mirrored(s) /\ Backed(s)
<1> DEFINE b == BlobOf(s.m)
<1>1. s.m \in MemType /\ s.d \in DiskType
  BY PairParts
<1>2. /\ b.auth = s.m.auth /\ b.disc = s.m.disc /\ b.save = s.m.save
      /\ b.cleanup = s.m.cleanup /\ b.ttl = s.m.ttl
  BY DEF BlobOf
<1>3. DOMAIN s.m.auth = Conns /\ DOMAIN s.m.disc = Users
  BY <1>1 DEF MemType
<1>4. s.d.blob = NoBlob => \A u \in Users : ~Pending(s.d.blob.disc[u])
  BY DEF NoBlob, Idle, Pending
<1>5. Bare(b) => /\ \A c \in Conns : ~Pending(s.m.auth[c])
                 /\ \A u \in Users : ~Pending(s.m.disc[u])
                 /\ ~Pending(s.m.save)
  BY <1>2, <1>3 DEF Bare, PendingIn
<1> HIDE DEF b
<1>6. b = BlobOf(s.m)
  BY DEF b
<1>7. LastStored(s) /\ LastAgrees(s)
  BY <1>2, <1>6 DEF LastStored, LastAgrees
<1>8. Stored(s)
  BY <1>2, <1>5, <1>6 DEF Stored, Kept
<1>9. Mirrored(s)
  BY <1>2, <1>4, <1>6 DEF Mirrored, Kept
<1>10. Backed(s)
  BY <1>6 DEF Backed, Kept
<1> QED
  BY <1>7, <1>8, <1>9, <1>10 DEF Sound

(* A blob that is not empty is a deadline. *)
LEMMA NothingHeld ==
  ASSUME NEW m \in MemType, Deadlines(m) = {}
  PROVE  BlobOf(m) = NoBlob
<1>1. PendingIn(m.auth) = {} /\ PendingIn(m.disc) = {}
  BY DEF Deadlines
<1>2. m.save = Null /\ m.cleanup = Null /\ m.ttl = Null
  BY DEF Deadlines, Pending
<1>3. m.auth = Idle(Conns) /\ m.disc = Idle(Users)
  BY <1>1 DEF MemType, PendingIn, Pending, Idle
<1> QED
  BY <1>2, <1>3 DEF BlobOf, NoBlob

(* What a step of a handler keeps: s is the pair r becomes. *)
Follows(r, s) ==
  /\ s.m.rec = r.m.rec /\ s.m.tagged = r.m.tagged /\ s.d.tagged = r.d.tagged
  /\ Covered(r) => Covered(s)
  /\ Mirrored(r) => Mirrored(s)
  /\ Backed(r) => Backed(s)
  /\ Wakes(r) => Wakes(s)

(* Following is transitive: operators in a row are taken one at a time. *)
LEMMA FollowsOn ==
  ASSUME NEW r, NEW s, NEW t, Follows(r, s), Follows(s, t)
  PROVE  Follows(r, t)
  BY DEF Follows

(* The end of most handlers: sync and re-arm *)
LEMMA SyncArmFacts ==
  ASSUME NEW r \in Pairs,
         \A b \in r.m.last : b = BlobOf(r.m) => Kept(b, r.d),
         DirtyHasSave(r), GraceAlone(r)
  PROVE  /\ SyncArm(r) \in Pairs /\ Sound(SyncArm(r)) /\ Covered(SyncArm(r))
         /\ Mirrored(SyncArm(r)) /\ Backed(SyncArm(r)) /\ Wakes(SyncArm(r))
         /\ SyncArm(r).m = [r.m EXCEPT !.last = {BlobOf(r.m)}]
         /\ SyncArm(r).d.tagged = r.d.tagged
         /\ SyncArm(r).m.players = r.m.players /\ SyncArm(r).m.rec = r.m.rec
         /\ SyncArm(r).m.tagged = r.m.tagged /\ SyncArm(r).m.disc = r.m.disc
         /\ LastWritten(r) => LastWritten(SyncArm(r))
<1> DEFINE q == Sync(r)
           s == SyncArm(r)
<1>1. /\ q \in Pairs /\ q.m = [r.m EXCEPT !.last = {BlobOf(r.m)}]
      /\ q.d = [r.d EXCEPT !.blob = q.d.blob]
      /\ Kept(BlobOf(r.m), q.d) /\ (LastWritten(r) => q.d.blob = BlobOf(r.m))
  BY SyncFacts
<1>2. s = Arm(q)
  BY DEF SyncArm
<1> HIDE DEF q, s
<1>3. /\ s \in Pairs /\ s.m = q.m /\ s.d = [q.d EXCEPT !.alarm = s.d.alarm]
      /\ Covered(s)
      /\ IF Deadlines(q.m) = {} THEN s = q ELSE Pending(s.d.alarm)
  BY <1>1, <1>2, ArmFacts
<1>4. r.m \in MemType /\ r.d \in DiskType /\ q.m \in MemType /\ q.d \in DiskType
  BY <1>1, PairParts
<1>5. /\ s.m.players = r.m.players /\ s.m.rec = r.m.rec /\ s.m.tagged = r.m.tagged
      /\ s.m.disc = r.m.disc /\ s.m.dirty = r.m.dirty /\ s.m.save = r.m.save
      /\ s.m.last = {BlobOf(r.m)}
  BY <1>1, <1>3, <1>4 DEF MemType
<1>6. BlobOf(s.m) = BlobOf(r.m)
  BY <1>1, <1>3, <1>4 DEF MemType, BlobOf
<1>7. s.d.blob = q.d.blob /\ s.d.tagged = r.d.tagged
  BY <1>1, <1>3, <1>4 DEF DiskType
<1>8. Kept(BlobOf(s.m), s.d) /\ (LastWritten(r) => LastWritten(s))
  BY <1>1, <1>5, <1>6, <1>7 DEF Kept, LastWritten
<1>9. DirtyHasSave(s) /\ GraceAlone(s)
  BY <1>5 DEF DirtyHasSave, GraceAlone
<1>10. Sound(s) /\ Mirrored(s) /\ Backed(s)
  BY <1>3, <1>5, <1>6, <1>8, <1>9, KeptIsSound
<1>11. Wakes(s)
  <2>1. CASE Deadlines(q.m) = {}
    <3>1. BlobOf(s.m) = NoBlob
      BY <1>3, <1>4, <2>1, NothingHeld
    <3> QED
      BY <1>10, <3>1 DEF Backed, Wakes
  <2>2. CASE Deadlines(q.m) # {}
    BY <1>3, <2>2 DEF Wakes
  <2> QED
    BY <2>1, <2>2
<1> QED
  BY <1>1, <1>3, <1>5, <1>7, <1>8, <1>10, <1>11 DEF s

-----------------------------------------------------------------------------
(* What the steps of handlers keep                                         *)

(* s differs from r in nothing that is in the blob, nor in who is there. *)
Alike(r, s) ==
  /\ s.m.last = r.m.last /\ s.m.auth = r.m.auth /\ s.m.disc = r.m.disc
  /\ s.m.save = r.m.save /\ s.m.cleanup = r.m.cleanup /\ s.m.ttl = r.m.ttl
  /\ s.m.dirty = r.m.dirty /\ s.m.players = r.m.players
  /\ s.d.blob = r.d.blob

(* What differs in nothing the blob is made of is as sound as before. *)
LEMMA AlikeKeeps ==
  ASSUME NEW r, NEW s, Alike(r, s), Sound(r)
  PROVE  /\ Sound(s) /\ (Mirrored(r) => Mirrored(s)) /\ (Backed(r) => Backed(s))
         /\ LastWritten(r) => LastWritten(s)
<1>1. BlobOf(s.m) = BlobOf(r.m)
  BY DEF Alike, BlobOf
<1>2. LastStored(s) /\ LastAgrees(s) /\ (LastWritten(r) => LastWritten(s))
  BY DEF Alike, Sound, LastStored, LastAgrees, LastWritten, Kept
<1>3. Stored(s) /\ DirtyHasSave(s) /\ GraceAlone(s) /\ (Mirrored(r) => Mirrored(s))
  BY DEF Alike, Sound, Stored, DirtyHasSave, GraceAlone, Mirrored
<1>4. Backed(r) => Backed(s)
  BY <1>1 DEF Alike, Backed
<1> QED
  BY <1>2, <1>3, <1>4 DEF Sound

(* _scheduleNextAlarm leaves memory and blob alone and covers the deadlines. *)
LEMMA ArmKeeps ==
  ASSUME NEW r \in Pairs, Sound(r)
  PROVE  /\ Arm(r) \in Pairs /\ Sound(Arm(r)) /\ Covered(Arm(r)) /\ Follows(r, Arm(r))
         /\ Arm(r).m = r.m /\ (LastWritten(r) => LastWritten(Arm(r)))
         /\ Arm(r).d.blob = r.d.blob
<1> DEFINE s == Arm(r)
<1>1. /\ s \in Pairs /\ s.m = r.m /\ s.d = [r.d EXCEPT !.alarm = s.d.alarm] /\ Covered(s)
      /\ IF Deadlines(r.m) = {} THEN s = r ELSE Pending(s.d.alarm)
  BY ArmFacts
<1> HIDE DEF s
<1>2. s.d.blob = r.d.blob /\ s.d.tagged = r.d.tagged
  BY <1>1, PairParts DEF DiskType
<1>3. Alike(r, s)
  BY <1>1, <1>2 DEF Alike
<1>4. Wakes(r) => Wakes(s)
  BY <1>1, <1>2 DEF Wakes
<1>5. Sound(s) /\ (Mirrored(r) => Mirrored(s)) /\ (Backed(r) => Backed(s))
      /\ (LastWritten(r) => LastWritten(s))
  BY <1>3, AlikeKeeps
<1> QED
  BY <1>1, <1>2, <1>4, <1>5 DEF Follows, s

(* A change of memory that is synced at once                               *)
LEMMA SyncArmAfter ==
  ASSUME NEW q \in Pairs, LastStored(q), DirtyHasSave(q), GraceAlone(q),
         NEW s, s = SyncArm(q)
  PROVE  /\ s \in Pairs /\ Sound(s) /\ Covered(s) /\ Mirrored(s) /\ Backed(s) /\ Wakes(s)
         /\ s.m = [q.m EXCEPT !.last = {BlobOf(q.m)}] /\ s.d.tagged = q.d.tagged
         /\ s.m.players = q.m.players /\ s.m.rec = q.m.rec /\ s.m.tagged = q.m.tagged
         /\ s.m.disc = q.m.disc /\ (LastWritten(q) => LastWritten(s))
<1>1. \A b \in q.m.last : b = BlobOf(q.m) => Kept(b, q.d)
  BY DEF LastStored
<1> QED
  BY <1>1, SyncArmFacts

(* Nothing pending, the full delay and what is left of a delay have its    *)
(* type.                                                                   *)
LEMMA FitFacts ==
  ASSUME NEW max \in Nat
  PROVE  Null \in Delays(max) /\ max \in Delays(max) /\ Pending(max)
  BY DEF Null, Delays, Pending

(* A timer that is off has its type. *)
LEMMA NullFits ==
  /\ Null \in Delays(AuthTimeout) /\ Null \in Delays(ReconnectTimeout)
  /\ Null \in Delays(SaveInterval) /\ Null \in Delays(CleanupDelay)
  /\ Null \in Delays(Max({StateTTL, IdleTimeout})) /\ Null \in Delays(Heartbeat)
  /\ Null \in Delays(StateTTL)
  BY FitFacts, Constants

(* A timer that is set to its full delay has its type. *)
LEMMA FullFits ==
  /\ AuthTimeout \in Delays(AuthTimeout) /\ ReconnectTimeout \in Delays(ReconnectTimeout)
  /\ SaveInterval \in Delays(SaveInterval) /\ CleanupDelay \in Delays(CleanupDelay)
  /\ StateTTL \in Delays(Max({StateTTL, IdleTimeout})) /\ Heartbeat \in Delays(Heartbeat)
  /\ IdleTimeout \in Delays(Max({StateTTL, IdleTimeout})) /\ StateTTL \in Delays(StateTTL)
  /\ Pending(SaveInterval)
<1> DEFINE max == Max({StateTTL, IdleTimeout})
<1>1. /\ max \in Nat /\ StateTTL <= max /\ IdleTimeout <= max
      /\ StateTTL \in Nat /\ IdleTimeout \in Nat
  BY Constants
<1> HIDE DEF max
<1>2. StateTTL \in Delays(max) /\ IdleTimeout \in Delays(max)
  BY <1>1 DEF Delays, Null
<1>3. /\ AuthTimeout \in Delays(AuthTimeout) /\ ReconnectTimeout \in Delays(ReconnectTimeout)
      /\ SaveInterval \in Delays(SaveInterval) /\ CleanupDelay \in Delays(CleanupDelay)
      /\ Heartbeat \in Delays(Heartbeat) /\ StateTTL \in Delays(StateTTL)
      /\ Pending(SaveInterval)
  BY FitFacts, Constants
<1> QED
  BY <1>2, <1>3 DEF max

(* Dropping an auth deadline keeps a pair sound; where there is none it does *)
(* nothing.                                                                  *)
LEMMA DropAuthKeeps ==
  ASSUME NEW r \in Pairs, Sound(r), NEW c \in Conns
  PROVE  /\ DropAuth(r, c) \in Pairs /\ Sound(DropAuth(r, c)) /\ Follows(r, DropAuth(r, c))
         /\ DropAuth(r, c).m.disc = r.m.disc
         /\ DropAuth(r, c).m.players = r.m.players
         /\ LastWritten(r) => LastWritten(DropAuth(r, c))
         /\ Mirrored(DropAuth(r, c)) \/ DropAuth(r, c).d.blob = r.d.blob
         /\ ~Pending(r.m.auth[c]) => DropAuth(r, c) = r
         /\ DropAuth(r, c).m.dirty = r.m.dirty
<1> DEFINE m == [r.m EXCEPT !.auth = [r.m.auth EXCEPT ![c] = Null]]
<1>1. r = [m |-> r.m, d |-> r.d] /\ r.m \in MemType /\ r.d \in DiskType
  BY PairParts
<1>2. CASE Pending(r.m.auth[c])
  <2> DEFINE q == [m |-> m, d |-> r.d]
             s == DropAuth(r, c)
  <2>1. s = SyncArm(q)
    <3>1. [r EXCEPT !.m.auth[c] = Null] = q
      BY <1>1
    <3> QED
      BY <1>2, <3>1 DEF DropAuth
  <2>2. /\ m \in MemType /\ q.m = m /\ q.d = r.d
        /\ m.last = r.m.last /\ m.dirty = r.m.dirty /\ m.save = r.m.save
        /\ m.disc = r.m.disc /\ m.players = r.m.players /\ m.rec = r.m.rec
        /\ m.tagged = r.m.tagged
    BY <1>1, NullFits DEF MemType
  <2>3. q \in Pairs
    BY <1>1, <2>2 DEF Pairs
  <2> HIDE DEF m, q, s
  <2>4. LastStored(q) /\ DirtyHasSave(q) /\ GraceAlone(q) /\ (LastWritten(r) => LastWritten(q))
    BY <2>2 DEF Sound, LastStored, DirtyHasSave, GraceAlone, LastWritten
  <2>5. /\ s \in Pairs /\ Sound(s) /\ Covered(s) /\ Mirrored(s) /\ Backed(s) /\ Wakes(s)
        /\ s.d.tagged = q.d.tagged /\ s.m.players = q.m.players /\ s.m.rec = q.m.rec
        /\ s.m.tagged = q.m.tagged /\ s.m.disc = q.m.disc
        /\ LastWritten(q) => LastWritten(s)
        /\ s.m = [q.m EXCEPT !.last = {BlobOf(q.m)}]
    BY <2>1, <2>3, <2>4, SyncArmAfter
  <2>6. Follows(r, s)
    BY <2>2, <2>5 DEF Follows
  <2>7. s.m.dirty = r.m.dirty
    BY <2>2, <2>5 DEF MemType
  <2> QED
    BY <1>2, <2>2, <2>4, <2>5, <2>6, <2>7 DEF s
<1>3. CASE ~Pending(r.m.auth[c])
  BY <1>3 DEF DropAuth, Follows
<1> QED
  BY <1>2, <1>3

(* Dropping a grace period keeps a pair sound and starts no other. *)
LEMMA DropDiscKeeps ==
  ASSUME NEW r \in Pairs, Sound(r), NEW u \in Users
  PROVE  /\ DropDisc(r, u) \in Pairs /\ Sound(DropDisc(r, u)) /\ Follows(r, DropDisc(r, u))
         /\ DropDisc(r, u).m.players = r.m.players
         /\ ~Pending(DropDisc(r, u).m.disc[u])
         /\ \A v \in Users : Pending(DropDisc(r, u).m.disc[v]) => Pending(r.m.disc[v])
<1> DEFINE m == [r.m EXCEPT !.disc = [r.m.disc EXCEPT ![u] = Null]]
<1>1. r = [m |-> r.m, d |-> r.d] /\ r.m \in MemType /\ r.d \in DiskType
  BY PairParts
<1>2. CASE Pending(r.m.disc[u])
  <2> DEFINE q == [m |-> m, d |-> r.d]
             s == DropDisc(r, u)
  <2>1. s = SyncArm(q)
    <3>1. [r EXCEPT !.m.disc[u] = Null] = q
      BY <1>1
    <3> QED
      BY <1>2, <3>1 DEF DropDisc
  <2>2. /\ m \in MemType /\ q.m = m /\ q.d = r.d
        /\ m.last = r.m.last /\ m.dirty = r.m.dirty /\ m.save = r.m.save
        /\ m.players = r.m.players /\ m.rec = r.m.rec /\ m.tagged = r.m.tagged
        /\ \A v \in Users : m.disc[v] = IF v = u THEN Null ELSE r.m.disc[v]
    BY <1>1, NullFits DEF MemType
  <2>3. q \in Pairs
    BY <1>1, <2>2 DEF Pairs
  <2> HIDE DEF m, q, s
  <2>4. \A v \in Users : Pending(q.m.disc[v]) => v # u /\ Pending(r.m.disc[v])
    BY <2>2 DEF Pending
  <2>5. LastStored(q) /\ DirtyHasSave(q) /\ GraceAlone(q)
    BY <2>2, <2>4 DEF Sound, LastStored, DirtyHasSave, GraceAlone
  <2>6. /\ s \in Pairs /\ Sound(s) /\ Covered(s) /\ Mirrored(s) /\ Backed(s) /\ Wakes(s)
        /\ s.d.tagged = q.d.tagged /\ s.m.players = q.m.players /\ s.m.rec = q.m.rec
        /\ s.m.tagged = q.m.tagged /\ s.m.disc = q.m.disc
    BY <2>1, <2>3, <2>5, SyncArmAfter
  <2>7. Follows(r, s)
    BY <2>2, <2>6 DEF Follows
  <2> QED
    BY <2>2, <2>4, <2>6, <2>7 DEF s
<1>3. CASE ~Pending(r.m.disc[u])
  BY <1>3 DEF DropDisc, Follows
<1> QED
  BY <1>2, <1>3

(* Fewer deadlines than before are covered by the same alarm. *)
LEMMA FewerCovered ==
  ASSUME NEW r, NEW s, Covered(r), s.d.alarm = r.d.alarm,
         Deadlines(s.m) \subseteq Deadlines(r.m)
  PROVE  Covered(s)
  BY DEF Covered

(* Starting or stopping the heartbeat with the sockets keeps a pair sound and *)
(* its blob as it was.                                                        *)
LEMMA EnsureBeatKeeps ==
  ASSUME NEW r \in Pairs, Sound(r), NEW listed
  PROVE  LET s == EnsureBeat(r, listed)
         IN /\ s \in Pairs /\ Sound(s) /\ Follows(r, s) /\ s.m.disc = r.m.disc
            /\ s.m.players = r.m.players
            /\ s.m.last = r.m.last /\ s.m.dirty = r.m.dirty
            /\ LastWritten(r) => LastWritten(s)
            /\ s.d.blob = r.d.blob
            /\ listed = {} /\ r.m.beat = Null => s = r
<1>1. r = [m |-> r.m, d |-> r.d] /\ r.m \in MemType /\ r.d \in DiskType
  BY PairParts
<1>2. CASE listed = {}
  <2> DEFINE m == [r.m EXCEPT !.beat = Null]
             s == [m |-> m, d |-> r.d]
  <2>1. EnsureBeat(r, listed) = s
    BY <1>1, <1>2 DEF EnsureBeat
  <2>2. s \in Pairs
    BY <1>1, NullFits DEF Pairs, MemType
  <2>3. Alike(r, s)
    BY <1>1 DEF Alike, MemType
  <2>4. s.m.rec = r.m.rec /\ s.m.tagged = r.m.tagged /\ s.d = r.d
    BY <1>1 DEF MemType
  <2>5. Deadlines(s.m) \subseteq Deadlines(r.m)
    <3>1. /\ m.auth = r.m.auth /\ m.disc = r.m.disc /\ m.timers = r.m.timers
          /\ m.save = r.m.save /\ m.cleanup = r.m.cleanup /\ m.ttl = r.m.ttl
          /\ m.beat = Null /\ s.m = m
      BY <1>1 DEF MemType
    <3> HIDE DEF m, s
    <3> QED
      BY <3>1 DEF Deadlines, Pending
  <2>9. r.m.beat = Null => s = r
    <3>1. r.m.beat = Null => m = r.m
      BY <1>1 DEF MemType
    <3> HIDE DEF m
    <3> QED
      BY <1>1, <3>1
  <2> HIDE DEF s
  <2>6. Covered(r) => Covered(s)
    BY <2>4, <2>5, FewerCovered
  <2>7. Wakes(r) => Wakes(s)
    BY <2>4 DEF Wakes
  <2>8. /\ Sound(s) /\ (Mirrored(r) => Mirrored(s)) /\ (Backed(r) => Backed(s))
        /\ LastWritten(r) => LastWritten(s)
    BY <2>3, AlikeKeeps
  <2> QED
    BY <2>1, <2>2, <2>3, <2>4, <2>6, <2>7, <2>8, <2>9 DEF Alike, Follows
<1>3. CASE listed # {} /\ Pending(r.m.beat) /\ r.m.beat <= Heartbeat
  BY <1>3 DEF EnsureBeat, Follows
<1>4. CASE listed # {} /\ ~(Pending(r.m.beat) /\ r.m.beat <= Heartbeat)
  <2> DEFINE m == [r.m EXCEPT !.beat = Heartbeat]
             q == [m |-> m, d |-> r.d]
  <2>1. EnsureBeat(r, listed) = Arm(q)
    BY <1>1, <1>4 DEF EnsureBeat
  <2>2. q \in Pairs
    BY <1>1, FullFits DEF Pairs, MemType
  <2>3. Alike(r, q)
    BY <1>1 DEF Alike, MemType
  <2>4. q.m.rec = r.m.rec /\ q.m.tagged = r.m.tagged /\ q.d = r.d
    BY <1>1 DEF MemType
  <2> HIDE DEF q
  <2>5. /\ Sound(q) /\ (Mirrored(r) => Mirrored(q)) /\ (Backed(r) => Backed(q))
        /\ LastWritten(r) => LastWritten(q)
    BY <2>3, AlikeKeeps
  <2>6. Wakes(r) => Wakes(q)
    BY <2>4 DEF Wakes
  <2>7. /\ Arm(q) \in Pairs /\ Sound(Arm(q)) /\ Covered(Arm(q)) /\ Follows(q, Arm(q))
        /\ Arm(q).m = q.m /\ (LastWritten(q) => LastWritten(Arm(q)))
        /\ Arm(q).d.blob = q.d.blob
    BY <2>2, <2>5, ArmKeeps
  <2> QED
    BY <1>4, <2>1, <2>3, <2>4, <2>5, <2>6, <2>7 DEF Alike, Follows
<1> QED
  BY <1>2, <1>3, <1>4

(* markDirty keeps a pair sound: dirty memory gets a save deadline, in the blob *)
(* and under the alarm.                                                         *)
LEMMA MarkDirtyKeeps ==
  ASSUME NEW r \in Pairs, Sound(r)
  PROVE  LET s == MarkDirty(r)
         IN /\ s \in Pairs /\ Sound(s) /\ Follows(r, s) /\ Covered(s)
            /\ s.m.disc = r.m.disc /\ s.m.players = r.m.players
<1>1. r = [m |-> r.m, d |-> r.d] /\ r.m \in MemType /\ r.d \in DiskType
  BY PairParts
<1> DEFINE s == MarkDirty(r)
<1>2. CASE Pending(r.m.save)
  <2> DEFINE m == [r.m EXCEPT !.dirty = TRUE]
             q == [m |-> m, d |-> r.d]
  <2>1. s = Arm(q)
    <3>1. [r EXCEPT !.m.dirty = TRUE] = q
      BY PairEdit
    <3> HIDE DEF q
    <3> QED
      BY <1>2, <3>1 DEF MarkDirty
  <2>2. q \in Pairs
    BY <1>1 DEF Pairs, MemType
  <2>3. /\ m.last = r.m.last /\ m.auth = r.m.auth /\ m.disc = r.m.disc
        /\ m.save = r.m.save /\ m.cleanup = r.m.cleanup /\ m.ttl = r.m.ttl
        /\ m.players = r.m.players /\ m.rec = r.m.rec /\ m.tagged = r.m.tagged
        /\ q.m = m /\ q.d = r.d
    BY <1>1 DEF MemType
  <2> HIDE DEF q, m, s
  <2>4. BlobOf(q.m) = BlobOf(r.m)
    BY <2>3 DEF BlobOf
  <2>5. Sound(q)
    BY <1>2, <2>3 DEF Sound, LastStored, LastAgrees, Stored, DirtyHasSave, GraceAlone
  <2>6. s \in Pairs /\ Sound(s) /\ Covered(s) /\ Follows(q, s) /\ s.m = q.m
    BY <2>1, <2>2, <2>5, ArmKeeps
  <2>7. /\ Mirrored(r) => Mirrored(q)
        /\ Backed(r) => Backed(q)
        /\ Wakes(r) => Wakes(q)
    BY <2>3, <2>4 DEF Mirrored, Backed, Wakes
  <2>8. Follows(r, s) /\ s.m.disc = r.m.disc /\ s.m.players = r.m.players
    BY <2>3, <2>6, <2>7 DEF Follows
  <2> QED
    BY <2>6, <2>8 DEF s
<1>3. CASE ~Pending(r.m.save)
  <2> DEFINE m == [r.m EXCEPT !.dirty = TRUE, !.save = SaveInterval]
             q == [m |-> m, d |-> r.d]
  <2>1. s = SyncArm(q)
    <3>1. [r EXCEPT !.m = [@ EXCEPT !.dirty = TRUE, !.save = SaveInterval]] = q
      BY PairEdit
    <3> HIDE DEF q
    <3> QED
      BY <1>3, <3>1 DEF MarkDirty
  <2>2. /\ m \in MemType /\ q.m = m /\ q.d = r.d
        /\ m.last = r.m.last /\ m.save = SaveInterval
        /\ m.disc = r.m.disc /\ m.players = r.m.players /\ m.rec = r.m.rec
        /\ m.tagged = r.m.tagged
    BY <1>1, FullFits DEF MemType
  <2>3. q \in Pairs
    BY <1>1, <2>2 DEF Pairs
  <2> HIDE DEF m, q, s
  <2>4. LastStored(q) /\ DirtyHasSave(q) /\ GraceAlone(q)
    BY <2>2, FullFits DEF Sound, LastStored, DirtyHasSave, GraceAlone
  <2>5. /\ s \in Pairs /\ Sound(s) /\ Covered(s) /\ Mirrored(s) /\ Backed(s) /\ Wakes(s)
        /\ s.d.tagged = q.d.tagged /\ s.m.players = q.m.players /\ s.m.rec = q.m.rec
        /\ s.m.tagged = q.m.tagged /\ s.m.disc = q.m.disc
    BY <2>1, <2>3, <2>4, SyncArmAfter
  <2>6. Follows(r, s)
    BY <2>2, <2>5 DEF Follows
  <2> QED
    BY <2>2, <2>5, <2>6 DEF s
<1> QED
  BY <1>2, <1>3

(* What saves, cleanups and the end of the room leave behind               *)
Settled(s) == Sound(s) /\ Covered(s) /\ Mirrored(s) /\ Backed(s) /\ Wakes(s)

(* A save leaves a sound pair that is clean, stored, covered and mirrored. *)
LEMMA PersistStateKeeps ==
  ASSUME NEW r \in Pairs, LastStored(r), GraceAlone(r)
  PROVE  LET s == PersistState(r)
         IN /\ s \in Pairs /\ Settled(s) /\ Follows(r, s)
            /\ s.m.disc = r.m.disc /\ s.m.players = r.m.players
<1> DEFINE s == PersistState(r)
           m == [r.m EXCEPT !.dirty = FALSE, !.save = Null, !.ttl = StateTTL]
           d == [r.d EXCEPT
                   !.state = [ver |-> r.m.ver, ps |-> r.m.ps, left |-> StateTTL],
                   !.timers = r.m.timers]
           q == [m |-> m, d |-> d]
<1>1. r.m \in MemType /\ r.d \in DiskType
  BY PairParts
<1>2. s = SyncArm(q)
  BY DEF PersistState
<1>3. /\ m \in MemType /\ m.last = r.m.last /\ ~m.dirty /\ m.disc = r.m.disc
      /\ m.players = r.m.players /\ m.rec = r.m.rec /\ m.tagged = r.m.tagged
  BY <1>1, NullFits, FullFits DEF MemType
<1>4. d \in DiskType /\ d.blob = r.d.blob /\ d.tagged = r.d.tagged
  BY <1>1, FullFits DEF MemType, DiskType
<1>5. q \in Pairs /\ q.m = m /\ q.d = d
  BY <1>3, <1>4 DEF Pairs
<1> HIDE DEF s, m, d, q
<1>6. LastStored(q) /\ DirtyHasSave(q) /\ GraceAlone(q)
  BY <1>3, <1>4, <1>5 DEF LastStored, Kept, DirtyHasSave, GraceAlone
<1>7. /\ s \in Pairs /\ Sound(s) /\ Covered(s) /\ Mirrored(s) /\ Backed(s) /\ Wakes(s)
      /\ s.d.tagged = q.d.tagged /\ s.m.players = q.m.players /\ s.m.rec = q.m.rec
      /\ s.m.tagged = q.m.tagged /\ s.m.disc = q.m.disc
  BY <1>2, <1>5, <1>6, SyncArmAfter
<1>8. Follows(r, s) /\ Settled(s)
  BY <1>3, <1>4, <1>5, <1>7 DEF Follows, Settled
<1> QED
  BY <1>3, <1>5, <1>7, <1>8 DEF s

(* Scheduling the cleanup of a deserted room keeps a pair sound. *)
LEMMA CleanupIfDesertedKeeps ==
  ASSUME NEW r \in Pairs, Sound(r)
  PROVE  LET s == CleanupIfDeserted(r)
         IN /\ s \in Pairs /\ Sound(s) /\ Follows(r, s)
            /\ s.m.disc = r.m.disc /\ s.m.players = r.m.players
            /\ LastWritten(r) => LastWritten(s)
<1> DEFINE s == CleanupIfDeserted(r)
           m == [r.m EXCEPT !.cleanup = CleanupDelay]
           q == [m |-> m, d |-> r.d]
<1>1. r.m \in MemType /\ r.d \in DiskType
  BY PairParts
<1>2. CASE Deserted(r.m)
  <2>1. s = SyncArm(q)
    <3>1. [r EXCEPT !.m.cleanup = CleanupDelay] = q
      BY PairEdit
    <3> HIDE DEF q
    <3> QED
      BY <1>2, <3>1 DEF CleanupIfDeserted, ScheduleEmptyRoomCleanup
  <2>2. /\ m \in MemType /\ m.last = r.m.last /\ m.disc = r.m.disc
        /\ m.dirty = r.m.dirty /\ m.save = r.m.save
        /\ m.players = r.m.players /\ m.rec = r.m.rec /\ m.tagged = r.m.tagged
    BY <1>1, FullFits DEF MemType
  <2>3. q \in Pairs /\ q.m = m /\ q.d = r.d
    BY <1>1, <2>2 DEF Pairs
  <2> HIDE DEF s, m, q
  <2>4. LastStored(q) /\ DirtyHasSave(q) /\ GraceAlone(q) /\ (LastWritten(r) => LastWritten(q))
    BY <2>2, <2>3 DEF Sound, LastStored, DirtyHasSave, GraceAlone, LastWritten
  <2>5. /\ s \in Pairs /\ Sound(s) /\ Covered(s) /\ Mirrored(s) /\ Backed(s) /\ Wakes(s)
        /\ s.d.tagged = q.d.tagged /\ s.m.players = q.m.players /\ s.m.rec = q.m.rec
        /\ s.m.tagged = q.m.tagged /\ s.m.disc = q.m.disc
        /\ LastWritten(q) => LastWritten(s)
    BY <2>1, <2>3, <2>4, SyncArmAfter
  <2>6. Follows(r, s)
    BY <2>2, <2>3, <2>5 DEF Follows
  <2> QED
    BY <2>2, <2>3, <2>4, <2>5, <2>6 DEF s
<1>3. CASE ~Deserted(r.m)
  <2>1. s = r
    BY <1>3 DEF CleanupIfDeserted
  <2> HIDE DEF s
  <2> QED
    BY <2>1 DEF Follows, s
<1> QED
  BY <1>2, <1>3

(* handleRoomEmpty: the stored blob is deleted and written again, or the   *)
(* guard skips the write of one that holds nothing but the cleanup.        *)
LEMMA DestroyedKeeps ==
  ASSUME NEW r \in Pairs
  PROVE  LET s == Destroyed(r)
         IN /\ s \in Pairs /\ Settled(s)
            /\ s.m.players = r.m.players /\ s.m.rec = r.m.rec
            /\ ~s.m.tagged /\ ~s.d.tagged
<1> DEFINE s == Destroyed(r)
           m1 == [r.m EXCEPT !.dirty = FALSE, !.save = Null, !.timers = Idle(Timers),
                   !.auth = Idle(Conns), !.disc = Idle(Users), !.tagged = FALSE]
           d == [r.d EXCEPT !.blob = NoBlob, !.state = NoState,
                   !.timers = Idle(Timers), !.tagged = FALSE]
           m == [m1 EXCEPT !.cleanup = CleanupDelay]
           q == [m |-> m, d |-> d]
<1>1. r.m \in MemType /\ r.d \in DiskType
  BY PairParts
<1>2. /\ Idle(Timers) \in TimersType /\ Idle(Conns) \in [Conns -> Delays(AuthTimeout)]
      /\ Idle(Users) \in [Users -> Delays(ReconnectTimeout)]
  BY NullFits DEF Idle, TimersType
<1>3. NoBlob \in BlobType
  BY <1>2, NullFits DEF NoBlob, BlobType
<1>4. NoState \in [ver : 0..MaxVer, ps : SUBSET Users, left : Delays(StateTTL)]
  <2>1. 0 \in 0..MaxVer
    BY Constants
  <2> QED
    BY <2>1, NullFits DEF NoState
<1>5. s = SyncArm(q)
  <2> DEFINE r1 == [m |-> m1, d |-> r.d]
             r2 == [m |-> m1, d |-> d]
  <2>1. [r EXCEPT !.m = m1] = r1
    BY PairEdit
  <2>2. DeleteStored(r1) = r2
    BY PairAgain DEF DeleteStored
  <2>3. [r2 EXCEPT !.m.cleanup = CleanupDelay] = q
    BY PairAgain
  <2>4. ScheduleEmptyRoomCleanup(r2) = SyncArm(q)
    <3> HIDE DEF r2, q
    <3> QED
      BY <2>3 DEF ScheduleEmptyRoomCleanup
  <2>5. s = ScheduleEmptyRoomCleanup(DeleteStored([r EXCEPT !.m = m1]))
    BY DEF Destroyed
  <2> HIDE DEF r1, r2, q, s, m1
  <2> QED
    BY <2>1, <2>2, <2>4, <2>5
<1>6. /\ m \in MemType /\ m.save = Null /\ ~m.dirty /\ ~m.tagged
      /\ m.auth = Idle(Conns) /\ m.disc = Idle(Users)
      /\ m.players = r.m.players /\ m.rec = r.m.rec
  BY <1>1, <1>2, NullFits, FullFits DEF MemType
<1>7. d \in DiskType /\ d.blob = NoBlob /\ ~d.tagged
  BY <1>1, <1>2, <1>3, <1>4 DEF DiskType
<1>8. q \in Pairs /\ q.m = m /\ q.d = d
  BY <1>6, <1>7 DEF Pairs
<1> HIDE DEF s, m, d, q
<1>9. Bare(BlobOf(q.m))
  BY <1>6, <1>8 DEF Bare, BlobOf, PendingIn, Idle, Pending
<1>10. \A b \in q.m.last : b = BlobOf(q.m) => Kept(b, q.d)
  BY <1>7, <1>8, <1>9 DEF Kept
<1>11. DirtyHasSave(q) /\ GraceAlone(q)
  BY <1>6, <1>8 DEF DirtyHasSave, GraceAlone, Idle, Pending
<1>12. /\ s \in Pairs /\ Sound(s) /\ Covered(s) /\ Mirrored(s) /\ Backed(s) /\ Wakes(s)
       /\ s.d.tagged = q.d.tagged /\ s.m.players = q.m.players /\ s.m.rec = q.m.rec
       /\ s.m.tagged = q.m.tagged
  BY <1>5, <1>8, <1>10, <1>11, SyncArmFacts
<1> QED
  BY <1>6, <1>7, <1>8, <1>12 DEF s, Settled

-----------------------------------------------------------------------------
(* Players come and go                                                     *)

PlayerMaps == [Conns -> Users \cup {None}]

(* The players f are some of the players g. *)
Thins(f, g) == \A x \in Conns : f[x] = g[x] \/ f[x] = None

WithPlayers(r, f) == [m |-> [r.m EXCEPT !.players = f], d |-> r.d]

(* A player less leaves every grace period alone.                          *)
LEMMA FewerPlayers ==
  ASSUME NEW r \in Pairs, Sound(r), NEW f \in PlayerMaps,
         Thins(f, r.m.players), NEW q, q = WithPlayers(r, f)
  PROVE  /\ q \in Pairs /\ Sound(q) /\ Follows(r, q) /\ q.m.players = f
         /\ q.m = [r.m EXCEPT !.players = f] /\ q.d = r.d
         /\ q.m.disc = r.m.disc /\ (LastWritten(r) => LastWritten(q))
<1>1. r.m \in MemType /\ r.d \in DiskType
  BY PairParts
<1> DEFINE m == [r.m EXCEPT !.players = f]
<1>2. q = [m |-> m, d |-> r.d]
  BY DEF WithPlayers
<1>3. /\ m.last = r.m.last /\ m.auth = r.m.auth /\ m.disc = r.m.disc
      /\ m.save = r.m.save /\ m.cleanup = r.m.cleanup /\ m.ttl = r.m.ttl
      /\ m.dirty = r.m.dirty /\ m.rec = r.m.rec /\ m.tagged = r.m.tagged
      /\ m.timers = r.m.timers /\ m.beat = r.m.beat /\ m.players = f
  BY <1>1 DEF MemType
<1>4. m \in MemType
  BY <1>1 DEF MemType, PlayerMaps
<1>5. q \in Pairs /\ q.m = m /\ q.d = r.d
  BY <1>1, <1>2, <1>4 DEF Pairs
<1> HIDE DEF m
<1>6. GraceAlone(q)
  <2>1. None \notin Users
    BY Constants
  <2> QED
    BY <1>3, <1>5, <2>1 DEF Sound, GraceAlone, Thins
<1>7. LastStored(q) /\ LastAgrees(q) /\ Stored(q) /\ DirtyHasSave(q)
      /\ (LastWritten(r) => LastWritten(q))
  BY <1>3, <1>5 DEF Sound, LastStored, LastAgrees, Stored, DirtyHasSave, LastWritten
<1>8. BlobOf(q.m) = BlobOf(r.m) /\ Deadlines(q.m) = Deadlines(r.m)
  BY <1>3, <1>5 DEF BlobOf, Deadlines
<1>9. Follows(r, q)
  BY <1>3, <1>5, <1>8 DEF Follows, Covered, Mirrored, Backed, Wakes
<1> QED
  BY <1>3, <1>5, <1>6, <1>7, <1>9 DEF Sound, m

(* A connection that is nobody's any longer leaves the pair sound: the deadlines *)
(* are not told by the players.                                                  *)
LEMMA OnePlayerLess ==
  ASSUME NEW r \in Pairs, Sound(r), NEW c \in Conns
  PROVE  LET q == [r EXCEPT !.m.players[c] = None]
             f == [r.m.players EXCEPT ![c] = None]
         IN /\ q \in Pairs /\ Sound(q) /\ Follows(r, q) /\ q.m.players = f
            /\ q.m = [r.m EXCEPT !.players = f] /\ q.d = r.d /\ q.m.disc = r.m.disc
<1> DEFINE q == [r EXCEPT !.m.players[c] = None]
           f == [r.m.players EXCEPT ![c] = None]
<1>1. r.m.players \in [Conns -> Users \cup {None}]
  BY PairParts DEF MemType
<1>2. f \in PlayerMaps /\ Thins(f, r.m.players)
  BY <1>1 DEF Thins, PlayerMaps
<1>3. q = WithPlayers(r, f)
  BY PairEdit DEF WithPlayers
<1> HIDE DEF q, f
<1>4. /\ q \in Pairs /\ Sound(q) /\ Follows(r, q) /\ q.m.players = f
      /\ q.m = [r.m EXCEPT !.players = f] /\ q.d = r.d /\ q.m.disc = r.m.disc
  BY <1>2, <1>3, FewerPlayers
<1> QED
  BY <1>4 DEF q, f

(* handleDisconnect keeps a pair sound; a grace period begins only when the *)
(* user's last connection is gone.                                          *)
LEMMA DisconnectKeeps ==
  ASSUME NEW r \in Pairs, Sound(r), NEW c \in Conns, NEW final
  PROVE  LET s == Disconnect(r, c, final)
         IN /\ s \in Pairs /\ Sound(s) /\ Follows(r, s)
            /\ s.m.players = [r.m.players EXCEPT ![c] = None]
            /\ r.m.players[c] = None => s = r
<1> DEFINE s == Disconnect(r, c, final)
           u == r.m.players[c]
           r1 == [r EXCEPT !.m.players[c] = None]
           f == [r.m.players EXCEPT ![c] = None]
<1>1. r.m \in MemType /\ r.d \in DiskType /\ u \in Users \cup {None}
      /\ r.m.players \in [Conns -> Users \cup {None}]
  BY PairParts DEF MemType
<1>2. /\ r1 \in Pairs /\ Sound(r1) /\ Follows(r, r1) /\ r1.m.players = f
      /\ r1.d = r.d /\ r1.m.disc = r.m.disc
  BY OnePlayerLess
<1>3. CASE u = None
  <2>1. s = r
    BY <1>3 DEF Disconnect
  <2>2. f = r.m.players
    BY <1>1, <1>3
  <2> HIDE DEF s
  <2> QED
    BY <2>1, <2>2 DEF Follows, s
<1>4. CASE u # None /\ LeavesNow(r.m, c, final) /\ final
  <2>1. s = DropDisc(r1, u)
    BY <1>4 DEF Disconnect
  <2> HIDE DEF s, u, r1, f
  <2>2. /\ s \in Pairs /\ Sound(s) /\ Follows(r1, s) /\ s.m.players = r1.m.players
    BY <1>1, <1>2, <1>4, <2>1, DropDiscKeeps
  <2>3. Follows(r, s)
    BY <1>2, <2>2, FollowsOn
  <2> QED
    BY <1>2, <1>4, <2>2, <2>3 DEF s, f, u
<1>5. CASE u # None /\ LeavesNow(r.m, c, final) /\ ~final
  <2>1. s = r1
    BY <1>5 DEF Disconnect
  <2> HIDE DEF s, u, r1, f
  <2> QED
    BY <1>2, <1>5, <2>1 DEF s, f, u
<1>6. CASE u # None /\ ~LeavesNow(r.m, c, final)
  <2> DEFINE p == IF LastOf(r.m, c)
                  THEN SyncArm([r1 EXCEPT !.m.disc[u] = ReconnectTimeout]) ELSE r1
  <2>1. s = CleanupIfDeserted(p)
    BY <1>6 DEF Disconnect
  <2>2. p \in Pairs /\ Sound(p) /\ Follows(r, p) /\ p.m.players = f
    <3>1. CASE ~LastOf(r.m, c)
      <4>1. p = r1
        BY <3>1
      <4> HIDE DEF p, r1, f
      <4> QED
        BY <1>2, <4>1
    <3>2. CASE LastOf(r.m, c)
      <4> DEFINE g == [r1.m.disc EXCEPT ![u] = ReconnectTimeout]
                 m == [r1.m EXCEPT !.disc = g]
                 q == [m |-> m, d |-> r1.d]
      <4>1. p = SyncArm(q)
        <5> HIDE DEF r1
        <5>1. [r1 EXCEPT !.m.disc[u] = ReconnectTimeout] = q
          BY <1>2, PairEdit
        <5> HIDE DEF q
        <5> QED
          BY <3>2, <5>1
      <4>2. u \in Users
        BY <1>1, <1>6
      <4>3. \A x \in Conns : f[x] # u
        <5>1. ConnsOf(r.m, u) = {c}
          BY <3>2 DEF LastOf
        <5> QED
          BY <1>1, <1>6, <5>1 DEF ConnsOf
      <4> HIDE DEF r1, p, u, f
      <4>4. r1.m \in MemType /\ r1.d \in DiskType
        BY <1>2, PairParts
      <4>5. g \in [Users -> Delays(ReconnectTimeout)]
            /\ \A v \in Users : g[v] = IF v = u THEN ReconnectTimeout ELSE r1.m.disc[v]
        BY <4>4, FullFits DEF MemType
      <4>6. /\ m \in MemType /\ m.last = r1.m.last /\ m.disc = g
            /\ m.dirty = r1.m.dirty /\ m.save = r1.m.save /\ m.players = r1.m.players
            /\ m.rec = r1.m.rec /\ m.tagged = r1.m.tagged
        BY <4>4, <4>5 DEF MemType
      <4>7. q \in Pairs /\ q.m = m /\ q.d = r1.d
        BY <4>4, <4>6 DEF Pairs
      <4> HIDE DEF m, q, g
      <4>8. LastStored(q) /\ DirtyHasSave(q)
        BY <1>2, <4>6, <4>7 DEF Sound, LastStored, DirtyHasSave
      <4>9. GraceAlone(q)
        BY <1>2, <4>3, <4>5, <4>6, <4>7 DEF Sound, GraceAlone
      <4>10. /\ p \in Pairs /\ Sound(p) /\ Covered(p) /\ Mirrored(p) /\ Backed(p) /\ Wakes(p)
             /\ p.d.tagged = q.d.tagged /\ p.m.players = q.m.players /\ p.m.rec = q.m.rec
             /\ p.m.tagged = q.m.tagged
        BY <4>1, <4>7, <4>8, <4>9, SyncArmAfter
      <4>11. Follows(r1, p)
        BY <4>6, <4>7, <4>10 DEF Follows
      <4>12. Follows(r, p)
        BY <1>2, <4>11, FollowsOn
      <4> QED
        BY <1>2, <4>6, <4>7, <4>10, <4>12
    <3> QED
      BY <3>1, <3>2
  <2> HIDE DEF s, u, r1, f, p
  <2>3. s \in Pairs /\ Sound(s) /\ Follows(p, s) /\ s.m.players = p.m.players
    BY <2>1, <2>2, CleanupIfDesertedKeeps
  <2>4. Follows(r, s)
    BY <2>2, <2>3, FollowsOn
  <2> QED
    BY <1>6, <2>2, <2>3, <2>4 DEF s, f, u
<1> QED
  BY <1>1, <1>3, <1>4, <1>5, <1>6

-----------------------------------------------------------------------------
(* Recovery                                                                *)

(* What recovery meets: nobody there, nothing unsaved, and no blob written *)
(* by this instance that differs from the stored one in what it deletes.   *)
Recoverable(r) ==
  /\ r \in Pairs /\ NoPlayers(r.m) /\ ~r.m.dirty
  /\ \A b \in r.m.last :
       Kept(b, r.d) /\ b.cleanup = r.d.blob.cleanup /\ b.ttl = r.d.blob.ttl

(* The empty storage of a new room has its types. *)
LEMMA EmptyTypes ==
  /\ Idle(Timers) \in TimersType /\ Idle(Conns) \in [Conns -> Delays(AuthTimeout)]
  /\ Idle(Users) \in [Users -> Delays(ReconnectTimeout)]
  /\ NoBlob \in BlobType
  /\ NoState \in [ver : 0..MaxVer, ps : SUBSET Users, left : Delays(StateTTL)]
<1>1. /\ Idle(Timers) \in TimersType /\ Idle(Conns) \in [Conns -> Delays(AuthTimeout)]
      /\ Idle(Users) \in [Users -> Delays(ReconnectTimeout)]
  BY NullFits DEF Idle, TimersType
<1>2. NoBlob \in BlobType
  BY <1>1, NullFits DEF NoBlob, BlobType
<1>3. 0 \in 0..MaxVer
  BY Constants
<1> QED
  BY <1>1, <1>2, <1>3, NullFits DEF NoState

(* Recovering from storage makes memory hold the blob's deadlines again, *)
(* stored, covered and mirrored.                                         *)
LEMMA RecoverFromStorageFacts ==
  ASSUME NEW r, Recoverable(r)
  PROVE  LET s == RecoverFromStorage(r)
         IN /\ s \in Pairs /\ Settled(s)
            /\ s.m.players = r.m.players /\ s.m.disc = r.d.blob.disc
            /\ Untagged(r) => Untagged(s)
<1> DEFINE s == RecoverFromStorage(r)
           kept == r.d.state.left > 0
           d == IF kept THEN r.d
                ELSE [r.d EXCEPT !.state = NoState, !.timers = Idle(Timers)]
           b == d.blob
           m == [r.m EXCEPT
                   !.ver = IF kept THEN d.state.ver ELSE @,
                   !.ps = IF kept THEN d.state.ps ELSE @,
                   !.timers = IF PendingIn(d.timers) # {} THEN d.timers ELSE @,
                   !.tagged = @ \/ d.tagged,
                   !.auth = b.auth, !.disc = b.disc, !.save = b.save,
                   !.cleanup = b.cleanup, !.ttl = b.ttl, !.beat = Null]
           q == [m |-> m, d |-> d]
<1>1. r \in Pairs /\ r.m \in MemType /\ r.d \in DiskType
  BY PairParts DEF Recoverable
<1>2. s = Arm(q)
  BY DEF RecoverFromStorage
<1>3. d \in DiskType /\ d.blob = r.d.blob /\ d.tagged = r.d.tagged
  BY <1>1, EmptyTypes DEF DiskType
<1> HIDE DEF d, s
<1>4. b \in BlobType
  BY <1>3 DEF DiskType
<1>5. /\ d.state.ver \in 0..MaxVer /\ d.state.ps \in SUBSET Users
      /\ d.timers \in TimersType /\ d.tagged \in BOOLEAN
  BY <1>3 DEF DiskType
<1>6. (r.m.tagged \/ d.tagged) \in BOOLEAN
  BY <1>1, <1>5 DEF MemType
<1> DEFINE tag == r.m.tagged \/ d.tagged
           ver == IF kept THEN d.state.ver ELSE r.m.ver
           ps == IF kept THEN d.state.ps ELSE r.m.ps
           tm == IF PendingIn(d.timers) # {} THEN d.timers ELSE r.m.timers
<1>7. /\ tag \in BOOLEAN /\ ver \in 0..MaxVer /\ ps \in SUBSET Users
      /\ tm \in TimersType
  BY <1>1, <1>5, <1>6 DEF MemType
<1>8. m = [r.m EXCEPT !.ver = ver, !.ps = ps, !.timers = tm, !.tagged = tag,
              !.auth = b.auth, !.disc = b.disc, !.save = b.save,
              !.cleanup = b.cleanup, !.ttl = b.ttl, !.beat = Null]
  OBVIOUS
<1>9. ~r.m.tagged /\ ~d.tagged => ~tag
  OBVIOUS
<1> HIDE DEF m, tag, ver, ps, tm
<1>10. /\ m \in MemType /\ m.players = r.m.players /\ m.dirty = r.m.dirty
       /\ m.last = r.m.last /\ m.auth = b.auth /\ m.disc = b.disc /\ m.save = b.save
       /\ m.cleanup = b.cleanup /\ m.ttl = b.ttl /\ m.tagged = tag
  BY <1>1, <1>4, <1>7, <1>8, NullFits DEF MemType, BlobType
<1>11. q \in Pairs /\ q.m = m /\ q.d = d
  BY <1>3, <1>10 DEF Pairs
<1>12. BlobOf(m) = b
  BY <1>4, <1>10 DEF BlobOf, BlobType
<1> HIDE DEF q
<1>13. GraceAlone(q)
  BY <1>10, <1>11, Constants DEF GraceAlone, Recoverable, NoPlayers
<1>14. LastStored(q) /\ LastAgrees(q) /\ DirtyHasSave(q)
  BY <1>3, <1>10, <1>11 DEF LastStored, LastAgrees, DirtyHasSave, Recoverable, Kept
<1>15. Stored(q) /\ Mirrored(q) /\ Backed(q)
  BY <1>10, <1>11, <1>12 DEF Stored, Mirrored, Backed
<1>16. Sound(q)
  BY <1>13, <1>14, <1>15 DEF Sound
<1>17. s \in Pairs /\ Sound(s) /\ Covered(s) /\ Follows(q, s) /\ s.m = q.m
  BY <1>2, <1>11, <1>16, ArmKeeps
<1>18. Mirrored(s) /\ Backed(s)
  BY <1>15, <1>17 DEF Follows
<1>19. Wakes(s)
  <2>1. IF Deadlines(q.m) = {} THEN s = q ELSE Pending(s.d.alarm)
    BY <1>2, <1>11, ArmFacts
  <2>2. Deadlines(q.m) = {} => BlobOf(s.m) = NoBlob
    BY <1>10, <1>11, <1>17, NothingHeld
  <2> QED
    BY <1>18, <2>1, <2>2 DEF Backed, Wakes
<1>20. Untagged(r) => Untagged(s)
  BY <1>3, <1>9, <1>10, <1>11, <1>17 DEF Untagged, Follows
<1> QED
  BY <1>3, <1>10, <1>11, <1>17, <1>18, <1>19, <1>20 DEF s, Settled

(* The players that the sockets make                                       *)
Connected(listed) ==
  [c \in Conns |-> IF c \in listed /\ who[c] # None THEN who[c] ELSE None]

(* Recovering from the sockets makes their users the players; none of them is *)
(* in a grace period.                                                         *)
LEMMA RecoverFromSocketsFacts ==
  ASSUME NEW r \in Pairs, Settled(r), NEW listed \in SUBSET Conns,
         who \in [Conns -> Users \cup {None}],
         \A u \in Users : Pending(r.m.disc[u]) => \A c \in listed : who[c] # u
  PROVE  LET s == RecoverFromSockets(r, listed)
         IN /\ s \in Pairs /\ Settled(s) /\ s.m.players = Connected(listed)
            /\ Untagged(r) => Untagged(s)
<1> DEFINE s == RecoverFromSockets(r, listed)
           authed == {c \in listed : who[c] # None}
           f == [c \in Conns |-> IF c \in authed THEN who[c] ELSE None]
           a == Without(r.m.auth, authed)
           m == [r.m EXCEPT !.players = f, !.auth = a]
           q == [m |-> m, d |-> r.d]
           p == IF q.m.auth = r.m.auth THEN q ELSE SyncArm(q)
<1>1. r.m \in MemType /\ r.d \in DiskType
  BY PairParts
<1>2. s = EnsureBeat(p, listed)
  <2>1. [r EXCEPT !.m = m] = q
    BY PairEdit
  <2> HIDE DEF q
  <2> QED
    BY <2>1 DEF RecoverFromSockets
<1>3. f \in [Conns -> Users \cup {None}] /\ f = Connected(listed)
  BY DEF Connected
<1>4. a \in [Conns -> Delays(AuthTimeout)]
  BY <1>1, NullFits DEF MemType, Without
<1>5. \A u \in Users : Pending(r.m.disc[u]) => \A c \in Conns : f[c] # u
  BY Constants
<1> HIDE DEF s, f, a, p
<1>6. /\ m \in MemType /\ m.players = f /\ m.auth = a /\ m.last = r.m.last
      /\ m.disc = r.m.disc /\ m.save = r.m.save /\ m.cleanup = r.m.cleanup
      /\ m.ttl = r.m.ttl /\ m.dirty = r.m.dirty /\ m.tagged = r.m.tagged
      /\ m.timers = r.m.timers /\ m.beat = r.m.beat
  BY <1>1, <1>3, <1>4 DEF MemType
<1>7. q \in Pairs /\ q.m = m /\ q.d = r.d
  BY <1>1, <1>6 DEF Pairs
<1>8. p = IF q.m.auth = r.m.auth THEN q ELSE SyncArm(q)
  BY DEF p
<1> HIDE DEF m, q
<1>9. GraceAlone(q) /\ DirtyHasSave(q) /\ LastStored(q) /\ LastAgrees(q)
  BY <1>5, <1>6, <1>7
     DEF Settled, Sound, GraceAlone, DirtyHasSave, LastStored, LastAgrees
<1>10. p \in Pairs /\ Settled(p) /\ p.m.players = f /\ (Untagged(r) => Untagged(p))
  <2>1. CASE q.m.auth = r.m.auth
    <3>1. p = q
      BY <1>8, <2>1
    <3>2. BlobOf(q.m) = BlobOf(r.m) /\ Deadlines(q.m) = Deadlines(r.m)
      BY <1>6, <1>7, <2>1 DEF BlobOf, Deadlines
    <3>3. Stored(q) /\ Mirrored(q) /\ Backed(q) /\ Wakes(q) /\ Covered(q)
      BY <1>6, <1>7, <2>1, <3>2
         DEF Settled, Sound, Stored, Mirrored, Backed, Wakes, Covered
    <3> QED
      BY <1>6, <1>7, <1>9, <3>1, <3>3 DEF Settled, Sound, Untagged
  <2>2. CASE q.m.auth # r.m.auth
    <3>1. p = SyncArm(q)
      BY <1>8, <2>2
    <3>2. /\ p \in Pairs /\ Sound(p) /\ Covered(p) /\ Mirrored(p) /\ Backed(p) /\ Wakes(p)
          /\ p.d.tagged = q.d.tagged /\ p.m.players = q.m.players
          /\ p.m.tagged = q.m.tagged
      BY <1>7, <1>9, <3>1, SyncArmAfter
    <3> QED
      BY <1>6, <1>7, <3>2 DEF Settled, Untagged
  <2> QED
    BY <2>1, <2>2
<1>11. /\ s \in Pairs /\ Sound(s) /\ Follows(p, s) /\ s.m.players = p.m.players
  BY <1>2, <1>10, EnsureBeatKeeps DEF Settled
<1>12. Settled(s) /\ (Untagged(p) => Untagged(s))
  BY <1>10, <1>11 DEF Follows, Settled, Untagged
<1> QED
  BY <1>3, <1>10, <1>11, <1>12 DEF s

(* A recovery is both, and is done once. *)
LEMMA RecoverFacts ==
  ASSUME NEW r, Recoverable(r), NEW listed \in SUBSET Conns,
         who \in [Conns -> Users \cup {None}],
         \A u \in Users : Pending(r.d.blob.disc[u]) => \A c \in listed : who[c] # u
  PROVE  LET s == Recover(r, listed)
         IN /\ s \in Pairs /\ Settled(s) /\ ~s.m.rec
            /\ s.m.players = Connected(listed)
            /\ Untagged(r) => Untagged(s)
<1> DEFINE s == Recover(r, listed)
           r1 == RecoverFromStorage(r)
           r2 == RecoverFromSockets(r1, listed)
           m == [r2.m EXCEPT !.rec = FALSE]
           q == [m |-> m, d |-> r2.d]
<1>1. /\ r1 \in Pairs /\ Settled(r1) /\ r1.m.disc = r.d.blob.disc
      /\ Untagged(r) => Untagged(r1)
  BY RecoverFromStorageFacts
<1> HIDE DEF r1
<1>2. /\ r2 \in Pairs /\ Settled(r2) /\ r2.m.players = Connected(listed)
      /\ Untagged(r1) => Untagged(r2)
  BY <1>1, RecoverFromSocketsFacts
<1>3. s = [r2 EXCEPT !.m.rec = FALSE]
  BY DEF Recover, r1
<1> HIDE DEF s, r2
<1>4. s = q
  BY <1>2, <1>3, PairEdit
<1>5. r2.m \in MemType /\ r2.d \in DiskType
  BY <1>2, PairParts
<1>6. /\ m \in MemType /\ ~m.rec /\ m.tagged = r2.m.tagged
      /\ m.last = r2.m.last /\ m.auth = r2.m.auth /\ m.disc = r2.m.disc
      /\ m.save = r2.m.save /\ m.cleanup = r2.m.cleanup /\ m.ttl = r2.m.ttl
      /\ m.dirty = r2.m.dirty /\ m.players = r2.m.players
      /\ m.timers = r2.m.timers /\ m.beat = r2.m.beat
  BY <1>5 DEF MemType
<1>7. s \in Pairs /\ s.m = m /\ s.d = r2.d
  BY <1>4, <1>5, <1>6 DEF Pairs
<1> HIDE DEF m, q
<1>8. Alike(r2, s)
  BY <1>6, <1>7 DEF Alike
<1>9. Sound(s) /\ Mirrored(s) /\ Backed(s)
  BY <1>2, <1>8, AlikeKeeps DEF Settled
<1>10. Deadlines(s.m) = Deadlines(r2.m)
  BY <1>6, <1>7 DEF Deadlines
<1>11. Covered(s) /\ Wakes(s)
  BY <1>2, <1>7, <1>10 DEF Settled, Covered, Wakes
<1> QED
  BY <1>1, <1>2, <1>6, <1>7, <1>9, <1>11 DEF s, Settled, Untagged

-----------------------------------------------------------------------------
(* From pairs to states                                                    *)

(* The write guard remembers one blob at most. *)
LEMMA OneBlob ==
  ASSUME NEW s \in Pairs, Sound(s)
  PROVE  \A a, b \in s.m.last : a = b
<1>1. SUFFICES ASSUME NEW a \in s.m.last, NEW b \in s.m.last
               PROVE  a = b
  OBVIOUS
<1>2. /\ a \in BlobType /\ b \in BlobType
      /\ Kept(a, s.d) /\ Kept(b, s.d)
      /\ a.cleanup = b.cleanup /\ a.ttl = b.ttl
  BY PairParts DEF MemType, Sound, LastStored, LastAgrees
<1>3. ASSUME NEW x \in BlobType, Bare(x)
      PROVE  x.auth = Idle(Conns) /\ x.disc = Idle(Users) /\ x.save = Null
  BY <1>3 DEF BlobType, Bare, PendingIn, Pending, Idle
<1>4. Bare(NoBlob)
  BY DEF Bare, NoBlob, PendingIn, Pending, Idle
<1>5. CASE Bare(a) /\ Bare(b)
  <2>1. a.auth = b.auth /\ a.disc = b.disc /\ a.save = b.save
    BY <1>2, <1>3, <1>5
  <2> QED
    BY <1>2, <2>1 DEF BlobType
<1>6. CASE a = s.d.blob /\ b = s.d.blob
  BY <1>6
<1> QED
  BY <1>2, <1>4, <1>5, <1>6 DEF Kept

(* Nothing has been done since it was asked to recover. *)
Untouched(s) ==
  /\ \A c \in Conns : s.m.players[c] = None
  /\ \A u \in Users : s.m.disc[u] = Null
  /\ ~s.m.dirty /\ LastWritten(s)

(* What the next state must be for a pair s to become its memory and its   *)
(* storage                                                                 *)
LEMMA LandsAny ==
  ASSUME NEW s \in Pairs, Sound(s), mem' = s.m, disk' = s.d,
         pass' = NoPass => Covered(s),
         awake' /\ ~s.m.rec /\ Early' => Deserts' \/ Mirrored(s),
         Plain => /\ Untagged(s)
                  /\ awake' /\ ~s.m.rec /\ Early' => Backed(s) \/ Detached'
                  /\ pass' = NoPass => Wakes(s),
         s.m.rec => /\ pass' = NoPass /\ leaves' = {}
                    /\ \A c \in Conns : task'[c] = "idle"
                    /\ Untouched(s),
         ~awake' \/ s.m.rec =>
           \A u \in Users : Pending(s.d.blob.disc[u]) =>
             \A c \in Conns : sock'[c] # "none" => who'[c] # u
  PROVE  /\ HeldInv' /\ mem' \in MemType /\ disk' \in DiskType
         /\ (\A a, b \in mem.last : a = b)'
<1>1. s.m \in MemType /\ s.d \in DiskType /\ s = [m |-> s.m, d |-> s.d]
  BY PairParts
<1>2. mem' = s.m /\ disk' = s.d
  OBVIOUS
<1>3. (\A a, b \in mem.last : a = b)'
  BY <1>2, OneBlob
<1>4. SoundInv'
  <2>1. (Sound(Now))'
    <3>1. LastStored(s) /\ LastAgrees(s) /\ Stored(s) /\ DirtyHasSave(s) /\ GraceAlone(s)
      BY DEF Sound
    <3>2. LastStored(Now)'
      BY <1>2, <3>1 DEF LastStored, Now, Kept, Bare
    <3>3. LastAgrees(Now)' /\ DirtyHasSave(Now)' /\ GraceAlone(Now)'
      BY <1>2, <3>1 DEF LastAgrees, DirtyHasSave, GraceAlone, Now
    <3>4. Stored(Now)'
      BY <1>2, <3>1 DEF Stored, Now
    <3> QED
      BY <3>2, <3>3, <3>4 DEF Sound
  <2>2. (pass = NoPass => Covered(Now))'
    BY <1>2 DEF Covered, Now, Deadlines, PendingIn, Pending
  <2> QED
    BY <2>1, <2>2 DEF SoundInv
<1>5. RecInv'
  BY <1>2 DEF RecInv, Untouched, LastWritten, Now
<1>6. AbsentInv'
  BY <1>2 DEF AbsentInv
<1>7. MirrorInv'
  BY <1>2 DEF MirrorInv, Mirrored, Now
<1>8. Plain => WakeInv'
  <2>1. SUFFICES ASSUME Plain
                 PROVE  WakeInv'
    OBVIOUS
  <2>2. /\ Untagged(s) /\ (pass' = NoPass => Wakes(s))
        /\ awake' /\ ~s.m.rec /\ Early' => Backed(s) \/ Detached'
    BY <2>1
  <2>3. Untagged(Now)'
    BY <1>2, <2>2 DEF Untagged, Now
  <2>4. (awake /\ ~mem.rec /\ Early => Backed(Now) \/ Detached)'
    BY <1>2, <2>2 DEF Backed, Now, BlobOf
  <2>5. (pass = NoPass => Wakes(Now))'
    BY <1>2, <2>2 DEF Wakes, Now
  <2> QED
    BY <2>3, <2>4, <2>5 DEF WakeInv
<1>9. (Plain => WakeInv)'
  BY <1>8 DEF Plain
<1> QED
  BY <1>1, <1>2, <1>3, <1>4, <1>5, <1>6, <1>7, <1>9 DEF HeldInv

(* ... of an instance that is not to be recovered *)
LEMMA Lands ==
  ASSUME NEW s \in Pairs, Sound(s), ~s.m.rec, Becomes(s),
         pass' = NoPass => Covered(s),
         Early' => Deserts' \/ Mirrored(s),
         Plain => /\ Untagged(s)
                  /\ Early' => Backed(s)
                  /\ pass' = NoPass => Wakes(s)
  PROVE  /\ HeldInv' /\ awake' /\ mem' \in MemType /\ disk' \in DiskType
         /\ (\A a, b \in mem.last : a = b)'
<1>1. awake' = TRUE /\ mem' = s.m /\ disk' = s.d
  BY DEF Becomes
<1> QED
  BY <1>1, LandsAny

-----------------------------------------------------------------------------
(* The pairs that handlers start from                                      *)

(* A pair that the room may hold while sockets, tasks and the pass are as  *)
(* they are                                                                *)
Apt(r) ==
  /\ r \in Pairs /\ Sound(r) /\ ~r.m.rec
  /\ pass = NoPass => Covered(r)
  /\ Early => Deserts \/ Mirrored(r)
  /\ Plain => /\ Untagged(r)
              /\ Early => Backed(r)
              /\ pass = NoPass => Wakes(r)

(* The authenticated open sockets are its players. *)
Manned(r) ==
  \A c \in Conns :
    sock[c] = "open" /\ who[c] # None /\ (\A l \in leaves : c \notin l.conns)
      => r.m.players[c] = who[c]

(* What follows an apt pair is apt. *)
LEMMA AptFollows ==
  ASSUME NEW r, NEW s \in Pairs, Apt(r), Sound(s), Follows(r, s)
  PROVE  Apt(s)
  BY DEF Apt, Follows, Untagged

(* An apt pair may become the room's, if nobody arrives meanwhile. *)
LEMMA AptLands ==
  ASSUME NEW s, Apt(s), Becomes(s), UNCHANGED pass, Deserts => Deserts'
  PROVE  /\ HeldInv' /\ awake' /\ mem' \in MemType /\ disk' \in DiskType
         /\ (\A a, b \in mem.last : a = b)'
<1>1. pass' = NoPass => Covered(s)
  BY DEF Apt
<1>2. Early' => Deserts' \/ Mirrored(s)
  BY DEF Apt, Early
<1>3. Plain => /\ Untagged(s)
               /\ Early' => Backed(s)
               /\ pass' = NoPass => Wakes(s)
  BY DEF Apt, Early
<1>4. s \in Pairs /\ Sound(s) /\ ~s.m.rec
  BY DEF Apt
<1> QED
  BY <1>1, <1>2, <1>3, <1>4, Lands

(* A new instance holds nothing. *)
LEMMA BlankFacts ==
  ASSUME NEW b \in BOOLEAN
  PROVE  LET m == [Blank EXCEPT !.rec = b]
         IN /\ m \in MemType /\ m.rec = b /\ m.last = {} /\ ~m.dirty /\ ~m.tagged
            /\ \A c \in Conns : m.players[c] = None /\ ~Pending(m.auth[c])
            /\ \A u \in Users : m.disc[u] = Null
            /\ m.save = Null /\ Deadlines(m) = {} /\ BlobOf(m) = NoBlob
            /\ ~b => m = Blank
<1> DEFINE m == [Blank EXCEPT !.rec = b]
<1>1. /\ Blank.players = [c \in Conns |-> None] /\ Blank.auth = Idle(Conns)
      /\ Blank.disc = Idle(Users) /\ Blank.timers = Idle(Timers)
      /\ Blank.save = Null /\ Blank.cleanup = Null /\ Blank.ttl = Null
      /\ Blank.beat = Null /\ Blank.last = {} /\ ~Blank.dirty /\ ~Blank.tagged
      /\ ~Blank.rec
  BY DEF Blank
<1>2. Blank \in MemType
  <2>1. 0 \in 0..MaxVer
    BY Constants
  <2> QED
    BY <2>1, NullFits, EmptyTypes DEF MemType, Blank
<1>3. /\ m \in MemType /\ m.players = Blank.players /\ m.auth = Blank.auth
      /\ m.disc = Blank.disc /\ m.timers = Blank.timers /\ m.save = Blank.save
      /\ m.cleanup = Blank.cleanup /\ m.ttl = Blank.ttl /\ m.beat = Blank.beat
      /\ m.ver = Blank.ver /\ m.ps = Blank.ps /\ m.created = Blank.created
      /\ m.dirty = Blank.dirty /\ m.tagged = Blank.tagged /\ m.last = Blank.last
  BY <1>2 DEF MemType
<1>4. m.rec = b
  BY <1>2 DEF MemType
<1> HIDE DEF m
<1>5. ~b => m = Blank
  BY <1>1, <1>2, <1>3, <1>4 DEF MemType
<1>6. PendingIn(m.auth) = {} /\ PendingIn(m.disc) = {} /\ PendingIn(m.timers) = {}
  BY <1>1, <1>3 DEF PendingIn, Idle, Pending
<1>7. Deadlines(m) = {}
  BY <1>1, <1>3, <1>6 DEF Deadlines, Pending
<1>8. BlobOf(m) = NoBlob
  BY <1>3, <1>7, NothingHeld
<1>9. /\ \A c \in Conns : m.players[c] = None /\ ~Pending(m.auth[c])
      /\ \A u \in Users : m.disc[u] = Null
  BY <1>1, <1>3 DEF Idle, Pending
<1> QED
  BY <1>1, <1>3, <1>4, <1>5, <1>7, <1>8, <1>9 DEF m

(* The room's own pair is one. *)
LEMMA NowFacts ==
  ASSUME TypeOK
  PROVE  Now \in Pairs /\ Now.m = mem /\ Now.d = disk
  BY DEF TypeOK, Now, Pairs

(* The pair an event finds before any recovery *)
LEMMA WokenFacts ==
  ASSUME IInv, NEW listed \in SUBSET Conns
  PROVE  LET r == Woken(listed)
         IN /\ r \in Pairs /\ Sound(r) /\ r.d = disk
            /\ awake => r = Now
            /\ ~awake => r.m = [Blank EXCEPT !.rec = listed # {}]
            /\ ~awake => (r.m.rec <=> listed # {})
            /\ r.m.rec => /\ Recoverable(r) /\ LastWritten(r)
                          /\ \A u \in Users : r.m.disc[u] = Null
            /\ pass = NoPass => Covered(r)
            /\ Plain => Untagged(r) /\ (pass = NoPass => Wakes(r))
<1>0. TypeOK /\ SoundInv /\ RecInv /\ (Plain => WakeInv)
  BY DEF IInv, HeldInv
<1> DEFINE r == Woken(listed)
           m == [Blank EXCEPT !.rec = listed # {}]
<1>1. CASE awake
  <2>1. r = Now
    BY <1>1 DEF Woken, Now
  <2> HIDE DEF r
  <2>2. r \in Pairs /\ r.m = mem /\ r.d = disk
    BY <1>0, <2>1, NowFacts
  <2>3. Sound(r) /\ (pass = NoPass => Covered(r))
    BY <1>0, <2>1 DEF SoundInv
  <2>4. Plain => Untagged(r) /\ (pass = NoPass => Wakes(r))
    BY <1>0, <2>1 DEF WakeInv
  <2>5. ASSUME r.m.rec
        PROVE  /\ Recoverable(r) /\ LastWritten(r)
               /\ \A u \in Users : r.m.disc[u] = Null
    <3>1. /\ \A c \in Conns : r.m.players[c] = None
          /\ \A u \in Users : r.m.disc[u] = Null
          /\ ~r.m.dirty /\ LastWritten(r)
      BY <1>0, <2>1, <2>2, <2>5 DEF RecInv
    <3> QED
      BY <2>2, <3>1 DEF Recoverable, NoPlayers, LastWritten, Kept
  <2> QED
    BY <1>1, <2>1, <2>2, <2>3, <2>4, <2>5 DEF r
<1>2. CASE ~awake
  <2>1. r = [m |-> m, d |-> disk]
    BY <1>2 DEF Woken
  <2> DEFINE b == listed # {}
  <2>2. /\ m \in MemType /\ m.rec = b /\ m.last = {} /\ ~m.dirty /\ ~m.tagged
        /\ \A c \in Conns : m.players[c] = None /\ ~Pending(m.auth[c])
        /\ \A u \in Users : m.disc[u] = Null
        /\ m.save = Null /\ Deadlines(m) = {}
    <3>1. b \in BOOLEAN /\ m = [Blank EXCEPT !.rec = b]
      OBVIOUS
    <3> HIDE DEF m, b
    <3> QED
      BY <3>1, BlankFacts
  <2> HIDE DEF m, r
  <2>3. r \in Pairs /\ r.m = m /\ r.d = disk
    BY <1>0, <2>1, <2>2 DEF Pairs, TypeOK
  <2>4. Sound(r)
    BY <2>2, <2>3 DEF Sound, LastStored, LastAgrees, Stored, DirtyHasSave, GraceAlone,
                      Pending
  <2>5. Covered(r)
    BY <2>2, <2>3 DEF Covered
  <2>6. Plain => Untagged(r) /\ (pass = NoPass => Wakes(r))
    BY <1>0, <2>2, <2>3 DEF WakeInv, Untagged, Now, Wakes
  <2>7. Recoverable(r) /\ LastWritten(r)
    BY <2>2, <2>3 DEF Recoverable, NoPlayers, LastWritten
  <2> QED
    BY <1>2, <2>2, <2>3, <2>4, <2>5, <2>6, <2>7 DEF r, m
<1> QED
  BY <1>1, <1>2

(* ... and after it: in a room with an open socket the players are there. *)
LEMMA ReadyFacts ==
  ASSUME IInv, NEW c \in Conns, sock[c] = "open"
  PROVE  Apt(Ready) /\ Manned(Ready)
<1> DEFINE w == Woken(Listed)
           r == Ready
<1>0. /\ TypeOK /\ MirrorInv /\ AbsentInv /\ (Plain => WakeInv) /\ LiveAuthedArePlayers
      /\ who \in [Conns -> Users \cup {None}]
  BY DEF IInv, HeldInv, TypeOK
<1>1. Listed \in SUBSET Conns /\ c \in Listed /\ ~Deserts
  BY DEF Listed, Deserts
<1>2. /\ w \in Pairs /\ Sound(w) /\ w.d = disk
      /\ awake => w = Now
      /\ ~awake => (w.m.rec <=> Listed # {})
      /\ w.m.rec => Recoverable(w)
      /\ pass = NoPass => Covered(w)
      /\ Plain => Untagged(w) /\ (pass = NoPass => Wakes(w))
  BY <1>1, WokenFacts
<1>3. r = IF w.m.rec THEN Recover(w, Listed) ELSE w
  BY DEF Ready
<1> HIDE DEF w, r
<1>4. CASE w.m.rec
  <2>1. ~awake \/ mem.rec
    BY <1>0, <1>2, <1>4, NowFacts
  <2>2. \A u \in Users : Pending(w.d.blob.disc[u]) => \A x \in Listed : who[x] # u
    BY <1>0, <1>2, <2>1 DEF AbsentInv, Listed
  <2>3. /\ r \in Pairs /\ Settled(r) /\ ~r.m.rec
        /\ r.m.players = Connected(Listed) /\ (Untagged(w) => Untagged(r))
    BY <1>0, <1>1, <1>2, <1>3, <1>4, <2>2, RecoverFacts
  <2>4. Apt(r)
    BY <1>2, <2>3 DEF Apt, Settled
  <2>5. Manned(r)
    BY <2>3 DEF Manned, Connected, Listed
  <2> QED
    BY <2>4, <2>5 DEF r
<1>5. CASE ~w.m.rec
  <2>1. r = w /\ awake /\ w = Now /\ ~mem.rec
    BY <1>0, <1>1, <1>2, <1>3, <1>5, NowFacts
  <2>2. Early => Mirrored(r)
    BY <1>0, <1>1, <2>1 DEF MirrorInv
  <2>3. Plain => (Early => Backed(r))
    BY <1>0, <1>1, <2>1 DEF WakeInv, Detached
  <2>4. Apt(r)
    BY <1>2, <1>5, <2>1, <2>2, <2>3 DEF Apt
  <2>5. Manned(r)
    BY <1>0, <2>1, NowFacts DEF LiveAuthedArePlayers, Manned
  <2> QED
    BY <2>4, <2>5 DEF r
<1> QED
  BY <1>4, <1>5

(* While anything is under way no recovery is due. *)
LEMMA ActiveFacts ==
  ASSUME IInv, UnderWay
  PROVE  awake /\ Apt(Now) /\ Manned(Now)
<1>1. /\ TypeOK /\ SoundInv /\ RecInv /\ MirrorInv /\ TaskInv /\ (Plain => WakeInv)
      /\ LiveAuthedArePlayers
  BY DEF IInv, HeldInv
<1>2. awake
  BY <1>1 DEF UnderWay, TypeOK, TaskInv
<1>3. ~mem.rec
  BY <1>1 DEF UnderWay, RecInv
<1>4. ~Detached
  BY DEF UnderWay, Detached
<1>5. Now \in Pairs /\ Now.m = mem
  BY <1>1, NowFacts
<1>6. Apt(Now)
  BY <1>1, <1>2, <1>3, <1>4, <1>5 DEF SoundInv, MirrorInv, WakeInv, Apt
<1>7. Manned(Now)
  BY <1>1, <1>2, <1>3, <1>5 DEF LiveAuthedArePlayers, Manned
<1> QED
  BY <1>2, <1>6, <1>7

-----------------------------------------------------------------------------
(* From a handler's pair to the invariant                                  *)

(* What TypeOK says of anything but the pair *)
RestType ==
  /\ sock \in [Conns -> {"none", "open", "closing"}]
  /\ who \in [Conns -> Users \cup {None}]
  /\ task \in [Conns -> {"idle", "auth", "join", "leave"}]
  /\ leaves \subseteq [user : Users, why : {"leave", "close", "kick"},
                       conns : SUBSET Conns, stage : {"hook", "destroy"}]
  /\ pass \in [stage : {"idle", "timers", "hook", "destroy"},
               user : Users \cup {None}, todo : SUBSET Users]
  /\ owed \subseteq Users /\ want \in [Timers -> BOOLEAN]

(* Sockets are at most told to close. *)
Quieter ==
  /\ sock' \in [Conns -> {"none", "open", "closing"}]
  /\ \A c \in Conns : sock'[c] = sock[c] \/ (sock[c] = "open" /\ sock'[c] = "closing")

(* Closing some sockets is quieter, and none of them stays open. *)
LEMMA ClosingFacts ==
  ASSUME TypeOK, NEW S, sock' = Closing(S)
  PROVE  Quieter /\ \A c \in Conns : c \in S => sock'[c] # "open"
  BY DEF TypeOK, Closing, Quieter

(* A handler that leaves an apt pair keeps the invariant. *)
LEMMA AptStep ==
  ASSUME NEW s, Apt(s), Becomes(s), UNCHANGED pass, Deserts => Deserts',
         RestType', TaskInv', LiveAuthedArePlayers'
  PROVE  IInv'
<1>1. /\ HeldInv' /\ awake' /\ mem' \in MemType /\ disk' \in DiskType
      /\ (\A a, b \in mem.last : a = b)'
  BY AptLands
<1>2. TypeOK'
  BY <1>1 DEF TypeOK, RestType
<1> QED
  BY <1>1, <1>2 DEF IInv

(* Most handlers: no arrival, no departure, no player more or less *)
LEMMA QuietStep ==
  ASSUME IInv, NEW s, Apt(s), Manned(s), Becomes(s), Quieter,
         UNCHANGED <<who, task, leaves, pass>>,
         owed' \subseteq Users, want' \in [Timers -> BOOLEAN]
  PROVE  IInv'
<1>1. TypeOK /\ TaskInv
  BY DEF IInv
<1>2. Deserts => Deserts'
  BY DEF Deserts, Quieter
<1>3. RestType'
  BY <1>1 DEF TypeOK, RestType, Quieter
<1>4. TaskInv'
  <2>1. awake'
    BY DEF Becomes
  <2>2. \A c \in Conns : sock'[c] = "none" <=> sock[c] = "none"
    BY DEF Quieter
  <2>3. \A l \in leaves : l.conns \subseteq Conns
    BY <1>1 DEF TypeOK
  <2> QED
    BY <1>1, <2>1, <2>2, <2>3 DEF TaskInv
<1>5. LiveAuthedArePlayers'
  BY DEF Manned, Becomes, Quieter, LiveAuthedArePlayers
<1> QED
  BY <1>2, <1>3, <1>4, <1>5, AptStep

-----------------------------------------------------------------------------
(* The API                                                                 *)

(* s differs from r in nothing that is synced, and holds no deadline that  *)
(* r does not hold.                                                        *)
LEMMA AlikeFollows ==
  ASSUME NEW r, NEW s, Alike(r, s), Sound(r), s.d.alarm = r.d.alarm,
         Deadlines(s.m) \subseteq Deadlines(r.m), s.m.rec = r.m.rec,
         s.m.tagged = r.m.tagged, s.d.tagged = r.d.tagged
  PROVE  Sound(s) /\ Follows(r, s)
<1>1. Sound(s) /\ (Mirrored(r) => Mirrored(s)) /\ (Backed(r) => Backed(s))
  BY AlikeKeeps
<1>2. Covered(r) => Covered(s)
  BY FewerCovered
<1>3. Wakes(r) => Wakes(s)
  BY DEF Wakes, Alike
<1> QED
  BY <1>1, <1>2, <1>3 DEF Follows

(* The memory changes in what no deadline is about. *)
Resembles(m, n) ==
  /\ n.players = m.players /\ n.auth = m.auth /\ n.disc = m.disc
  /\ n.timers = m.timers /\ n.save = m.save /\ n.cleanup = m.cleanup
  /\ n.ttl = m.ttl /\ n.beat = m.beat /\ n.dirty = m.dirty
  /\ n.tagged = m.tagged /\ n.rec = m.rec /\ n.last = m.last

(* Such a change keeps a pair apt. *)
LEMMA DataChange ==
  ASSUME NEW r, Apt(r), NEW m \in MemType, Resembles(r.m, m),
         NEW s, s = [m |-> m, d |-> r.d]
  PROVE  Apt(s) /\ s.m = m /\ s.m.players = r.m.players /\ s.m.disc = r.m.disc
<1>1. r \in Pairs /\ Sound(r) /\ r.m \in MemType /\ r.d \in DiskType
  BY PairParts DEF Apt
<1>2. s \in Pairs /\ s.m = m /\ s.d = r.d
  BY <1>1 DEF Pairs
<1>3. Alike(r, s) /\ Deadlines(s.m) = Deadlines(r.m)
  BY <1>2 DEF Resembles, Alike, Deadlines
<1>4. Sound(s) /\ Follows(r, s)
  BY <1>1, <1>2, <1>3, AlikeFollows DEF Resembles
<1>5. Apt(s)
  BY <1>2, <1>4, AptFollows
<1> QED
  BY <1>2, <1>5 DEF Resembles

(* ... and its timers, which breaks nothing but the alarm's cover *)
LEMMA TimerChange ==
  ASSUME NEW r, Apt(r), NEW f \in TimersType
  PROVE  LET q == [r EXCEPT !.m = [@ EXCEPT !.timers = f]]
         IN /\ q \in Pairs /\ Sound(q) /\ q.m.players = r.m.players
            /\ \A s \in Pairs : Sound(s) /\ Covered(s) /\ Follows(q, s) => Apt(s)
<1> DEFINE m == [r.m EXCEPT !.timers = f]
           q == [m |-> m, d |-> r.d]
<1>1. r \in Pairs /\ Sound(r) /\ r.m \in MemType /\ r.d \in DiskType
  BY PairParts DEF Apt
<1>2. [r EXCEPT !.m = m] = q
  BY <1>1, PairEdit
<1>3. /\ m.players = r.m.players /\ m.auth = r.m.auth /\ m.disc = r.m.disc
      /\ m.save = r.m.save /\ m.cleanup = r.m.cleanup
      /\ m.ttl = r.m.ttl /\ m.beat = r.m.beat /\ m.dirty = r.m.dirty
      /\ m.tagged = r.m.tagged /\ m.rec = r.m.rec /\ m.last = r.m.last
      /\ m \in MemType
  BY <1>1 DEF MemType
<1>4. q \in Pairs /\ q.m = m /\ q.d = r.d
  BY <1>1, <1>3 DEF Pairs
<1> HIDE DEF m, q
<1>5. Alike(r, q)
  BY <1>3, <1>4 DEF Alike
<1>6. Sound(q) /\ (Mirrored(r) => Mirrored(q)) /\ (Backed(r) => Backed(q))
  BY <1>1, <1>5, AlikeKeeps
<1>7. Wakes(r) => Wakes(q)
  BY <1>4 DEF Wakes
<1>8. ASSUME NEW s \in Pairs, Sound(s), Covered(s), Follows(q, s)
      PROVE  Apt(s)
  BY <1>3, <1>4, <1>6, <1>7, <1>8 DEF Apt, Follows, Untagged
<1> QED
  BY <1>2, <1>3, <1>4, <1>6, <1>8 DEF m

(* setSharedState and its siblings *)
LEMMA SetStateStep ==
  ASSUME IInv, NEW r, Apt(r), Manned(r), SetState(r), UNCHANGED <<who, task, pass>>
  PROVE  IInv'
<1>1. TypeOK /\ r \in Pairs /\ r.m \in MemType /\ r.d \in DiskType
  BY PairParts DEF Apt, IInv
<1> DEFINE m == [r.m EXCEPT !.ver = @ + 1]
           q == [m |-> m, d |-> r.d]
<1>2. [r EXCEPT !.m.ver = @ + 1] = q
  BY <1>1, PairEdit
<1>3. r.m.ver + 1 \in 0..MaxVer
  BY <1>1, Constants DEF SetState, MemType
<1>4. m \in MemType /\ Resembles(r.m, m)
  BY <1>1, <1>3 DEF Resembles, MemType
<1>5. q = [m |-> m, d |-> r.d]
  OBVIOUS
<1> HIDE DEF q, m
<1>6. Apt(q) /\ q.m.players = r.m.players
  BY <1>4, <1>5, DataChange
<1> DEFINE s == MarkDirty(q)
<1>7. s \in Pairs /\ Sound(s) /\ Follows(q, s) /\ s.m.players = q.m.players
  BY <1>6, MarkDirtyKeeps DEF Apt
<1>8. Becomes(s) /\ UNCHANGED <<sock, leaves, owed, want>>
  BY <1>2 DEF SetState
<1> HIDE DEF s
<1>9. Apt(s) /\ Manned(s)
  BY <1>6, <1>7, AptFollows DEF Manned
<1>10. Quieter
  BY <1>1, <1>8 DEF TypeOK, Quieter
<1> QED
  BY <1>1, <1>8, <1>9, <1>10, QuietStep DEF TypeOK

(* ... over the size limit *)
LEMMA SetStateTooLargeStep ==
  ASSUME IInv, NEW r, Apt(r), Manned(r), SetStateTooLarge(r), UNCHANGED <<who, task, pass>>
  PROVE  IInv'
<1>1. /\ TypeOK /\ r \in Pairs /\ Sound(r) /\ r.m \in MemType /\ r.d \in DiskType
  BY PairParts DEF Apt, IInv
<1> DEFINE p == MarkDirty(r)
           m == [p.m EXCEPT !.dirty = r.m.dirty, !.save = r.m.save]
           q == [m |-> m, d |-> p.d]
           s == SyncArm(q)
<1>2. p \in Pairs /\ Sound(p) /\ Follows(r, p) /\ p.m.players = r.m.players
  BY <1>1, MarkDirtyKeeps
<1>3. Becomes(s)
  <2>1. [p EXCEPT !.m = m] = q
    <3> HIDE DEF p, m
    <3> QED
      BY <1>2, PairEdit
  <2> HIDE DEF q
  <2> QED
    BY <2>1 DEF SetStateTooLarge
<1> HIDE DEF p, s
<1>4. p.m \in MemType /\ p.d \in DiskType
  BY <1>2, PairParts
<1>5. /\ m.last = p.m.last /\ m.disc = p.m.disc /\ m.players = p.m.players
      /\ m.save = r.m.save /\ m.rec = p.m.rec /\ m.tagged = p.m.tagged
  BY <1>1, <1>4 DEF MemType
<1>6. m.dirty = r.m.dirty
  BY <1>1, <1>4 DEF MemType
<1>7. m \in MemType
  BY <1>1, <1>4 DEF MemType
<1>8. q \in Pairs /\ q.m = m /\ q.d = p.d /\ s = SyncArm(q)
  BY <1>4, <1>7 DEF Pairs, s
<1> HIDE DEF q, m
<1>9. LastStored(q) /\ DirtyHasSave(q) /\ GraceAlone(q)
  BY <1>1, <1>2, <1>5, <1>6, <1>8 DEF Sound, LastStored, DirtyHasSave, GraceAlone
<1>10. /\ s \in Pairs /\ Sound(s) /\ Covered(s) /\ Mirrored(s) /\ Backed(s) /\ Wakes(s)
       /\ s.d.tagged = q.d.tagged /\ s.m.players = q.m.players /\ s.m.rec = q.m.rec
       /\ s.m.tagged = q.m.tagged
  BY <1>8, <1>9, SyncArmAfter
<1>11. Follows(r, s) /\ s.m.players = r.m.players
  BY <1>2, <1>5, <1>8, <1>10 DEF Follows
<1>12. Apt(s) /\ Manned(s)
  BY <1>10, <1>11, AptFollows DEF Manned
<1>13. UNCHANGED <<sock, leaves, owed, want>>
  BY DEF SetStateTooLarge
<1>14. Quieter
  BY <1>1, <1>13 DEF TypeOK, Quieter
<1> QED
  BY <1>1, <1>3, <1>12, <1>13, <1>14, QuietStep DEF TypeOK

(* A call whose pair follows the one it started from *)
LEMMA FollowingStep ==
  ASSUME IInv, NEW r, Apt(r), Manned(r), NEW s \in Pairs, Sound(s), Follows(r, s),
         s.m.players = r.m.players, Becomes(s), UNCHANGED <<sock, who, task, leaves, pass, owed>>,
         want' \in [Timers -> BOOLEAN]
  PROVE  IInv'
<1>1. TypeOK
  BY DEF IInv
<1>2. Apt(s) /\ Manned(s)
  BY AptFollows DEF Manned
<1>3. Quieter
  BY <1>1 DEF TypeOK, Quieter
<1> QED
  BY <1>1, <1>2, <1>3, QuietStep DEF TypeOK

(* saveState *)
LEMMA SaveStateStep ==
  ASSUME IInv, NEW r, Apt(r), Manned(r), SaveState(r), UNCHANGED <<who, task, pass>>
  PROVE  IInv'
<1> DEFINE s == PersistState(r)
<1>1. r \in Pairs /\ Sound(r)
  BY DEF Apt
<1>2. s \in Pairs /\ Settled(s) /\ Follows(r, s) /\ s.m.players = r.m.players
  BY <1>1, PersistStateKeeps DEF Sound
<1>3. Becomes(s) /\ UNCHANGED <<sock, leaves, owed, want>>
  BY DEF SaveState
<1> HIDE DEF s
<1>4. want' \in [Timers -> BOOLEAN]
  BY <1>3 DEF IInv, TypeOK
<1> QED
  BY <1>2, <1>3, <1>4, FollowingStep DEF Settled

(* setTimer *)
LEMMA SetTimerStep ==
  ASSUME IInv, NEW r, Apt(r), Manned(r), NEW t \in Timers, NEW ms \in TimerDelays,
         SetTimer(r, t, ms), UNCHANGED <<who, task, pass>>
  PROVE  IInv'
<1> DEFINE f == [r.m.timers EXCEPT ![t] = ms]
           q == [r EXCEPT !.m = [@ EXCEPT !.timers = f]]
           p == MarkDirty(q)
           s == Arm(p)
<1>1. TypeOK /\ r \in Pairs /\ r.m \in MemType
  BY PairParts DEF Apt, IInv
<1>2. f \in TimersType
  <2>1. ms \in UNION {Delays(x) : x \in TimerDelays}
    <3>1. ms \in Delays(ms)
      BY Constants, FitFacts
    <3> QED
      BY <3>1
  <2> QED
    BY <1>1, <2>1 DEF MemType, TimersType
<1>3. /\ q \in Pairs /\ Sound(q) /\ q.m.players = r.m.players
      /\ \A x \in Pairs : Sound(x) /\ Covered(x) /\ Follows(q, x) => Apt(x)
  BY <1>2, TimerChange
<1>4. Becomes(s) /\ want' = [want EXCEPT ![t] = TRUE] /\ UNCHANGED <<sock, leaves, owed>>
  <2>1. [r EXCEPT !.m.timers[t] = ms] = q
    BY <1>1, PairEdit
  <2> HIDE DEF q
  <2> QED
    BY <2>1 DEF SetTimer
<1> HIDE DEF q, f, s, p
<1>5. p \in Pairs /\ Sound(p) /\ Follows(q, p) /\ p.m.players = q.m.players
  BY <1>3, MarkDirtyKeeps DEF p
<1>6. s \in Pairs /\ Sound(s) /\ Covered(s) /\ Follows(p, s) /\ s.m = p.m
  BY <1>5, ArmKeeps DEF s
<1>7. Apt(s) /\ Manned(s)
  BY <1>3, <1>5, <1>6, FollowsOn DEF Manned
<1>8. want' \in [Timers -> BOOLEAN]
  BY <1>1, <1>4 DEF TypeOK
<1>9. Quieter
  BY <1>1, <1>4 DEF TypeOK, Quieter
<1> QED
  BY <1>1, <1>4, <1>7, <1>8, <1>9, QuietStep DEF TypeOK

(* clearTimer *)
LEMMA ClearTimerStep ==
  ASSUME IInv, NEW r, Apt(r), Manned(r), NEW t \in Timers,
         ClearTimer(r, t), UNCHANGED <<who, task, pass>>
  PROVE  IInv'
<1> DEFINE f == [r.m.timers EXCEPT ![t] = Null]
           q == [r EXCEPT !.m = [@ EXCEPT !.timers = f]]
           s == Arm(q)
<1>1. TypeOK /\ r \in Pairs /\ r.m \in MemType
  BY PairParts DEF Apt, IInv
<1>2. f \in TimersType
  BY <1>1 DEF MemType, TimersType
<1>3. /\ q \in Pairs /\ Sound(q) /\ q.m.players = r.m.players
      /\ \A x \in Pairs : Sound(x) /\ Covered(x) /\ Follows(q, x) => Apt(x)
  BY <1>2, TimerChange
<1>4. Becomes(s) /\ want' = [want EXCEPT ![t] = FALSE] /\ UNCHANGED <<sock, leaves, owed>>
  <2>1. [r EXCEPT !.m.timers[t] = Null] = q
    BY <1>1, PairEdit
  <2> HIDE DEF q
  <2> QED
    BY <2>1 DEF ClearTimer
<1> HIDE DEF q, f, s
<1>5. s \in Pairs /\ Sound(s) /\ Covered(s) /\ Follows(q, s) /\ s.m = q.m
  BY <1>3, ArmKeeps DEF s
<1>6. Apt(s) /\ Manned(s)
  BY <1>3, <1>5 DEF Manned
<1>7. want' \in [Timers -> BOOLEAN]
  BY <1>1, <1>4 DEF TypeOK
<1>8. Quieter
  BY <1>1, <1>4 DEF TypeOK, Quieter
<1> QED
  BY <1>1, <1>4, <1>6, <1>7, <1>8, QuietStep DEF TypeOK

(* setMetadata, in a room that is not Plain *)
LEMMA SetMetadataStep ==
  ASSUME IInv, NEW r, Apt(r), Manned(r), SetMetadata(r), UNCHANGED <<who, task, pass>>
  PROVE  IInv'
<1> DEFINE m == [r.m EXCEPT !.tagged = TRUE]
           d == [r.d EXCEPT !.tagged = TRUE]
           s == [m |-> m, d |-> d]
<1>1. TypeOK /\ r \in Pairs /\ Sound(r) /\ r.m \in MemType /\ r.d \in DiskType
  BY PairParts DEF Apt, IInv
<1>2. Becomes(s) /\ UNCHANGED <<sock, leaves, owed, want>> /\ ~Plain
  BY DEF SetMetadata, Plain
<1>3. /\ m \in MemType /\ m.players = r.m.players /\ m.auth = r.m.auth
      /\ m.disc = r.m.disc /\ m.timers = r.m.timers /\ m.save = r.m.save
      /\ m.cleanup = r.m.cleanup /\ m.ttl = r.m.ttl /\ m.beat = r.m.beat
      /\ m.last = r.m.last
  BY <1>1 DEF MemType
<1>4. m.dirty = r.m.dirty /\ m.rec = r.m.rec
  BY <1>1 DEF MemType
<1>5. d \in DiskType /\ d.blob = r.d.blob /\ d.alarm = r.d.alarm
  BY <1>1 DEF DiskType
<1>6. s \in Pairs /\ s.m = m /\ s.d = d
  BY <1>3, <1>5 DEF Pairs
<1> HIDE DEF s, m, d
<1>7. Alike(r, s) /\ Deadlines(s.m) = Deadlines(r.m)
  BY <1>3, <1>4, <1>5, <1>6 DEF Alike, Deadlines
<1>8. Sound(s) /\ (Mirrored(r) => Mirrored(s))
  BY <1>1, <1>7, AlikeKeeps
<1>9. Covered(r) => Covered(s)
  BY <1>5, <1>6, <1>7, FewerCovered
<1>10. Apt(s) /\ Manned(s)
  BY <1>2, <1>3, <1>4, <1>6, <1>8, <1>9 DEF Apt, Manned
<1>11. Quieter
  BY <1>1, <1>2 DEF TypeOK, Quieter
<1> QED
  BY <1>1, <1>2, <1>10, <1>11, QuietStep DEF TypeOK

(* kickPlayer up to its wait: the kicked connections are no players any    *)
(* more, and a departure tells it.                                         *)
LEMMA KickStep ==
  ASSUME IInv, NEW r, Apt(r), Manned(r), NEW u \in Users, Kick(r, u),
         UNCHANGED <<who, task, pass>>
  PROVE  IInv'
<1> DEFINE conns == {c \in Listed : who[c] = u}
           f == [c \in Conns |-> IF c \in conns THEN None ELSE r.m.players[c]]
           q == WithPlayers(r, f)
           s == DropDisc(q, u)
<1>1. TypeOK /\ TaskInv /\ r \in Pairs /\ Sound(r) /\ r.m \in MemType
  BY PairParts DEF Apt, IInv
<1>2. f \in PlayerMaps /\ Thins(f, r.m.players)
  BY <1>1 DEF MemType, PlayerMaps, Thins
<1>3. /\ Becomes(s) /\ UNCHANGED <<sock, want>>
      /\ IF conns = {} THEN UNCHANGED <<leaves, owed>>
         ELSE /\ leaves' = leaves \cup {Departure(u, "kick", conns)}
              /\ owed' = owed \ {u}
  <2>1. [r EXCEPT !.m.players = [c \in Conns |-> IF c \in conns THEN None ELSE @[c]]] = q
    BY <1>1, PairEdit DEF WithPlayers
  <2> HIDE DEF q
  <2> QED
    BY <2>1 DEF Kick
<1>q. q = WithPlayers(r, f) /\ s = DropDisc(q, u)
  OBVIOUS
<1> HIDE DEF f, q, s
<1>4. q \in Pairs /\ Sound(q) /\ Follows(r, q) /\ q.m.players = f
  BY <1>1, <1>2, <1>q, FewerPlayers
<1>5. s \in Pairs /\ Sound(s) /\ Follows(q, s) /\ s.m.players = q.m.players
  BY <1>4, <1>q, DropDiscKeeps
<1>6. Apt(s) /\ s.m.players = f
  BY <1>4, <1>5, FollowsOn, AptFollows
<1>7. CASE conns = {}
  <2>1. f = r.m.players
    BY <1>1, <1>7 DEF f, MemType
  <2>2. Quieter
    BY <1>1, <1>3 DEF TypeOK, Quieter
  <2>3. Manned(s)
    BY <1>6, <2>1 DEF Manned
  <2> QED
    BY <1>1, <1>3, <1>6, <1>7, <2>2, <2>3, QuietStep DEF TypeOK
<1>8. CASE conns # {}
  <2>1. /\ leaves' = leaves \cup {Departure(u, "kick", conns)}
        /\ owed' = owed \ {u}
    BY <1>3, <1>8
  <2>2. RestType'
    BY <1>1, <1>3, <2>1 DEF TypeOK, RestType, Departure, Listed
  <2>3. TaskInv'
    <3>1. awake'
      BY <1>3 DEF Becomes
    <3>2. \A l \in leaves' : l.why # "kick" => l \in leaves
      BY <2>1 DEF Departure
    <3> QED
      BY <1>1, <1>3, <3>1, <3>2 DEF TaskInv
  <2>4. LiveAuthedArePlayers'
    <3>1. SUFFICES ASSUME NEW c \in Conns, sock[c] = "open", who[c] # None,
                          \A l \in leaves' : c \notin l.conns
                   PROVE  mem'.players[c] = who[c]
      BY <1>3 DEF LiveAuthedArePlayers
    <3>2. c \notin conns /\ \A l \in leaves : c \notin l.conns
      <4> HIDE DEF conns
      <4>1. Departure(u, "kick", conns) \in leaves' /\ leaves \subseteq leaves'
        BY <2>1
      <4>2. Departure(u, "kick", conns).conns = conns
        BY DEF Departure
      <4> QED
        BY <3>1, <4>1, <4>2
    <3>3. r.m.players[c] = who[c]
      BY <3>1, <3>2 DEF Manned
    <3> QED
      BY <1>3, <1>6, <3>2, <3>3 DEF Becomes, f
  <2>5. Deserts => Deserts'
    BY <1>3 DEF Deserts
  <2> QED
    BY <1>3, <1>6, <2>2, <2>3, <2>4, <2>5, AptStep
<1> QED
  BY <1>7, <1>8

(* Any call of the API from a pair that is apt keeps the invariant. *)
LEMMA ApiStep ==
  ASSUME IInv, NEW r, Apt(r), Manned(r), Api(r)
  PROVE  IInv'
<1>1. UNCHANGED <<who, task, pass>>
  BY DEF Api
<1>2. CASE SetState(r)
  BY <1>1, <1>2, SetStateStep
<1>3. CASE SetStateTooLarge(r)
  BY <1>1, <1>3, SetStateTooLargeStep
<1>4. CASE SaveState(r)
  BY <1>1, <1>4, SaveStateStep
<1>5. CASE SetMetadata(r)
  BY <1>1, <1>5, SetMetadataStep
<1>6. ASSUME NEW t \in Timers, ClearTimer(r, t)
      PROVE  IInv'
  BY <1>1, <1>6, ClearTimerStep
<1>7. ASSUME NEW t \in Timers, NEW ms \in TimerDelays, SetTimer(r, t, ms)
      PROVE  IInv'
  BY <1>1, <1>7, SetTimerStep
<1>8. ASSUME NEW u \in Users, Kick(r, u)
      PROVE  IInv'
  BY <1>1, <1>8, KickStep
<1> QED
  BY <1>2, <1>3, <1>4, <1>5, <1>6, <1>7, <1>8 DEF Api

-----------------------------------------------------------------------------
(* Messages                                                                *)

(* Ping, a revoked session and a join that is denied do not change the     *)
(* pair they find.                                                         *)
LEMMA PingStep ==
  ASSUME IInv, NEW c \in Conns, Ping(c) \/ Revoke(c) \/ JoinDenied(c)
  PROVE  IInv'
<1>1. TypeOK /\ sock[c] = "open"
  BY DEF IInv, Ping, Revoke, JoinDenied, Serves
<1>2. Becomes(Ready) /\ UNCHANGED <<who, task, leaves, pass, owed, want>>
  BY DEF Ping, Revoke, JoinDenied
<1>3. Quieter
  <2>1. CASE Ping(c)
    BY <1>1, <2>1 DEF Ping, TypeOK, Quieter
  <2>2. CASE Revoke(c) \/ JoinDenied(c)
    BY <1>1, <2>2, ClosingFacts DEF Revoke, JoinDenied
  <2> QED
    BY <2>1, <2>2
<1>4. Apt(Ready) /\ Manned(Ready)
  BY <1>1, ReadyFacts
<1>5. owed' \subseteq Users /\ want' \in [Timers -> BOOLEAN]
  BY <1>1, <1>2 DEF TypeOK
<1> QED
  BY <1>2, <1>3, <1>4, <1>5, QuietStep

(* The tasks of sockets change, and that is no matter of the pair. *)
LEMMA TaskStep1 ==
  ASSUME IInv, NEW s, Apt(s), Manned(s), Becomes(s),
         UNCHANGED <<sock, who, leaves, pass, owed, want>>,
         NEW c \in Conns, task[c] = "idle", NEW x \in {"auth", "join"},
         x = "join" => who[c] # None, task' = [task EXCEPT ![c] = x]
  PROVE  IInv'
<1>1. TypeOK /\ TaskInv
  BY DEF IInv
<1>2. RestType'
  BY <1>1 DEF TypeOK, RestType
<1>3. Deserts => Deserts'
  BY DEF Deserts
<1>4. TaskInv'
  <2>1. awake'
    BY DEF Becomes
  <2>2. \A y \in Conns : task'[y] = IF y = c THEN x ELSE task[y]
    BY <1>1 DEF TypeOK
  <2>3. \A l \in leaves : l.conns \subseteq Conns
    BY <1>1 DEF TypeOK
  <2>4. \A l \in leaves : l.why = "leave" => c \notin l.conns
    BY <1>1, <2>3 DEF TaskInv
  <2>5. \A y \in Conns : task[y] = "join" => task'[y] = "join"
    BY <2>2
  <2>6. \A y \in Conns : task'[y] = "join" => who[y] # None
    BY <1>1, <2>2 DEF TaskInv
  <2>7. \A y \in Conns : sock[y] = "none" /\ who[y] # None => task'[y] = "join"
    BY <1>1, <2>5 DEF TaskInv
  <2>8. \A l \in leaves : l.why = "leave" => \A y \in l.conns : task'[y] = "leave"
    BY <1>1, <2>2, <2>3, <2>4 DEF TaskInv
  <2> QED
    BY <1>1, <2>1, <2>6, <2>7, <2>8 DEF TaskInv
<1>5. LiveAuthedArePlayers'
  BY DEF Manned, Becomes, LiveAuthedArePlayers
<1> QED
  BY <1>2, <1>3, <1>4, <1>5, AptStep

(* handleAuth up to its wait *)
LEMMA MsgAuthStep ==
  ASSUME IInv, NEW c \in Conns, MsgAuth(c)
  PROVE  IInv'
<1>1. /\ sock[c] = "open" /\ task[c] = "idle" /\ Becomes(Ready)
      /\ task' = [task EXCEPT ![c] = "auth"]
      /\ UNCHANGED <<sock, who, leaves, pass, owed, want>>
  BY DEF MsgAuth, Serves
<1>2. Apt(Ready) /\ Manned(Ready)
  BY <1>1, ReadyFacts
<1> QED
  BY <1>1, <1>2, TaskStep1

(* handleJoin up to its wait *)
LEMMA MsgJoinStep ==
  ASSUME IInv, NEW c \in Conns, MsgJoin(c)
  PROVE  IInv'
<1> DEFINE r == Ready
           m == [r.m EXCEPT !.created = TRUE]
           s == [m |-> m, d |-> r.d]
<1>1. /\ sock[c] = "open" /\ task[c] = "idle" /\ who[c] # None
      /\ Becomes([r EXCEPT !.m.created = TRUE])
      /\ task' = [task EXCEPT ![c] = "join"]
      /\ UNCHANGED <<sock, who, leaves, pass, owed, want>>
  BY DEF MsgJoin, Serves
<1>2. Apt(r) /\ Manned(r)
  BY <1>1, ReadyFacts
<1> HIDE DEF r
<1>3. r \in Pairs /\ r.m \in MemType /\ r.d \in DiskType
  BY <1>2, PairParts DEF Apt
<1>4. [r EXCEPT !.m.created = TRUE] = s
  BY <1>3, PairEdit
<1>5. m \in MemType
  BY <1>3 DEF MemType
<1>6. Resembles(r.m, m)
  BY <1>3 DEF Resembles, MemType
<1>7. s = [m |-> m, d |-> r.d]
  OBVIOUS
<1>8. Becomes(s)
  BY <1>1, <1>4
<1> HIDE DEF s, m
<1>9. Apt(s) /\ s.m.players = r.m.players
  BY <1>2, <1>5, <1>6, <1>7, DataChange
<1>10. Manned(s)
  BY <1>2, <1>9 DEF Manned
<1> QED
  BY <1>1, <1>8, <1>9, <1>10, TaskStep1

(* A user's grace period over, a connection of his may be a player. *)
LEMMA OnePlayerMore ==
  ASSUME NEW r, Apt(r), NEW c \in Conns, NEW u \in Users, ~Pending(r.m.disc[u]),
         NEW q, q = WithPlayers(r, [r.m.players EXCEPT ![c] = u])
  PROVE  Apt(q) /\ q.m.players = [r.m.players EXCEPT ![c] = u]
<1> DEFINE f == [r.m.players EXCEPT ![c] = u]
           m == [r.m EXCEPT !.players = f]
<1>1. r \in Pairs /\ Sound(r) /\ r.m \in MemType /\ r.d \in DiskType
  BY PairParts DEF Apt
<1>2. f \in PlayerMaps /\ \A x \in Conns : f[x] = IF x = c THEN u ELSE r.m.players[x]
  BY <1>1 DEF MemType, PlayerMaps
<1>3. q = [m |-> m, d |-> r.d]
  BY DEF WithPlayers
<1> HIDE DEF f
<1>4. /\ m.last = r.m.last /\ m.auth = r.m.auth /\ m.disc = r.m.disc
      /\ m.save = r.m.save /\ m.cleanup = r.m.cleanup /\ m.ttl = r.m.ttl
      /\ m.dirty = r.m.dirty /\ m.rec = r.m.rec /\ m.tagged = r.m.tagged
      /\ m.timers = r.m.timers /\ m.beat = r.m.beat /\ m.players = f
      /\ m \in MemType
  BY <1>1, <1>2 DEF MemType, PlayerMaps
<1>5. q \in Pairs /\ q.m = m /\ q.d = r.d
  BY <1>1, <1>3, <1>4 DEF Pairs
<1> HIDE DEF m
<1>6. GraceAlone(q)
  BY <1>1, <1>2, <1>4, <1>5 DEF Sound, GraceAlone
<1>7. LastStored(q) /\ LastAgrees(q) /\ Stored(q) /\ DirtyHasSave(q)
  BY <1>1, <1>4, <1>5 DEF Sound, LastStored, LastAgrees, Stored, DirtyHasSave
<1>8. BlobOf(q.m) = BlobOf(r.m) /\ Deadlines(q.m) = Deadlines(r.m)
  BY <1>4, <1>5 DEF BlobOf, Deadlines
<1>9. Follows(r, q)
  BY <1>4, <1>5, <1>8 DEF Follows, Covered, Mirrored, Backed, Wakes
<1>10. Apt(q)
  BY <1>5, <1>6, <1>7, <1>9, AptFollows DEF Sound
<1> QED
  BY <1>4, <1>5, <1>10 DEF f

(* The answer to a message ends its task. *)
LEMMA AnswerTask ==
  ASSUME IInv, NEW c \in Conns, task[c] \in {"auth", "join"},
         task' = [task EXCEPT ![c] = "idle"], awake', Quieter, UNCHANGED leaves,
         \A y \in Conns : y # c => who'[y] = who[y],
         sock[c] = "none" => who'[c] = None
  PROVE  TaskInv' /\ task' \in [Conns -> {"idle", "auth", "join", "leave"}]
<1>1. TypeOK /\ TaskInv
  BY DEF IInv
<1>2. \A y \in Conns : task'[y] = IF y = c THEN "idle" ELSE task[y]
  BY <1>1 DEF TypeOK
<1>3. \A y \in Conns : sock'[y] = "none" <=> sock[y] = "none"
  BY DEF Quieter
<1>4. \A l \in leaves : l.conns \subseteq Conns
  BY <1>1 DEF TypeOK
<1>5. \A l \in leaves : l.why = "leave" => \A y \in l.conns : y # c /\ task'[y] = "leave"
  BY <1>1, <1>2, <1>4 DEF TaskInv
<1>6. \A y \in Conns : task'[y] = "join" => who'[y] # None
  BY <1>1, <1>2 DEF TaskInv
<1>7. \A y \in Conns : sock'[y] = "none" /\ who'[y] # None => task'[y] = "join"
  BY <1>1, <1>2, <1>3 DEF TaskInv
<1>8. \A l \in leaves : l.why = "close" => \A y \in l.conns : sock'[y] = "none"
  BY <1>1, <1>3, <1>4 DEF TaskInv
<1>9. \A k, l \in leaves :
        k.why = "leave" /\ l.why = "leave" /\ k.conns \cap l.conns # {} => k = l
  BY <1>1 DEF TaskInv
<1>10. task' \in [Conns -> {"idle", "auth", "join", "leave"}]
  BY <1>1 DEF TypeOK
<1> QED
  BY <1>5, <1>6, <1>7, <1>8, <1>9, <1>10 DEF TaskInv

(* handleAuth after its wait: the connection becomes a player, and the     *)
(* grace period of its user ends.                                          *)
LEMMA AuthOkStep ==
  ASSUME IInv, NEW c \in Conns, NEW u \in Users, AuthOk(c, u)
  PROVE  IInv'
<1> DEFINE p == DropAuth(Now, c)
           r == DropDisc(p, u)
           f == [r.m.players EXCEPT ![c] = u]
           q == WithPlayers(r, f)
<1>1. /\ task[c] = "auth"
      /\ who' = [who EXCEPT ![c] = IF sock[c] = "none" THEN None ELSE u]
      /\ owed' = IF sock[c] = "none" THEN owed ELSE owed \cup {u}
      /\ task' = [task EXCEPT ![c] = "idle"]
      /\ UNCHANGED <<sock, leaves, pass, want>>
  BY DEF AuthOk
<1>2. TypeOK /\ TaskInv /\ Apt(Now) /\ Manned(Now)
  BY <1>1, ActiveFacts DEF IInv, UnderWay
<1>3. Becomes([r EXCEPT !.m.players[c] = u])
  BY DEF AuthOk, Now
<1> HIDE DEF r, p
<1>4. p \in Pairs /\ Sound(p) /\ Follows(Now, p) /\ p.m.players = Now.m.players
  BY <1>2, DropAuthKeeps DEF Apt, p
<1>5. /\ r \in Pairs /\ Sound(r) /\ Follows(p, r) /\ r.m.players = p.m.players
      /\ ~Pending(r.m.disc[u])
  BY <1>4, DropDiscKeeps DEF r
<1>6. Apt(r) /\ r.m.players = Now.m.players
  BY <1>2, <1>4, <1>5, FollowsOn, AptFollows
<1>7. [r EXCEPT !.m.players[c] = u] = q
  BY <1>5, PairEdit DEF WithPlayers
<1>8. q = WithPlayers(r, f)
  OBVIOUS
<1>9. Becomes(q)
  BY <1>3, <1>7
<1> HIDE DEF q
<1>10. Apt(q) /\ q.m.players = f
  BY <1>5, <1>6, <1>8, OnePlayerMore
<1>11. Quieter
  BY <1>1, <1>2 DEF TypeOK, Quieter
<1>12. TaskInv' /\ task' \in [Conns -> {"idle", "auth", "join", "leave"}]
  <2>1. awake'
    BY <1>9 DEF Becomes
  <2>2. /\ \A y \in Conns : y # c => who'[y] = who[y]
        /\ sock[c] = "none" => who'[c] = None
    BY <1>1, <1>2 DEF TypeOK
  <2> QED
    BY <1>1, <1>11, <2>1, <2>2, AnswerTask
<1>13. RestType'
  BY <1>1, <1>2, <1>12 DEF TypeOK, RestType
<1>14. LiveAuthedArePlayers'
  <2>1. r.m.players \in [Conns -> Users \cup {None}]
    BY <1>5, PairParts DEF MemType
  <2>2. SUFFICES ASSUME NEW y \in Conns, sock[y] = "open", who'[y] # None,
                        \A l \in leaves : y \notin l.conns
                 PROVE  mem'.players[y] = who'[y]
    BY <1>1 DEF LiveAuthedArePlayers
  <2>3. mem'.players = f
    BY <1>9, <1>10 DEF Becomes
  <2>4. CASE y = c
    BY <1>1, <1>2, <2>1, <2>2, <2>3, <2>4 DEF TypeOK
  <2>5. CASE y # c
    <3>1. who'[y] = who[y] /\ mem'.players[y] = r.m.players[y]
      BY <1>1, <1>2, <2>1, <2>3, <2>5 DEF TypeOK
    <3> QED
      BY <1>2, <1>6, <2>2, <3>1 DEF Manned
  <2> QED
    BY <2>4, <2>5
<1>15. Deserts => Deserts'
  BY <1>1 DEF Deserts
<1> QED
  BY <1>1, <1>9, <1>10, <1>12, <1>13, <1>14, <1>15, AptStep

(* The room's own pair, when a message's answer leaves it as it is         *)
LEMMA SamePair ==
  ASSUME TypeOK, awake, UNCHANGED <<awake, mem, disk>>
  PROVE  Becomes(Now)
  BY DEF Becomes, Now, TypeOK

(* A rejected token, or a rejected join *)
LEMMA RejectStep ==
  ASSUME IInv, NEW c \in Conns, AuthFail(c) \/ JoinRejected(c)
  PROVE  IInv'
<1>1. /\ task[c] \in {"auth", "join"} /\ task' = [task EXCEPT ![c] = "idle"]
      /\ UNCHANGED <<awake, mem, disk, leaves, pass, owed, want>>
      /\ \E S \in {{}, {c}} : sock' = Closing(S)
  BY DEF AuthFail, JoinRejected
<1>2. TypeOK /\ TaskInv /\ Apt(Now) /\ Manned(Now) /\ awake
  BY <1>1, ActiveFacts DEF IInv, UnderWay
<1>3. Becomes(Now)
  BY <1>1, <1>2, SamePair
<1>4. Quieter
  BY <1>1, <1>2, ClosingFacts
<1>5. /\ who' \in [Conns -> Users \cup {None}]
      /\ \A y \in Conns : y # c => who'[y] = who[y]
      /\ sock[c] = "none" => who'[c] = None
      /\ who'[c] \in {who[c], None}
  <2>1. CASE AuthFail(c)
    BY <1>2, <2>1 DEF AuthFail, TypeOK, TaskInv
  <2>2. CASE JoinRejected(c)
    BY <1>2, <2>2 DEF JoinRejected, TypeOK
  <2> QED
    BY <2>1, <2>2
<1>6. TaskInv' /\ task' \in [Conns -> {"idle", "auth", "join", "leave"}]
  BY <1>1, <1>2, <1>4, <1>5, AnswerTask
<1>7. RestType'
  BY <1>1, <1>2, <1>4, <1>5, <1>6 DEF TypeOK, RestType, Quieter
<1>8. LiveAuthedArePlayers'
  <2>1. \A y \in Conns : who'[y] # None => who'[y] = who[y]
    BY <1>5
  <2>2. \A y \in Conns : sock'[y] = "open" => sock[y] = "open"
    BY <1>4 DEF Quieter
  <2> QED
    BY <1>1, <1>2, <2>1, <2>2, NowFacts DEF LiveAuthedArePlayers, Manned
<1>9. Deserts => Deserts'
  BY <1>4 DEF Deserts, Quieter
<1> QED
  BY <1>1, <1>2, <1>3, <1>6, <1>7, <1>8, <1>9, AptStep

(* The rest of handleJoin *)
LEMMA JoinOkStep ==
  ASSUME IInv, NEW c \in Conns, JoinOk(c)
  PROVE  IInv'
<1>1. /\ task[c] = "join" /\ task' = [task EXCEPT ![c] = "idle"]
      /\ who' = [who EXCEPT ![c] = IF sock[c] = "none" THEN None ELSE @]
      /\ UNCHANGED <<awake, disk, sock, leaves, pass, owed, want>>
  BY DEF JoinOk
<1>2. /\ TypeOK /\ TaskInv /\ Apt(Now) /\ Manned(Now) /\ awake
      /\ mem \in MemType /\ Now.m = mem /\ Now.d = disk
  BY <1>1, ActiveFacts, NowFacts DEF IInv, UnderWay, TypeOK
<1>3. PICK v \in 0..MaxVer : mem' = [mem EXCEPT !.ver = v, !.ps = @ \cup {who[c]}]
  BY <1>2 DEF JoinOk, MemType
<1>4. who[c] \in Users
  BY <1>1, <1>2 DEF TypeOK, TaskInv
<1>5. mem' \in MemType /\ Resembles(mem, mem')
  BY <1>2, <1>3, <1>4 DEF MemType, Resembles
<1> DEFINE s == [m |-> mem', d |-> disk]
<1>6. Apt(s) /\ s.m.players = mem.players
  BY <1>2, <1>5, DataChange
<1>7. Becomes(s)
  BY <1>1, <1>2 DEF Becomes, TypeOK
<1> HIDE DEF s
<1>8. Quieter
  BY <1>1, <1>2 DEF TypeOK, Quieter
<1>9. /\ \A y \in Conns : y # c => who'[y] = who[y]
      /\ sock[c] = "none" => who'[c] = None
      /\ who'[c] \in {who[c], None}
  BY <1>1, <1>2 DEF TypeOK
<1>10. TaskInv' /\ task' \in [Conns -> {"idle", "auth", "join", "leave"}]
  BY <1>1, <1>2, <1>8, <1>9, AnswerTask
<1>11. RestType'
  BY <1>1, <1>2, <1>10 DEF TypeOK, RestType
<1>12. LiveAuthedArePlayers'
  <2>1. \A y \in Conns : who'[y] # None => who'[y] = who[y]
    BY <1>9
  <2>2. mem'.players = mem.players
    BY <1>5 DEF Resembles
  <2> QED
    BY <1>1, <1>2, <2>1, <2>2 DEF LiveAuthedArePlayers, Manned
<1>13. Deserts => Deserts'
  BY <1>1 DEF Deserts
<1> QED
  BY <1>1, <1>6, <1>7, <1>10, <1>11, <1>12, <1>13, AptStep

(* A call of the API by a message's handler, or by a hook under way *)
LEMMA CallStep ==
  ASSUME IInv, HookCall \/ \E c \in Conns : MsgSend(c)
  PROVE  IInv'
<1>1. ASSUME NEW c \in Conns, MsgSend(c)
      PROVE  IInv'
  <2>1. sock[c] = "open" /\ Api(Ready)
    BY <1>1 DEF MsgSend, Serves
  <2> QED
    BY <2>1, ReadyFacts, ApiStep
<1>2. ASSUME HookCall
      PROVE  IInv'
  <2>1. UnderWay
    BY <1>2 DEF HookCall, UnderWay, NoPass
  <2>2. Api(Now)
    BY <1>2 DEF HookCall, Now
  <2> QED
    BY <2>1, <2>2, ActiveFacts, ApiStep
<1> QED
  BY <1>1, <1>2

-----------------------------------------------------------------------------
(* Leaving                                                                 *)

(* Sockets told to close are no matter of the tasks. *)
LEMMA QuietTasks ==
  ASSUME IInv, awake', Quieter, UNCHANGED <<who, task, leaves>>
  PROVE  TaskInv'
<1>1. TypeOK /\ TaskInv
  BY DEF IInv
<1>2. \A c \in Conns : sock'[c] = "none" <=> sock[c] = "none"
  BY DEF Quieter
<1>3. \A l \in leaves : l.conns \subseteq Conns
  BY <1>1 DEF TypeOK
<1> QED
  BY <1>1, <1>2, <1>3 DEF TaskInv

(* A connection that is no player any more: handleExplicitLeave up to its  *)
(* wait, with the departure of the user or without it                      *)
LEMMA MsgLeaveStep ==
  ASSUME IInv, NEW c \in Conns, MsgLeave(c)
  PROVE  IInv'
<1> DEFINE r == Ready
           u == r.m.players[c]
           q == [r EXCEPT !.m.players[c] = None]
           f == [r.m.players EXCEPT ![c] = None]
           s == IF u = None THEN r ELSE DropDisc(q, u)
<1>1. /\ sock[c] = "open" /\ task[c] = "idle" /\ who[c] # None /\ Becomes(s)
      /\ IF LastOf(r.m, c)
         THEN /\ leaves' = leaves \cup {Departure(u, "leave", {c})}
              /\ task' = [task EXCEPT ![c] = "leave"]
              /\ owed' = owed \ {u}
              /\ UNCHANGED sock
         ELSE /\ sock' = Closing({c})
              /\ UNCHANGED <<leaves, task, owed>>
      /\ UNCHANGED <<who, pass, want>>
  BY DEF MsgLeave, Serves
<1>2. TypeOK /\ TaskInv /\ Apt(r) /\ Manned(r)
  BY <1>1, ReadyFacts DEF IInv
<1> HIDE DEF r
<1>3. r \in Pairs /\ Sound(r) /\ u \in Users \cup {None} /\ r.m.players \in PlayerMaps
  BY <1>2, PairParts DEF Apt, MemType, PlayerMaps
<1>4. q \in Pairs /\ Sound(q) /\ Follows(r, q) /\ q.m.players = f
  BY <1>3, OnePlayerLess
<1>5. /\ \A y \in Conns : f[y] = IF y = c THEN None ELSE r.m.players[y]
      /\ u = None => f = r.m.players
  BY <1>3 DEF PlayerMaps
<1> HIDE DEF q, f
<1>6. Apt(s) /\ s.m.players = f
  <2>1. CASE u = None
    BY <1>2, <1>5, <2>1
  <2>2. CASE u # None
    <3>1. s = DropDisc(q, u) /\ u \in Users
      BY <1>3, <2>2
    <3> HIDE DEF s, u
    <3>2. s \in Pairs /\ Sound(s) /\ Follows(q, s) /\ s.m.players = q.m.players
      BY <1>4, <3>1, DropDiscKeeps
    <3> QED
      BY <1>2, <1>4, <3>2, FollowsOn, AptFollows
  <2> QED
    BY <2>1, <2>2
<1> HIDE DEF s
<1>7. CASE LastOf(r.m, c)
  <2> DEFINE l0 == Departure(u, "leave", {c})
  <2>1. /\ leaves' = leaves \cup {l0} /\ task' = [task EXCEPT ![c] = "leave"]
        /\ owed' = owed \ {u} /\ UNCHANGED <<sock, who, pass, want>>
        /\ u \in Users
    BY <1>1, <1>3, <1>7 DEF LastOf
  <2>2. l0.why = "leave" /\ l0.conns = {c}
    BY DEF Departure
  <2>3. l0 \in [user : Users, why : {"leave", "close", "kick"},
                conns : SUBSET Conns, stage : {"hook", "destroy"}]
    BY <2>1 DEF Departure
  <2> HIDE DEF l0, u
  <2>4. RestType'
    BY <1>2, <2>1, <2>3 DEF TypeOK, RestType
  <2>5. \A y \in Conns : task'[y] = IF y = c THEN "leave" ELSE task[y]
    BY <1>2, <2>1 DEF TypeOK
  <2>6. \A l \in leaves : l.conns \subseteq Conns
    BY <1>2 DEF TypeOK
  <2>7. \A l \in leaves : l.why = "leave" => c \notin l.conns
    BY <1>1, <1>2, <2>6 DEF TaskInv
  <2>8. TaskInv'
    <3>1. awake'
      BY <1>1 DEF Becomes
    <3>2. \A y \in Conns : task'[y] = "join" => who'[y] # None
      BY <1>2, <2>1, <2>5 DEF TaskInv
    <3>3. \A y \in Conns : sock'[y] = "none" /\ who'[y] # None => task'[y] = "join"
      BY <1>1, <1>2, <2>1, <2>5 DEF TaskInv
    <3>4. \A l \in leaves' : l.why = "close" => \A y \in l.conns : sock'[y] = "none"
      BY <1>2, <2>1, <2>2 DEF TaskInv
    <3>5. \A l \in leaves' : l.why = "leave" => \A y \in l.conns : task'[y] = "leave"
      BY <1>2, <2>1, <2>2, <2>5, <2>6 DEF TaskInv
    <3>6. \A k, l \in leaves' :
            k.why = "leave" /\ l.why = "leave" /\ k.conns \cap l.conns # {} => k = l
      <4>1. SUFFICES ASSUME NEW k \in leaves', NEW l \in leaves', k.why = "leave",
                            l.why = "leave", k.conns \cap l.conns # {}
                     PROVE  k = l
        OBVIOUS
      <4>2. CASE k \in leaves /\ l \in leaves
        BY <1>2, <4>1, <4>2 DEF TaskInv
      <4>3. CASE k = l0 \/ l = l0
        BY <2>1, <2>2, <2>7, <4>1, <4>3
      <4> QED
        BY <2>1, <4>2, <4>3
    <3> QED
      BY <3>1, <3>2, <3>3, <3>4, <3>5, <3>6 DEF TaskInv
  <2>9. LiveAuthedArePlayers'
    <3>1. SUFFICES ASSUME NEW y \in Conns, sock[y] = "open", who[y] # None,
                          \A l \in leaves' : y \notin l.conns
                   PROVE  mem'.players[y] = who[y]
      BY <2>1 DEF LiveAuthedArePlayers
    <3>2. y # c /\ \A l \in leaves : y \notin l.conns
      BY <2>1, <2>2, <3>1
    <3> QED
      BY <1>1, <1>2, <1>5, <1>6, <3>1, <3>2 DEF Manned, Becomes
  <2>10. Deserts => Deserts'
    BY <2>1 DEF Deserts
  <2> QED
    BY <1>1, <1>6, <2>1, <2>4, <2>8, <2>9, <2>10, AptStep
<1>8. CASE ~LastOf(r.m, c)
  <2>1. sock' = Closing({c}) /\ UNCHANGED <<who, task, leaves, pass, owed, want>>
    BY <1>1, <1>8
  <2>2. Quieter /\ sock'[c] # "open"
    BY <1>2, <2>1, ClosingFacts
  <2>3. TaskInv'
    <3>1. awake'
      BY <1>1 DEF Becomes
    <3> QED
      BY <2>1, <2>2, <3>1, QuietTasks
  <2>4. RestType'
    BY <1>2, <2>1, <2>2 DEF TypeOK, RestType, Quieter
  <2>5. LiveAuthedArePlayers'
    <3>1. SUFFICES ASSUME NEW y \in Conns, sock'[y] = "open", who[y] # None,
                          \A l \in leaves : y \notin l.conns
                   PROVE  mem'.players[y] = who[y]
      BY <2>1 DEF LiveAuthedArePlayers
    <3>2. y # c /\ sock[y] = "open"
      BY <2>2, <3>1 DEF Quieter
    <3> QED
      BY <1>1, <1>2, <1>5, <1>6, <3>1, <3>2 DEF Manned, Becomes
  <2>6. Deserts => Deserts'
    BY <2>2 DEF Deserts, Quieter
  <2> QED
    BY <1>1, <1>6, <2>1, <2>3, <2>4, <2>5, <2>6, AptStep
<1> QED
  BY <1>7, <1>8

(* What follows a departure: its sockets are closed or gone, its message   *)
(* has its answer.                                                         *)
LEMMA AfterLeaveStep ==
  ASSUME IInv, NEW l \in leaves, NEW r, Apt(r), r.m.players = mem.players, AfterLeave(l, r),
         UNCHANGED <<who, pass, owed>>, want' \in [Timers -> BOOLEAN]
  PROVE  IInv'
<1> DEFINE s == IF l.why = "kick" THEN r ELSE CleanupIfDeserted(r)
<1>1. /\ Becomes(s) /\ leaves' = leaves \ {l}
      /\ sock' = IF l.why = "close" THEN sock ELSE Closing(l.conns)
      /\ task' = [c \in Conns |->
                   IF l.why = "leave" /\ c \in l.conns THEN "idle" ELSE task[c]]
  BY DEF AfterLeave
<1>2. TypeOK /\ TaskInv /\ Manned(Now)
  BY ActiveFacts DEF IInv, UnderWay
<1>3. Apt(s) /\ s.m.players = mem.players
  <2>1. CASE l.why = "kick"
    BY <2>1
  <2>2. CASE l.why # "kick"
    <3>1. s = CleanupIfDeserted(r)
      BY <2>2
    <3> HIDE DEF s
    <3>2. s \in Pairs /\ Sound(s) /\ Follows(r, s) /\ s.m.players = r.m.players
      BY <3>1, CleanupIfDesertedKeeps DEF Apt
    <3> QED
      BY <3>2, AptFollows
  <2> QED
    BY <2>1, <2>2
<1> HIDE DEF s
<1>4. Quieter /\ \A c \in l.conns : sock'[c] # "open"
  <2>1. l.conns \subseteq Conns
    BY <1>2 DEF TypeOK
  <2>2. CASE l.why = "close"
    BY <1>1, <1>2, <2>1, <2>2 DEF TaskInv, TypeOK, Quieter
  <2>3. CASE l.why # "close"
    BY <1>1, <1>2, <2>1, <2>3, ClosingFacts
  <2> QED
    BY <2>2, <2>3
<1>5. /\ \A c \in Conns : task'[c] = IF l.why = "leave" /\ c \in l.conns
                                     THEN "idle" ELSE task[c]
      /\ task' \in [Conns -> {"idle", "auth", "join", "leave"}]
  BY <1>1, <1>2 DEF TypeOK
<1>6. RestType'
  BY <1>1, <1>2, <1>4, <1>5 DEF TypeOK, RestType, Quieter
<1>7. TaskInv'
  <2>1. awake'
    BY <1>1 DEF Becomes
  <2>2. \A c \in Conns : l.why = "leave" /\ c \in l.conns => task[c] = "leave"
    BY <1>2 DEF TaskInv
  <2>3. \A c \in Conns : sock'[c] = "none" <=> sock[c] = "none"
    BY <1>4 DEF Quieter
  <2>4. \A k \in leaves : k.conns \subseteq Conns
    BY <1>2 DEF TypeOK
  <2>5. \A c \in Conns : task'[c] = "join" => who'[c] # None
    BY <1>2, <1>5 DEF TaskInv
  <2>6. \A c \in Conns : sock'[c] = "none" /\ who'[c] # None => task'[c] = "join"
    BY <1>2, <1>5, <2>2, <2>3 DEF TaskInv
  <2>7. \A k \in leaves' : k.why = "close" => \A c \in k.conns : sock'[c] = "none"
    BY <1>1, <1>2, <2>3, <2>4 DEF TaskInv
  <2>8. \A k \in leaves' : k.why = "leave" => \A c \in k.conns : task'[c] = "leave"
    <3>1. SUFFICES ASSUME NEW k \in leaves', k.why = "leave", NEW c \in k.conns
                   PROVE  task'[c] = "leave"
      OBVIOUS
    <3>2. k \in leaves /\ k # l /\ c \in Conns
      BY <1>1, <2>4
    <3>3. task[c] = "leave" /\ ~(l.why = "leave" /\ c \in l.conns)
      BY <1>2, <3>1, <3>2 DEF TaskInv
    <3> QED
      BY <1>5, <3>2, <3>3
  <2>9. \A j, k \in leaves' :
          j.why = "leave" /\ k.why = "leave" /\ j.conns \cap k.conns # {} => j = k
    BY <1>1, <1>2 DEF TaskInv
  <2> QED
    BY <2>1, <2>5, <2>6, <2>7, <2>8, <2>9 DEF TaskInv
<1>8. LiveAuthedArePlayers'
  <2>1. SUFFICES ASSUME NEW c \in Conns, sock'[c] = "open", who[c] # None,
                        \A k \in leaves' : c \notin k.conns
                 PROVE  mem'.players[c] = who[c]
    BY DEF LiveAuthedArePlayers
  <2>2. c \notin l.conns /\ sock[c] = "open"
    BY <1>4, <2>1 DEF Quieter
  <2>3. \A k \in leaves : c \notin k.conns
    BY <1>1, <2>1, <2>2
  <2> QED
    BY <1>1, <1>2, <1>3, <2>1, <2>2, <2>3, NowFacts DEF Manned, Becomes
<1>9. Deserts => Deserts'
  BY <1>4 DEF Deserts, Quieter
<1> QED
  BY <1>1, <1>3, <1>6, <1>7, <1>8, <1>9, AptStep

(* The user's state is forgotten. *)
LEMMA ForgetKeeps ==
  ASSUME NEW r, Apt(r), NEW u
  PROVE  Apt(Forget(r, u)) /\ Forget(r, u).m.players = r.m.players
<1> DEFINE m == [r.m EXCEPT !.ps = @ \ {u}]
           s == [m |-> m, d |-> r.d]
<1>1. r \in Pairs /\ r.m \in MemType
  BY PairParts DEF Apt
<1>2. Forget(r, u) = s
  BY <1>1, PairEdit DEF Forget
<1>3. m \in MemType /\ Resembles(r.m, m)
  BY <1>1 DEF MemType, Resembles
<1>4. s = [m |-> m, d |-> r.d]
  OBVIOUS
<1> HIDE DEF m, s
<1>5. Apt(s) /\ s.m.players = r.m.players
  BY <1>3, <1>4, DataChange
<1> QED
  BY <1>2, <1>5

(* finalizePlayerLeave when onLeave has returned *)
LEMMA LeaveHookStep ==
  ASSUME IInv, NEW l \in leaves, LeaveHook(l)
  PROVE  IInv'
<1> DEFINE r == Forget(Now, l.user)
<1>1. TypeOK /\ TaskInv /\ Apt(Now) /\ Manned(Now) /\ awake
  BY ActiveFacts DEF IInv, UnderWay
<1>2. Apt(r) /\ r.m.players = mem.players
  BY <1>1, ForgetKeeps, NowFacts
<1>3. /\ IF Deserted(r.m)
         THEN /\ Becomes(r)
              /\ leaves' = (leaves \ {l}) \cup {[l EXCEPT !.stage = "destroy"]}
              /\ UNCHANGED <<sock, task>>
         ELSE AfterLeave(l, r)
      /\ UNCHANGED <<who, pass, owed, want>>
  BY DEF LeaveHook, Now
<1> HIDE DEF r
<1>4. CASE Deserted(r.m)
  <2> DEFINE k == [l EXCEPT !.stage = "destroy"]
  <2>1. /\ Becomes(r) /\ leaves' = (leaves \ {l}) \cup {k}
        /\ UNCHANGED <<sock, task, who, pass, owed, want>>
    BY <1>3, <1>4
  <2>2. /\ k \in [user : Users, why : {"leave", "close", "kick"},
                  conns : SUBSET Conns, stage : {"hook", "destroy"}]
        /\ k.why = l.why /\ k.conns = l.conns
    BY <1>1 DEF TypeOK
  <2> HIDE DEF k
  <2>3. RestType'
    BY <1>1, <2>1, <2>2 DEF TypeOK, RestType
  <2>4. TaskInv'
    <3>1. awake'
      BY <2>1 DEF Becomes
    <3>2. \A j \in leaves' : j.why = "close" => \A c \in j.conns : sock[c] = "none"
      BY <1>1, <2>1, <2>2 DEF TaskInv
    <3>3. \A j \in leaves' : j.why = "leave" => \A c \in j.conns : task[c] = "leave"
      BY <1>1, <2>1, <2>2 DEF TaskInv
    <3>4. \A i, j \in leaves' :
            i.why = "leave" /\ j.why = "leave" /\ i.conns \cap j.conns # {} => i = j
      <4>1. SUFFICES ASSUME NEW i \in leaves', NEW j \in leaves', i.why = "leave",
                            j.why = "leave", i.conns \cap j.conns # {}
                     PROVE  i = j
        OBVIOUS
      <4>2. \A x, y \in leaves :
              x.why = "leave" /\ y.why = "leave" /\ x.conns \cap y.conns # {} => x = y
        BY <1>1 DEF TaskInv
      <4>3. CASE i = k /\ j # k
        BY <2>1, <2>2, <4>1, <4>2, <4>3
      <4>4. CASE i # k /\ j = k
        BY <2>1, <2>2, <4>1, <4>2, <4>4
      <4>5. CASE i # k /\ j # k
        BY <2>1, <4>1, <4>2, <4>5
      <4> QED
        BY <4>3, <4>4, <4>5
    <3> QED
      BY <1>1, <2>1, <3>1, <3>2, <3>3, <3>4 DEF TaskInv
  <2>5. LiveAuthedArePlayers'
    <3>1. \A c \in Conns : (\A j \in leaves' : c \notin j.conns)
                             => \A j \in leaves : c \notin j.conns
      BY <2>1, <2>2
    <3> QED
      BY <1>1, <1>2, <2>1, <3>1, NowFacts DEF LiveAuthedArePlayers, Manned, Becomes
  <2>6. Deserts => Deserts'
    BY <2>1 DEF Deserts
  <2> QED
    BY <1>2, <2>1, <2>3, <2>4, <2>5, <2>6, AptStep
<1>5. CASE ~Deserted(r.m)
  <2>1. AfterLeave(l, r) /\ UNCHANGED <<who, pass, owed, want>>
    BY <1>3, <1>5
  <2>2. want' \in [Timers -> BOOLEAN]
    BY <1>1, <2>1 DEF TypeOK
  <2> QED
    BY <1>2, <2>1, <2>2, AfterLeaveStep
<1> QED
  BY <1>4, <1>5

(* ... and when onDestroy has *)
LEMMA LeaveDestroyStep ==
  ASSUME IInv, NEW l \in leaves, LeaveDestroy(l)
  PROVE  IInv'
<1> DEFINE r == Destroyed(Now)
<1>1. TypeOK /\ TaskInv /\ Apt(Now)
  BY ActiveFacts DEF IInv, UnderWay
<1>2. /\ AfterLeave(l, r) /\ want' = NoTimers
      /\ UNCHANGED <<who, pass, owed>>
  BY DEF LeaveDestroy, Now
<1> HIDE DEF r
<1>3. /\ r \in Pairs /\ Settled(r) /\ r.m.players = Now.m.players
      /\ r.m.rec = Now.m.rec /\ ~r.m.tagged /\ ~r.d.tagged
  BY <1>1, DestroyedKeeps DEF Apt, r
<1>4. Apt(r) /\ r.m.players = mem.players
  BY <1>1, <1>3, NowFacts DEF Apt, Settled, Untagged
<1>5. want' \in [Timers -> BOOLEAN]
  BY <1>2 DEF NoTimers
<1> QED
  BY <1>2, <1>4, <1>5, AfterLeaveStep

-----------------------------------------------------------------------------
(* Sockets come and go                                                     *)

(* A room with a socket, awake and needing no recovery *)
LEMMA BusyFacts ==
  ASSUME IInv, awake, ~mem.rec, NEW c \in Conns, sock[c] # "none"
  PROVE  Apt(Now) /\ Manned(Now)
<1>1. /\ TypeOK /\ SoundInv /\ MirrorInv /\ (Plain => WakeInv)
      /\ LiveAuthedArePlayers /\ ~Deserts
  BY DEF IInv, HeldInv, Deserts
<1>2. Now \in Pairs /\ Now.m = mem
  BY <1>1, NowFacts
<1>3. Apt(Now)
  BY <1>1, <1>2 DEF SoundInv, MirrorInv, WakeInv, Detached, Apt
<1>4. Manned(Now)
  BY <1>1, <1>2 DEF LiveAuthedArePlayers, Manned
<1> QED
  BY <1>3, <1>4

(* An instance that is to be recovered, or that is made now, is at rest. *)
LEMMA AtRest ==
  ASSUME IInv, ~awake \/ mem.rec
  PROVE  /\ pass = NoPass /\ leaves = {} /\ \A c \in Conns : task[c] = "idle"
         /\ \A u \in Users : Pending(disk.blob.disc[u]) =>
              \A c \in Conns : sock[c] # "none" => who[c] # u
  BY DEF IInv, HeldInv, TypeOK, TaskInv, RecInv, AbsentInv

(* The bookkeeping of a socket that is gone: webSocketClose is called, and *)
(* a departure may begin.                                                  *)
LEMMA GoneTasks ==
  ASSUME IInv, NEW c \in Conns, awake', NEW new,
         new = {} \/ \E u \in Users : new = {Departure(u, "close", {c})},
         leaves' = leaves \cup new,
         sock' = [sock EXCEPT ![c] = "none"],
         who' = [who EXCEPT ![c] = IF task[c] = "join" THEN @ ELSE None],
         owed' \subseteq Users, UNCHANGED <<task, pass, want>>
  PROVE  RestType' /\ TaskInv' /\ (Deserts => Deserts')
<1>1. TypeOK /\ TaskInv
  BY DEF IInv
<1>2. \A l \in new :
        /\ l \in [user : Users, why : {"leave", "close", "kick"},
                  conns : SUBSET Conns, stage : {"hook", "destroy"}]
        /\ l.why = "close" /\ l.conns = {c}
  BY DEF Departure
<1>3. \A y \in Conns : /\ sock'[y] = IF y = c THEN "none" ELSE sock[y]
                       /\ y # c => who'[y] = who[y]
                       /\ who'[c] = IF task[c] = "join" THEN who[c] ELSE None
  BY <1>1 DEF TypeOK
<1>4. \A l \in leaves : l.conns \subseteq Conns
  BY <1>1 DEF TypeOK
<1>5. RestType'
  BY <1>1, <1>2 DEF TypeOK, RestType
<1>6. \A l \in leaves' : l.why = "close" => \A y \in l.conns : sock'[y] = "none"
  BY <1>1, <1>2, <1>3, <1>4 DEF TaskInv
<1>7. \A l \in leaves' : l.why = "leave" => l \in leaves
  BY <1>2
<1>8. \A y \in Conns : task'[y] = "join" => who'[y] # None
  BY <1>1, <1>3 DEF TaskInv
<1>9. \A y \in Conns : sock'[y] = "none" /\ who'[y] # None => task'[y] = "join"
  BY <1>1, <1>3 DEF TaskInv
<1>10. TaskInv'
  BY <1>1, <1>6, <1>7, <1>8, <1>9 DEF TaskInv
<1>11. Deserts => Deserts'
  BY <1>3 DEF Deserts
<1> QED
  BY <1>5, <1>10, <1>11

(* webSocketClose and webSocketError *)
LEMMA CloseStep ==
  ASSUME IInv, NEW c \in Conns, NEW final \in BOOLEAN, NEW listed \in BOOLEAN,
         Close(c, final, listed)
  PROVE  IInv'
<1> DEFINE live == IF listed THEN Listed ELSE Listed \ {c}
           w == Woken(live)
           u == w.m.players[c]
           q == Disconnect(w, c, final)
           p == DropAuth(q, c)
           s == EnsureBeat(p, live)
           new == IF LeavesNow(w.m, c, final) THEN {Departure(u, "close", {c})} ELSE {}
<1>1. /\ sock[c] # "none" /\ Becomes(s)
      /\ sock' = [sock EXCEPT ![c] = "none"]
      /\ who' = [who EXCEPT ![c] = IF task[c] = "join" THEN @ ELSE None]
      /\ leaves' = leaves \cup new
      /\ owed' = owed \/ owed' = owed \ {u}
      /\ UNCHANGED <<task, pass, want>>
  BY DEF Close
<1>2. live \in SUBSET Conns /\ (live = {} => \A y \in Conns : y # c => sock[y] = "none")
  BY DEF Listed
<1> HIDE DEF live
<1>3. /\ w \in Pairs /\ Sound(w) /\ w.d = disk
      /\ awake => w = Now
      /\ ~awake => w.m = [Blank EXCEPT !.rec = live # {}]
      /\ ~awake => (w.m.rec <=> live # {})
      /\ w.m.rec => /\ Recoverable(w) /\ LastWritten(w)
                    /\ \A x \in Users : w.m.disc[x] = Null
      /\ pass = NoPass => Covered(w)
      /\ Plain => Untagged(w) /\ (pass = NoPass => Wakes(w))
  BY <1>2, WokenFacts
<1> HIDE DEF w
<1>4. TypeOK /\ Now.m = mem /\ u \in Users \cup {None} /\ w.m.players \in PlayerMaps
  BY <1>3, PairParts, NowFacts DEF IInv, MemType, PlayerMaps
<1>5. /\ q \in Pairs /\ Sound(q) /\ Follows(w, q)
      /\ q.m.players = [w.m.players EXCEPT ![c] = None]
      /\ u = None => q = w
  BY <1>3, DisconnectKeeps
<1>6. new = {} \/ \E x \in Users : new = {Departure(x, "close", {c})}
  BY <1>4 DEF LeavesNow, LastOf
<1>7. RestType' /\ TaskInv' /\ (Deserts => Deserts')
  <2>1. awake' /\ owed' \subseteq Users
    BY <1>1, <1>4 DEF Becomes, TypeOK
  <2> HIDE DEF new, s
  <2> QED
    BY <1>1, <1>6, <2>1, GoneTasks
<1>8. u = None => new = {}
  BY DEF LeavesNow, LastOf
<1> HIDE DEF q, new
<1>9. /\ p \in Pairs /\ Sound(p) /\ Follows(q, p) /\ p.m.disc = q.m.disc
      /\ p.m.players = q.m.players /\ (LastWritten(q) => LastWritten(p))
      /\ Mirrored(p) \/ p.d.blob = q.d.blob
      /\ ~Pending(q.m.auth[c]) => p = q
      /\ p.m.dirty = q.m.dirty
  BY <1>5, DropAuthKeeps
<1> HIDE DEF p
<1>10. /\ s \in Pairs /\ Sound(s) /\ Follows(p, s) /\ s.m.disc = p.m.disc
       /\ s.m.players = p.m.players /\ s.m.dirty = p.m.dirty
       /\ LastWritten(p) => LastWritten(s)
       /\ s.d.blob = p.d.blob
       /\ live = {} /\ p.m.beat = Null => s = p
  BY <1>9, EnsureBeatKeeps
<1> HIDE DEF s, u
<1>11. Follows(w, s)
  BY <1>5, <1>9, <1>10, FollowsOn
<1>12. \A y \in Conns : /\ sock'[y] = IF y = c THEN "none" ELSE sock[y]
                        /\ y # c => who'[y] = who[y]
                        /\ s.m.players[y] = IF y = c THEN None ELSE w.m.players[y]
  BY <1>1, <1>4, <1>5, <1>9, <1>10 DEF TypeOK, PlayerMaps
<1>13. awake' = TRUE /\ mem' = s.m /\ disk' = s.d
  BY <1>1 DEF Becomes
<1>14. CASE w.m.rec
  <2>1. ~awake \/ mem.rec
    BY <1>3, <1>4, <1>14
  <2>2. /\ pass = NoPass /\ leaves = {} /\ \A y \in Conns : task[y] = "idle"
        /\ \A x \in Users : Pending(disk.blob.disc[x]) =>
             \A y \in Conns : sock[y] # "none" => who[y] # x
    BY <2>1, AtRest
  <2>3. u = None /\ ~w.m.dirty /\ \A y \in Conns : w.m.players[y] = None
    BY <1>3, <1>14 DEF Recoverable, NoPlayers, u
  <2>4. q = w /\ new = {}
    BY <1>5, <1>8, <2>3
  <2>5. s.m.rec /\ Untouched(s)
    BY <1>3, <1>9, <1>10, <1>11, <1>12, <1>14, <2>3, <2>4 DEF Follows, Untouched
  <2>6. pass' = NoPass /\ leaves' = {} /\ \A y \in Conns : task'[y] = "idle"
    BY <1>1, <2>2, <2>4
  <2>7. \A x \in Users : Pending(s.d.blob.disc[x]) =>
          \A y \in Conns : sock'[y] # "none" => who'[y] # x
    <3>1. CASE Mirrored(p)
      BY <1>3, <1>9, <1>10, <1>11, <1>14, <2>4, <3>1 DEF Mirrored, Pending
    <3>2. CASE p.d.blob = q.d.blob
      BY <1>3, <1>10, <1>12, <2>2, <2>4, <3>2
    <3> QED
      BY <1>9, <3>1, <3>2
  <2>8. Covered(s) /\ (Plain => Untagged(s) /\ Wakes(s))
    BY <1>3, <1>11, <2>2 DEF Follows, Untagged
  <2>9. /\ HeldInv' /\ mem' \in MemType /\ disk' \in DiskType
        /\ (\A a, b \in mem.last : a = b)'
    BY <1>10, <1>13, <2>5, <2>6, <2>7, <2>8, LandsAny
  <2>10. TypeOK'
    BY <1>7, <1>13, <2>9 DEF TypeOK, RestType
  <2>11. LiveAuthedArePlayers'
    BY <1>13, <2>5 DEF LiveAuthedArePlayers
  <2> QED
    BY <1>7, <2>9, <2>10, <2>11 DEF IInv
<1>15. CASE ~w.m.rec /\ awake
  <2>1. w = Now /\ Apt(w) /\ Manned(w)
    BY <1>1, <1>3, <1>4, <1>15, BusyFacts
  <2>2. Apt(s)
    BY <1>10, <1>11, <2>1, AptFollows
  <2>3. LiveAuthedArePlayers'
    BY <1>1, <1>12, <1>13, <2>1 DEF LiveAuthedArePlayers, Manned
  <2> QED
    BY <1>1, <1>7, <2>2, <2>3, AptStep
<1>16. CASE ~w.m.rec /\ ~awake
  <2>1. live = {} /\ w.m = [Blank EXCEPT !.rec = FALSE]
    BY <1>3, <1>16
  <2>2. /\ w.m = Blank /\ \A y \in Conns : w.m.players[y] = None /\ ~Pending(w.m.auth[y])
        /\ w.m.beat = Null
    <3>1. FALSE \in BOOLEAN
      OBVIOUS
    <3> QED
      BY <2>1, <3>1, BlankFacts DEF Blank
  <2>3. s = w /\ new = {}
    BY <1>5, <1>8, <1>9, <1>10, <2>1, <2>2 DEF u
  <2>4. pass = NoPass /\ leaves = {} /\ \A y \in Conns : task[y] = "idle"
    BY <1>16, AtRest
  <2>5. Deserts'
    BY <1>2, <1>12, <2>1 DEF Deserts
  <2>6. Detached'
    BY <1>1, <1>13, <2>2, <2>3, <2>4, <2>5 DEF Detached
  <2>7. /\ HeldInv' /\ mem' \in MemType /\ disk' \in DiskType
        /\ (\A a, b \in mem.last : a = b)'
    BY <1>1, <1>3, <1>10, <1>13, <1>16, <2>3, <2>4, <2>5, <2>6, LandsAny
  <2>8. TypeOK'
    BY <1>7, <1>13, <2>7 DEF TypeOK, RestType
  <2>9. LiveAuthedArePlayers'
    BY <2>5 DEF LiveAuthedArePlayers, Deserts
  <2> QED
    BY <1>7, <2>7, <2>8, <2>9 DEF IInv
<1> QED
  BY <1>14, <1>15, <1>16

(* An upgrade: a heartbeat, and an auth deadline for the new socket        *)
LEMMA AuthStarts ==
  ASSUME NEW r \in Pairs, Sound(r), NEW c \in Conns
  PROVE  LET s == SyncArm([r EXCEPT !.m.auth[c] = AuthTimeout])
         IN /\ s \in Pairs /\ Settled(s)
            /\ s.m.players = r.m.players /\ s.m.rec = r.m.rec /\ s.m.disc = r.m.disc
            /\ s.m.tagged = r.m.tagged /\ s.d.tagged = r.d.tagged
            /\ s.m.dirty = r.m.dirty /\ (LastWritten(r) => LastWritten(s))
<1> DEFINE m == [r.m EXCEPT !.auth = [r.m.auth EXCEPT ![c] = AuthTimeout]]
           q == [m |-> m, d |-> r.d]
           s == SyncArm([r EXCEPT !.m.auth[c] = AuthTimeout])
<1>1. r.m \in MemType /\ r.d \in DiskType
  BY PairParts
<1>2. s = SyncArm(q)
  <2>1. [r EXCEPT !.m.auth[c] = AuthTimeout] = q
    BY PairEdit
  <2> HIDE DEF q
  <2> QED
    BY <2>1
<1>3. /\ m \in MemType /\ m.last = r.m.last /\ m.dirty = r.m.dirty /\ m.save = r.m.save
      /\ m.disc = r.m.disc /\ m.players = r.m.players /\ m.rec = r.m.rec
      /\ m.tagged = r.m.tagged
  BY <1>1, FullFits DEF MemType
<1>4. q \in Pairs /\ q.m = m /\ q.d = r.d
  BY <1>1, <1>3 DEF Pairs
<1> HIDE DEF m, q, s
<1>5. LastStored(q) /\ DirtyHasSave(q) /\ GraceAlone(q) /\ (LastWritten(r) => LastWritten(q))
  BY <1>3, <1>4 DEF Sound, LastStored, DirtyHasSave, GraceAlone, LastWritten
<1>6. /\ s \in Pairs /\ Sound(s) /\ Covered(s) /\ Mirrored(s) /\ Backed(s) /\ Wakes(s)
      /\ s.d.tagged = q.d.tagged /\ s.m.players = q.m.players /\ s.m.rec = q.m.rec
      /\ s.m.tagged = q.m.tagged /\ s.m.disc = q.m.disc
      /\ LastWritten(q) => LastWritten(s)
      /\ s.m = [q.m EXCEPT !.last = {BlobOf(q.m)}]
  BY <1>2, <1>4, <1>5, SyncArmAfter
<1>7. s.m.dirty = r.m.dirty
  BY <1>3, <1>4, <1>6 DEF MemType
<1> QED
  BY <1>3, <1>4, <1>5, <1>6, <1>7 DEF s, Settled

(* A WebSocket upgrade keeps the invariant: the instance that is woken is not *)
(* recovered here, and its blob waits for the recovery.                       *)
LEMMA UpgradeStep ==
  ASSUME IInv, NEW c \in Conns, Upgrade(c)
  PROVE  IInv'
<1> DEFINE w == Woken(Listed)
           r == EnsureBeat(w, Listed \cup {c})
           s == SyncArm([r EXCEPT !.m.auth[c] = AuthTimeout])
<1>1. /\ sock[c] = "none" /\ task[c] = "idle" /\ (\A l \in leaves : c \notin l.conns)
      /\ Becomes(s) /\ sock' = [sock EXCEPT ![c] = "open"]
      /\ UNCHANGED <<who, task, leaves, pass, owed, want>>
  BY DEF Upgrade, Fresh
<1>2. /\ w \in Pairs /\ Sound(w) /\ w.d = disk
      /\ awake => w = Now
      /\ ~awake => (w.m.rec <=> Listed # {})
      /\ w.m.rec => /\ Recoverable(w) /\ LastWritten(w)
                    /\ \A x \in Users : w.m.disc[x] = Null
      /\ Plain => Untagged(w)
  <2>1. Listed \in SUBSET Conns
    BY DEF Listed
  <2> QED
    BY <2>1, WokenFacts
<1> HIDE DEF w
<1>3. /\ r \in Pairs /\ Sound(r) /\ Follows(w, r) /\ r.m.disc = w.m.disc
      /\ r.m.players = w.m.players /\ r.m.dirty = w.m.dirty
      /\ LastWritten(w) => LastWritten(r)
  BY <1>2, EnsureBeatKeeps
<1> HIDE DEF r
<1>4. /\ s \in Pairs /\ Settled(s)
      /\ s.m.players = r.m.players /\ s.m.rec = r.m.rec /\ s.m.disc = r.m.disc
      /\ s.m.tagged = r.m.tagged /\ s.d.tagged = r.d.tagged
      /\ s.m.dirty = r.m.dirty /\ (LastWritten(r) => LastWritten(s))
  BY <1>3, AuthStarts
<1> HIDE DEF s
<1>5. TypeOK /\ TaskInv /\ LiveAuthedArePlayers /\ Now.m = mem
  BY NowFacts DEF IInv
<1>6. who[c] = None
  BY <1>1, <1>5 DEF TaskInv
<1>7. \A y \in Conns : sock'[y] = IF y = c THEN "open" ELSE sock[y]
  BY <1>1, <1>5 DEF TypeOK
<1>8. s.m.rec = w.m.rec /\ s.m.players = w.m.players
  BY <1>3, <1>4 DEF Follows
<1>9. s.m.rec => /\ pass = NoPass /\ leaves = {} /\ \A y \in Conns : task[y] = "idle"
                 /\ Untouched(s)
  <2>1. SUFFICES ASSUME w.m.rec
                 PROVE  /\ pass = NoPass /\ leaves = {} /\ \A y \in Conns : task[y] = "idle"
                        /\ Untouched(s)
    BY <1>8
  <2>2. ~awake \/ mem.rec
    BY <1>2, <1>5, <2>1
  <2>3. Untouched(s)
    BY <1>2, <1>3, <1>4, <2>1 DEF Untouched, Recoverable, NoPlayers
  <2> QED
    BY <2>2, <2>3, AtRest
<1>10. awake' /\ mem' = s.m /\ disk' = s.d
  BY <1>1 DEF Becomes
<1>11. Sound(s) /\ Covered(s) /\ Mirrored(s) /\ Backed(s) /\ Wakes(s)
  BY <1>4 DEF Settled
<1>12. Plain => Untagged(s)
  BY <1>2, <1>3, <1>4 DEF Follows, Untagged
<1>13. ~awake' \/ s.m.rec =>
         \A u \in Users : Pending(s.d.blob.disc[u]) =>
           \A y \in Conns : sock'[y] # "none" => who'[y] # u
  BY <1>2, <1>3, <1>4, <1>8, <1>10, <1>11 DEF Mirrored, Pending
<1>14. /\ HeldInv' /\ mem' \in MemType /\ disk' \in DiskType
       /\ (\A a, b \in mem.last : a = b)'
  BY <1>1, <1>4, <1>9, <1>10, <1>11, <1>12, <1>13, LandsAny
<1>15. TypeOK'
  BY <1>1, <1>5, <1>10, <1>14 DEF TypeOK
<1>16. TaskInv'
  <2>1. \A l \in leaves : l.conns \subseteq Conns
    BY <1>5 DEF TypeOK
  <2>2. \A l \in leaves : l.why = "close" => \A y \in l.conns : sock'[y] = "none"
    BY <1>1, <1>5, <1>7, <2>1 DEF TaskInv
  <2>3. \A y \in Conns : sock'[y] = "none" => sock[y] = "none"
    BY <1>7
  <2> QED
    BY <1>1, <1>5, <1>10, <2>2, <2>3 DEF TaskInv
<1>17. LiveAuthedArePlayers'
  <2>1. SUFFICES ASSUME ~s.m.rec, NEW y \in Conns, sock'[y] = "open", who[y] # None,
                        \A l \in leaves : y \notin l.conns
                 PROVE  s.m.players[y] = who[y]
    BY <1>1, <1>10 DEF LiveAuthedArePlayers
  <2>2. y # c /\ sock[y] = "open"
    BY <1>6, <1>7, <2>1
  <2>3. awake
    BY <1>2, <1>8, <2>1, <2>2 DEF Listed
  <2> QED
    BY <1>2, <1>5, <1>8, <2>1, <2>2, <2>3 DEF LiveAuthedArePlayers
<1> QED
  BY <1>14, <1>15, <1>16, <1>17 DEF IInv

(* A request that recovers nothing *)
LEMMA PeekStep ==
  ASSUME IInv, Peek
  PROVE  IInv'
<1> DEFINE w == Woken(Listed)
           load == "metadata" \in Uses /\ ~w.m.tagged
           tag == IF load THEN w.d.tagged ELSE w.m.tagged
           m == [w.m EXCEPT !.tagged = tag]
           s == [m |-> m, d |-> w.d]
<1>1. /\ Becomes([w EXCEPT !.m.tagged = IF load THEN w.d.tagged ELSE @])
      /\ UNCHANGED <<sock, who, task, leaves, pass, owed, want>>
  BY DEF Peek
<1>2. /\ w \in Pairs /\ Sound(w) /\ w.d = disk
      /\ awake => w = Now
      /\ ~awake => w.m = [Blank EXCEPT !.rec = Listed # {}]
      /\ ~awake => (w.m.rec <=> Listed # {})
      /\ w.m.rec => /\ Recoverable(w) /\ LastWritten(w)
                    /\ \A x \in Users : w.m.disc[x] = Null
      /\ pass = NoPass => Covered(w)
      /\ Plain => Untagged(w) /\ (pass = NoPass => Wakes(w))
  <2>1. Listed \in SUBSET Conns
    BY DEF Listed
  <2> QED
    BY <2>1, WokenFacts
<1> HIDE DEF w
<1>3. w.m \in MemType /\ w.d \in DiskType /\ w = [m |-> w.m, d |-> w.d]
  BY <1>2, PairParts
<1>4. tag \in BOOLEAN
  BY <1>3 DEF MemType, DiskType
<1>5. Becomes(s)
  <2>1. [w EXCEPT !.m.tagged = IF load THEN w.d.tagged ELSE @] = s
    BY <1>2, PairEdit
  <2> HIDE DEF s
  <2> QED
    BY <1>1, <2>1
<1>6. Plain => tag = w.m.tagged
  BY DEF Plain
<1> HIDE DEF tag
<1>7. /\ m \in MemType /\ m.players = w.m.players /\ m.auth = w.m.auth
      /\ m.disc = w.m.disc /\ m.timers = w.m.timers /\ m.save = w.m.save
      /\ m.cleanup = w.m.cleanup /\ m.ttl = w.m.ttl /\ m.beat = w.m.beat
      /\ m.last = w.m.last
  BY <1>3, <1>4 DEF MemType
<1>8. m.dirty = w.m.dirty /\ m.rec = w.m.rec
  BY <1>3, <1>4 DEF MemType
<1>9. tag = w.m.tagged => m = w.m
  BY <1>3 DEF MemType
<1>10. s \in Pairs /\ s.m = m /\ s.d = w.d /\ (Plain => s = w)
  BY <1>3, <1>6, <1>7, <1>9 DEF Pairs
<1> HIDE DEF m, s
<1>11. Alike(w, s) /\ Deadlines(s.m) = Deadlines(w.m)
  BY <1>7, <1>8, <1>10 DEF Alike, Deadlines
<1>12. Sound(s) /\ (Mirrored(w) => Mirrored(s)) /\ (LastWritten(w) => LastWritten(s))
  BY <1>2, <1>11, AlikeKeeps
<1>13. pass = NoPass => Covered(s)
  BY <1>2, <1>10, <1>11, FewerCovered
<1>14. awake' /\ mem' = s.m /\ disk' = s.d
  BY <1>5 DEF Becomes
<1>15. /\ TypeOK /\ TaskInv /\ LiveAuthedArePlayers /\ MirrorInv /\ (Plain => WakeInv)
       /\ Now.m = mem
  BY NowFacts DEF IInv, HeldInv
<1>16. ~awake /\ ~s.m.rec => Deserts /\ w.m = Blank
  <2>1. SUFFICES ASSUME ~awake, ~s.m.rec
                 PROVE  Deserts /\ w.m = Blank
    OBVIOUS
  <2>2. Listed = {} /\ w.m = [Blank EXCEPT !.rec = FALSE]
    BY <1>2, <1>8, <1>10, <2>1
  <2>3. FALSE \in BOOLEAN
    OBVIOUS
  <2> QED
    BY <2>2, <2>3, BlankFacts DEF Listed, Deserts
<1>17. s.m.rec => /\ pass = NoPass /\ leaves = {} /\ \A y \in Conns : task[y] = "idle"
                  /\ Untouched(s)
                  /\ \A u \in Users : Pending(s.d.blob.disc[u]) =>
                       \A y \in Conns : sock[y] # "none" => who[y] # u
  <2>1. SUFFICES ASSUME w.m.rec
                 PROVE  /\ pass = NoPass /\ leaves = {} /\ \A y \in Conns : task[y] = "idle"
                        /\ Untouched(s)
                        /\ \A u \in Users : Pending(s.d.blob.disc[u]) =>
                             \A y \in Conns : sock[y] # "none" => who[y] # u
    BY <1>8, <1>10
  <2>2. ~awake \/ mem.rec
    BY <1>2, <1>15, <2>1
  <2>3. Untouched(s)
    BY <1>2, <1>7, <1>8, <1>10, <1>12, <2>1 DEF Untouched, Recoverable, NoPlayers
  <2> QED
    BY <1>2, <1>10, <2>2, <2>3, AtRest
<1>18. ~s.m.rec /\ Early' => Deserts' \/ Mirrored(s)
  <2>1. Deserts => Deserts'
    BY <1>1 DEF Deserts
  <2>2. Early' => Early
    BY <1>1 DEF Early
  <2> QED
    BY <1>2, <1>8, <1>10, <1>12, <1>15, <1>16, <2>1, <2>2 DEF MirrorInv
<1>19. Plain => /\ Untagged(s)
                /\ ~s.m.rec /\ Early' => Backed(s) \/ Detached'
                /\ pass' = NoPass => Wakes(s)
  <2>1. SUFFICES ASSUME Plain
                 PROVE  /\ Untagged(s)
                        /\ ~s.m.rec /\ Early' => Backed(s) \/ Detached'
                        /\ pass' = NoPass => Wakes(s)
    OBVIOUS
  <2>2. s = w /\ Untagged(s) /\ (pass' = NoPass => Wakes(s))
    BY <1>1, <1>2, <1>10, <2>1
  <2>3. CASE awake
    <3>1. mem' = mem /\ (Early' => Early)
      BY <1>1, <1>2, <1>14, <1>15, <2>2, <2>3 DEF Early
    <3>2. Detached => Detached'
      BY <1>1, <3>1 DEF Detached, Deserts
    <3> QED
      BY <1>2, <1>15, <2>1, <2>2, <2>3, <3>1, <3>2 DEF WakeInv
  <2>4. CASE ~awake
    <3>1. pass = NoPass /\ leaves = {} /\ \A y \in Conns : task[y] = "idle"
      BY <2>4, AtRest
    <3>2. ~s.m.rec => Detached'
      BY <1>1, <1>14, <1>16, <2>2, <2>4, <3>1 DEF Detached, Deserts
    <3> QED
      BY <2>2, <3>2
  <2> QED
    BY <2>3, <2>4
<1>20. /\ HeldInv' /\ mem' \in MemType /\ disk' \in DiskType
       /\ (\A a, b \in mem.last : a = b)'
  BY <1>1, <1>10, <1>12, <1>13, <1>14, <1>17, <1>18, <1>19, LandsAny
<1>21. TypeOK'
  BY <1>1, <1>14, <1>15, <1>20 DEF TypeOK
<1>22. TaskInv'
  BY <1>1, <1>14, <1>15 DEF TaskInv
<1>23. LiveAuthedArePlayers'
  <2>1. SUFFICES ASSUME ~s.m.rec, NEW y \in Conns, sock[y] = "open", who[y] # None,
                        \A l \in leaves : y \notin l.conns
                 PROVE  s.m.players[y] = who[y]
    BY <1>1, <1>14 DEF LiveAuthedArePlayers
  <2>2. awake
    BY <1>16, <2>1 DEF Deserts
  <2> QED
    BY <1>2, <1>7, <1>8, <1>10, <1>15, <2>1, <2>2 DEF LiveAuthedArePlayers
<1> QED
  BY <1>20, <1>21, <1>22, <1>23 DEF IInv

-----------------------------------------------------------------------------
(* Hibernation                                                             *)

(* An eviction keeps the invariant: it happens with no handler under way, and *)
(* the blob is all that is left of the deadlines.                             *)
LEMMA HibernateStep ==
  ASSUME IInv, Hibernate
  PROVE  IInv'
<1> DEFINE s == [m |-> Blank, d |-> disk]
<1>1. /\ awake /\ pass = NoPass /\ leaves = {}
      /\ \A c \in Conns : task[c] = "idle" /\ sock[c] # "closing"
      /\ awake' = FALSE /\ mem' = Blank
      /\ UNCHANGED <<disk, sock, who, task, leaves, pass, owed, want>>
  BY DEF Hibernate
<1>2. /\ TypeOK /\ SoundInv /\ AbsentInv /\ MirrorInv /\ (Plain => WakeInv) /\ TaskInv
      /\ LiveAuthedArePlayers /\ Now.m = mem /\ Now.d = disk
  BY NowFacts DEF IInv, HeldInv
<1>3. /\ Blank \in MemType /\ ~Blank.rec /\ Blank.last = {} /\ ~Blank.dirty
      /\ ~Blank.tagged /\ Blank.save = Null /\ Deadlines(Blank) = {}
      /\ \A c \in Conns : Blank.players[c] = None /\ ~Pending(Blank.auth[c])
      /\ \A u \in Users : Blank.disc[u] = Null
  <2>1. FALSE \in BOOLEAN
    OBVIOUS
  <2>2. [Blank EXCEPT !.rec = FALSE] = Blank
    BY <2>1, BlankFacts
  <2> QED
    BY <2>1, <2>2, BlankFacts
<1>4. s \in Pairs /\ s.m = Blank /\ s.d = disk
  BY <1>2, <1>3 DEF Pairs, TypeOK
<1> HIDE DEF s
<1>5. Sound(s) /\ Covered(s)
  BY <1>3, <1>4 DEF Sound, LastStored, LastAgrees, Stored, DirtyHasSave, GraceAlone,
                    Pending, Covered
<1>6. Plain => Untagged(s) /\ Wakes(s)
  BY <1>1, <1>2, <1>3, <1>4 DEF WakeInv, Untagged, Wakes
<1>7. ASSUME NEW u \in Users, Pending(disk.blob.disc[u]), NEW c \in Conns,
             sock[c] # "none"
      PROVE  who[c] # u
  <2>1. CASE mem.rec
    BY <1>2, <1>7, <2>1 DEF AbsentInv
  <2>2. CASE ~mem.rec
    <3>1. Early
      BY <1>1 DEF Early, NoPass
    <3>2. ~Deserts
      BY <1>7 DEF Deserts
    <3>3. Pending(mem.disc[u])
      BY <1>1, <1>2, <1>7, <2>2, <3>1, <3>2 DEF MirrorInv, Mirrored
    <3>4. mem.players[c] # u
      BY <1>2, <3>3 DEF SoundInv, Sound, GraceAlone
    <3>5. sock[c] = "open" /\ u # None
      BY <1>1, <1>2, <1>7, Constants DEF TypeOK
    <3> QED
      BY <1>1, <1>2, <2>2, <3>4, <3>5 DEF LiveAuthedArePlayers
  <2> QED
    BY <2>1, <2>2
<1>8. /\ HeldInv' /\ mem' \in MemType /\ disk' \in DiskType
      /\ (\A a, b \in mem.last : a = b)'
  BY <1>1, <1>3, <1>4, <1>5, <1>6, <1>7, LandsAny
<1>9. TypeOK'
  <2>1. RestType'
    BY <1>1, <1>2 DEF TypeOK, RestType
  <2> QED
    BY <1>1, <1>8, <2>1 DEF TypeOK, RestType
<1>10. TaskInv'
  BY <1>1, <1>2 DEF TaskInv
<1>11. LiveAuthedArePlayers'
  BY <1>1 DEF LiveAuthedArePlayers
<1> QED
  BY <1>8, <1>9, <1>10, <1>11 DEF IInv

-----------------------------------------------------------------------------
(* Time                                                                    *)

(* A deadline runs down to 0 and stays pending. *)
LEMMA ElapseFacts ==
  ASSUME NEW x \in Int, x >= Null
  PROVE  /\ Elapse(x) \in Int /\ Elapse(x) >= Null /\ Elapse(x) <= x
         /\ Pending(Elapse(x)) <=> Pending(x)
         /\ x > 0 => Elapse(x) = x - 1
         /\ x <= 0 => Elapse(x) = x
  BY DEF Elapse, Null, Pending

(* ... and so do those of a function, *)
LEMMA ElapseAllFacts ==
  ASSUME NEW S, NEW max \in Nat, NEW f \in [S -> Delays(max)]
  PROVE  /\ ElapseAll(f) \in [S -> Delays(max)]
         /\ \A x \in S : /\ ElapseAll(f)[x] = Elapse(f[x])
                         /\ Pending(ElapseAll(f)[x]) <=> Pending(f[x])
         /\ PendingIn(ElapseAll(f)) = PendingIn(f)
         /\ f = Idle(S) <=> ElapseAll(f) = Idle(S)
<1>1. \A x \in S : /\ f[x] \in Int /\ f[x] >= Null /\ Elapse(f[x]) \in Delays(max)
                   /\ Pending(Elapse(f[x])) <=> Pending(f[x])
  <2>1. SUFFICES ASSUME NEW x \in S
                 PROVE  /\ f[x] \in Int /\ f[x] >= Null /\ Elapse(f[x]) \in Delays(max)
                        /\ Pending(Elapse(f[x])) <=> Pending(f[x])
    OBVIOUS
  <2>2. f[x] \in Delays(max) /\ max \in Int
    OBVIOUS
  <2>3. f[x] \in Int /\ f[x] >= Null /\ Elapse(f[x]) \in Delays(max)
    BY <2>2, DelayFacts
  <2> QED
    BY <2>3, ElapseFacts
<1>2. ElapseAll(f) = [x \in S |-> Elapse(f[x])]
  BY DEF ElapseAll
<1>3. ElapseAll(f) \in [S -> Delays(max)]
  BY <1>1, <1>2
<1>4. \A x \in S : /\ ElapseAll(f)[x] = Elapse(f[x])
                   /\ Pending(ElapseAll(f)[x]) <=> Pending(f[x])
  BY <1>1, <1>2
<1>5. PendingIn(ElapseAll(f)) = PendingIn(f)
  <2>1. DOMAIN ElapseAll(f) = S /\ DOMAIN f = S
    BY <1>2
  <2> QED
    BY <1>4, <2>1 DEF PendingIn
<1>6. \A g \in [S -> Delays(max)] : g = Idle(S) <=> \A x \in S : ~Pending(g[x])
  BY DEF Idle, Pending
<1>7. f = Idle(S) <=> ElapseAll(f) = Idle(S)
  BY <1>3, <1>4, <1>6
<1> QED
  BY <1>3, <1>4, <1>5, <1>7

(* ... of the timers *)
LEMMA ElapseTimers ==
  ASSUME NEW f \in TimersType
  PROVE  /\ ElapseAll(f) \in TimersType
         /\ \A t \in Timers : ElapseAll(f)[t] = Elapse(f[t])
         /\ PendingIn(ElapseAll(f)) = PendingIn(f)
         /\ f = Idle(Timers) => ElapseAll(f) = Idle(Timers)
<1>1. ElapseAll(f) = [t \in Timers |-> Elapse(f[t])]
  BY DEF ElapseAll, TimersType
<1>2. ASSUME NEW t \in Timers
      PROVE  /\ Elapse(f[t]) \in {Null} \cup UNION {Delays(ms) : ms \in TimerDelays}
             /\ Pending(Elapse(f[t])) <=> Pending(f[t])
  <2>1. f[t] = Null \/ \E ms \in TimerDelays : f[t] \in Delays(ms)
    BY DEF TimersType
  <2>2. CASE f[t] = Null
    BY <2>2 DEF Elapse, Null, Pending
  <2>3. ASSUME NEW ms \in TimerDelays, f[t] \in Delays(ms)
        PROVE  /\ Elapse(f[t]) \in {Null} \cup UNION {Delays(x) : x \in TimerDelays}
               /\ Pending(Elapse(f[t])) <=> Pending(f[t])
    <3>1. ms \in Int
      BY Constants
    <3>2. f[t] \in Int /\ f[t] >= Null /\ Elapse(f[t]) \in Delays(ms)
      BY <2>3, <3>1, DelayFacts
    <3>3. Pending(Elapse(f[t])) <=> Pending(f[t])
      BY <3>2, ElapseFacts
    <3> QED
      BY <3>2, <3>3
  <2> QED
    BY <2>1, <2>2, <2>3
<1>3. ElapseAll(f) \in TimersType
  BY <1>1, <1>2 DEF TimersType
<1>4. PendingIn(ElapseAll(f)) = PendingIn(f)
  <2>1. DOMAIN ElapseAll(f) = Timers /\ DOMAIN f = Timers
    BY <1>1 DEF TimersType
  <2> QED
    BY <1>1, <1>2, <2>1 DEF PendingIn
<1>5. f = Idle(Timers) => ElapseAll(f) = Idle(Timers)
  BY <1>1 DEF Idle, Elapse, Null
<1> QED
  BY <1>1, <1>3, <1>4, <1>5

(* ... and of a blob.  An empty blob stays so, and no other gets empty. *)
LEMMA ElapseBlobFacts ==
  ASSUME NEW b \in BlobType
  PROVE  /\ ElapseBlob(b) \in BlobType
         /\ Bare(b) => Bare(ElapseBlob(b))
         /\ b = NoBlob <=> ElapseBlob(b) = NoBlob
<1> DEFINE max == Max({StateTTL, IdleTimeout})
           e == ElapseBlob(b)
<1>1. /\ b.auth \in [Conns -> Delays(AuthTimeout)]
      /\ b.disc \in [Users -> Delays(ReconnectTimeout)]
      /\ b.save \in Delays(SaveInterval) /\ b.cleanup \in Delays(CleanupDelay)
      /\ b.ttl \in Delays(max)
      /\ b = [auth |-> b.auth, disc |-> b.disc, save |-> b.save,
              cleanup |-> b.cleanup, ttl |-> b.ttl]
  BY DEF BlobType
<1>2. /\ AuthTimeout \in Nat /\ ReconnectTimeout \in Nat /\ SaveInterval \in Int
      /\ CleanupDelay \in Int /\ max \in Int
  BY Constants
<1> HIDE DEF max
<1>3. /\ ElapseAll(b.auth) \in [Conns -> Delays(AuthTimeout)]
      /\ PendingIn(ElapseAll(b.auth)) = PendingIn(b.auth)
      /\ b.auth = Idle(Conns) <=> ElapseAll(b.auth) = Idle(Conns)
  BY <1>1, <1>2, ElapseAllFacts
<1>4. /\ ElapseAll(b.disc) \in [Users -> Delays(ReconnectTimeout)]
      /\ PendingIn(ElapseAll(b.disc)) = PendingIn(b.disc)
      /\ b.disc = Idle(Users) <=> ElapseAll(b.disc) = Idle(Users)
  BY <1>1, <1>2, ElapseAllFacts
<1>5. /\ Elapse(b.save) \in Delays(SaveInterval)
      /\ Pending(Elapse(b.save)) <=> Pending(b.save)
  BY <1>1, <1>2, DelayFacts, ElapseFacts
<1>6. /\ Elapse(b.cleanup) \in Delays(CleanupDelay)
      /\ Pending(Elapse(b.cleanup)) <=> Pending(b.cleanup)
  BY <1>1, <1>2, DelayFacts, ElapseFacts
<1>7. /\ Elapse(b.ttl) \in Delays(max)
      /\ Pending(Elapse(b.ttl)) <=> Pending(b.ttl)
  BY <1>1, <1>2, DelayFacts, ElapseFacts
<1>8. e = [auth |-> ElapseAll(b.auth), disc |-> ElapseAll(b.disc),
           save |-> Elapse(b.save), cleanup |-> Elapse(b.cleanup), ttl |-> Elapse(b.ttl)]
  BY DEF ElapseBlob
<1>9. e \in BlobType
  BY <1>3, <1>4, <1>5, <1>6, <1>7, <1>8 DEF BlobType, max
<1>10. Bare(b) => Bare(e)
  BY <1>3, <1>4, <1>5, <1>8 DEF Bare
<1> HIDE DEF e
<1>11. b = NoBlob <=> /\ b.auth = Idle(Conns) /\ b.disc = Idle(Users)
                      /\ b.save = Null /\ b.cleanup = Null /\ b.ttl = Null
  BY <1>1 DEF NoBlob
<1>12. e = NoBlob <=> /\ e.auth = Idle(Conns) /\ e.disc = Idle(Users)
                      /\ e.save = Null /\ e.cleanup = Null /\ e.ttl = Null
  BY <1>8 DEF NoBlob
<1>13. b = NoBlob <=> e = NoBlob
  BY <1>3, <1>4, <1>5, <1>6, <1>7, <1>8, <1>11, <1>12 DEF Pending
<1> QED
  BY <1>9, <1>10, <1>13 DEF e

(* The pair after a time unit *)
Later == [m |-> ElapsedMem, d |-> ElapsedDisk]

(* The fields of that pair *)
LEMMA LaterFields ==
  ASSUME TypeOK
  PROVE  /\ Later \in Pairs /\ Later.m = ElapsedMem /\ Later.d = ElapsedDisk
         /\ Later.m.auth = ElapseAll(mem.auth) /\ Later.m.disc = ElapseAll(mem.disc)
         /\ Later.m.timers = ElapseAll(mem.timers)
         /\ Later.m.save = Elapse(mem.save) /\ Later.m.cleanup = Elapse(mem.cleanup)
         /\ Later.m.ttl = Elapse(mem.ttl) /\ Later.m.beat = Elapse(mem.beat)
         /\ Later.m.last = {ElapseBlob(b) : b \in mem.last}
         /\ Later.m.players = mem.players /\ Later.m.rec = mem.rec
         /\ Later.m.dirty = mem.dirty /\ Later.m.tagged = mem.tagged
         /\ Later.d.blob = ElapseBlob(disk.blob) /\ Later.d.tagged = disk.tagged
         /\ Later.d.alarm = Elapse(disk.alarm)
<1> DEFINE m == ElapsedMem
           d == ElapsedDisk
           max == Max({StateTTL, IdleTimeout})
           ttls == Delays(max)
<1>1. /\ mem \in MemType /\ disk \in DiskType
      /\ AuthTimeout \in Nat /\ ReconnectTimeout \in Nat
      /\ SaveInterval \in Int /\ CleanupDelay \in Int /\ Heartbeat \in Int
      /\ StateTTL \in Int /\ max \in Int
  BY Constants DEF TypeOK
<1>2. /\ mem.auth \in [Conns -> Delays(AuthTimeout)]
      /\ mem.disc \in [Users -> Delays(ReconnectTimeout)] /\ mem.timers \in TimersType
      /\ mem.save \in Delays(SaveInterval) /\ mem.cleanup \in Delays(CleanupDelay)
      /\ mem.ttl \in ttls /\ mem.beat \in Delays(Heartbeat)
      /\ \A b \in mem.last : b \in BlobType
  BY <1>1 DEF MemType
<1>3. /\ disk.blob \in BlobType /\ disk.timers \in TimersType
      /\ disk.alarm \in Nat \cup {Null}
      /\ disk.state \in [ver : 0..MaxVer, ps : SUBSET Users, left : Delays(StateTTL)]
  BY <1>1 DEF DiskType
<1> HIDE DEF max
<1>4. /\ ElapseAll(mem.auth) \in [Conns -> Delays(AuthTimeout)]
      /\ ElapseAll(mem.disc) \in [Users -> Delays(ReconnectTimeout)]
  BY <1>1, <1>2, ElapseAllFacts
<1>5. ElapseAll(mem.timers) \in TimersType /\ ElapseAll(disk.timers) \in TimersType
  BY <1>2, <1>3, ElapseTimers
<1>6. /\ Elapse(mem.save) \in Delays(SaveInterval)
      /\ Elapse(mem.cleanup) \in Delays(CleanupDelay)
      /\ Elapse(mem.ttl) \in ttls /\ Elapse(mem.beat) \in Delays(Heartbeat)
  BY <1>1, <1>2, DelayFacts
<1>7. /\ ElapseBlob(disk.blob) \in BlobType
      /\ {ElapseBlob(b) : b \in mem.last} \in SUBSET BlobType
  BY <1>2, <1>3, ElapseBlobFacts
<1>8. Elapse(disk.alarm) \in Nat \cup {Null}
  BY <1>3 DEF Elapse, Null
<1>9. [disk.state EXCEPT !.left = Elapse(@)]
        \in [ver : 0..MaxVer, ps : SUBSET Users, left : Delays(StateTTL)]
  <2>1. disk.state.left \in Delays(StateTTL)
    BY <1>3
  <2>2. Elapse(disk.state.left) \in Delays(StateTTL)
    BY <1>1, <2>1, DelayFacts
  <2> QED
    BY <1>3, <2>2
<1>10. /\ m.auth = ElapseAll(mem.auth) /\ m.disc = ElapseAll(mem.disc)
       /\ m.timers = ElapseAll(mem.timers)
       /\ m.save = Elapse(mem.save) /\ m.cleanup = Elapse(mem.cleanup)
       /\ m.ttl = Elapse(mem.ttl) /\ m.beat = Elapse(mem.beat)
       /\ m.last = {ElapseBlob(b) : b \in mem.last}
       /\ m.players = mem.players /\ m.rec = mem.rec
       /\ m.dirty = mem.dirty /\ m.tagged = mem.tagged
  BY <1>1 DEF ElapsedMem, MemType
<1>11. d.blob = ElapseBlob(disk.blob) /\ d.tagged = disk.tagged /\ d.alarm = Elapse(disk.alarm)
  BY <1>1 DEF ElapsedDisk, DiskType
<1>12. m \in MemType
  <2> DEFINE last == {ElapseBlob(b) : b \in mem.last}
  <2>1. m = [mem EXCEPT
               !.auth = ElapseAll(mem.auth), !.disc = ElapseAll(mem.disc),
               !.timers = ElapseAll(mem.timers),
               !.save = Elapse(mem.save), !.cleanup = Elapse(mem.cleanup),
               !.ttl = Elapse(mem.ttl), !.beat = Elapse(mem.beat), !.last = last]
    BY <1>1 DEF ElapsedMem, MemType
  <2>2. last \in SUBSET BlobType
    BY <1>7
  <2> HIDE DEF m, last
  <2> QED
    BY <1>1, <1>4, <1>5, <1>6, <2>1, <2>2 DEF MemType, max
<1>13. d \in DiskType
  <2>1. d = [disk EXCEPT !.blob = ElapseBlob(disk.blob), !.timers = ElapseAll(disk.timers),
               !.state = [disk.state EXCEPT !.left = Elapse(@)],
               !.alarm = Elapse(disk.alarm)]
    BY <1>1 DEF ElapsedDisk, DiskType
  <2> HIDE DEF d
  <2> QED
    BY <1>1, <1>5, <1>7, <1>8, <1>9, <2>1 DEF DiskType
<1> HIDE DEF m, d
<1>14. Later = [m |-> m, d |-> d]
  BY DEF Later, m, d
<1>15. Later \in Pairs /\ Later.m = m /\ Later.d = d
  BY <1>12, <1>13, <1>14 DEF Pairs
<1> QED
  BY <1>10, <1>11, <1>15 DEF m, d

(* A deadline of the instance after a time unit is one from before, less   *)
(* that unit.                                                              *)
LEMMA LaterDeadlines ==
  ASSUME TypeOK, NEW x \in Deadlines(Later.m)
  PROVE  \E y \in Deadlines(mem) : x = Elapse(y)
<1>1. /\ Later.m.auth = ElapseAll(mem.auth) /\ Later.m.disc = ElapseAll(mem.disc)
      /\ Later.m.timers = ElapseAll(mem.timers)
      /\ Later.m.save = Elapse(mem.save) /\ Later.m.cleanup = Elapse(mem.cleanup)
      /\ Later.m.ttl = Elapse(mem.ttl) /\ Later.m.beat = Elapse(mem.beat)
  BY LaterFields
<1>2. /\ mem \in MemType /\ AuthTimeout \in Nat /\ ReconnectTimeout \in Nat
      /\ mem.auth \in [Conns -> Delays(AuthTimeout)]
      /\ mem.disc \in [Users -> Delays(ReconnectTimeout)] /\ mem.timers \in TimersType
  BY Constants DEF TypeOK, MemType
<1>3. CASE x \in {Later.m.timers[t] : t \in PendingIn(Later.m.timers)}
  <2>1. /\ PendingIn(ElapseAll(mem.timers)) = PendingIn(mem.timers)
        /\ \A t \in Timers : ElapseAll(mem.timers)[t] = Elapse(mem.timers[t])
    BY <1>2, ElapseTimers
  <2>2. PendingIn(mem.timers) \subseteq Timers
    BY <1>2 DEF PendingIn, TimersType
  <2>3. PICK t \in PendingIn(mem.timers) : x = Elapse(mem.timers[t])
    BY <1>1, <1>3, <2>1, <2>2
  <2>4. mem.timers[t] \in Deadlines(mem)
    BY DEF Deadlines
  <2> QED
    BY <2>3, <2>4
<1>4. CASE x \in {Later.m.auth[c] : c \in PendingIn(Later.m.auth)}
  <2>1. /\ PendingIn(ElapseAll(mem.auth)) = PendingIn(mem.auth)
        /\ \A c \in Conns : ElapseAll(mem.auth)[c] = Elapse(mem.auth[c])
    BY <1>2, ElapseAllFacts
  <2>2. PendingIn(mem.auth) \subseteq Conns
    BY <1>2 DEF PendingIn
  <2>3. PICK c \in PendingIn(mem.auth) : x = Elapse(mem.auth[c])
    BY <1>1, <1>4, <2>1, <2>2
  <2>4. mem.auth[c] \in Deadlines(mem)
    BY DEF Deadlines
  <2> QED
    BY <2>3, <2>4
<1>5. CASE x \in {Later.m.disc[u] : u \in PendingIn(Later.m.disc)}
  <2>1. /\ PendingIn(ElapseAll(mem.disc)) = PendingIn(mem.disc)
        /\ \A u \in Users : ElapseAll(mem.disc)[u] = Elapse(mem.disc[u])
    <3>1. mem.disc \in [Users -> Delays(ReconnectTimeout)] /\ ReconnectTimeout \in Nat
      BY <1>2
    <3> QED
      BY <3>1, ElapseAllFacts
  <2>2. PendingIn(mem.disc) \subseteq Users
    BY <1>2 DEF PendingIn
  <2>3. PICK u \in PendingIn(mem.disc) : x = Elapse(mem.disc[u])
    BY <1>1, <1>5, <2>1, <2>2
  <2>4. mem.disc[u] \in Deadlines(mem)
    BY DEF Deadlines
  <2> QED
    BY <2>3, <2>4
<1>6. CASE x \in {y \in {Later.m.cleanup, Later.m.save, Later.m.ttl, Later.m.beat} :
                    Pending(y)}
  <2>1. PICK y \in {mem.cleanup, mem.save, mem.ttl, mem.beat} : x = Elapse(y) /\ Pending(x)
    <3>1. Pending(x)
      BY <1>6
    <3>2. \/ x = Elapse(mem.cleanup) \/ x = Elapse(mem.save)
          \/ x = Elapse(mem.ttl) \/ x = Elapse(mem.beat)
      BY <1>1, <1>6
    <3> QED
      BY <3>1, <3>2
  <2>2. y # Null
    BY <2>1 DEF Elapse, Null, Pending
  <2>3. y \in Deadlines(mem)
    BY <2>2 DEF Deadlines, Pending
  <2> QED
    BY <2>1, <2>3
<1> QED
  BY <1>3, <1>4, <1>5, <1>6 DEF Deadlines

(* What a time unit keeps *)
LEMMA LaterFacts ==
  ASSUME TypeOK, Sound(Now)
  PROVE  /\ Sound(Later)
         /\ LastWritten(Now) => LastWritten(Later)
         /\ Mirrored(Now) => Mirrored(Later)
         /\ Backed(Now) => Backed(Later)
         /\ Wakes(Now) => Wakes(Later)
         /\ Covered(Now) /\ ~Due(disk.alarm) => Covered(Later)
         /\ \A u \in Users : /\ mem.disc[u] = Null => Later.m.disc[u] = Null
                             /\ Pending(Later.d.blob.disc[u]) <=> Pending(disk.blob.disc[u])
<1> DEFINE e == Later
           A == ElapseAll(mem.auth)
           D == ElapseAll(mem.disc)
           B == ElapseBlob(disk.blob)
<1>1. /\ e \in Pairs
      /\ e.m.auth = A /\ e.m.disc = D
      /\ e.m.save = Elapse(mem.save) /\ e.m.cleanup = Elapse(mem.cleanup)
      /\ e.m.ttl = Elapse(mem.ttl)
      /\ e.m.last = {ElapseBlob(b) : b \in mem.last}
      /\ e.m.players = mem.players /\ e.m.dirty = mem.dirty
      /\ e.d.blob = B /\ e.d.alarm = Elapse(disk.alarm)
  BY LaterFields
<1>2. /\ mem \in MemType /\ disk \in DiskType /\ disk.blob \in BlobType
      /\ AuthTimeout \in Nat /\ ReconnectTimeout \in Nat
      /\ SaveInterval \in Int
      /\ mem.auth \in [Conns -> Delays(AuthTimeout)]
      /\ mem.disc \in [Users -> Delays(ReconnectTimeout)]
      /\ mem.save \in Delays(SaveInterval)
      /\ \A b \in mem.last : b \in BlobType
      /\ disk.alarm \in Nat \cup {Null}
  BY Constants DEF TypeOK, MemType, DiskType
<1>3. /\ disk.blob.auth \in [Conns -> Delays(AuthTimeout)]
      /\ disk.blob.disc \in [Users -> Delays(ReconnectTimeout)]
  BY <1>2 DEF BlobType
<1>4. Now.m = mem /\ Now.d = disk
  BY NowFacts
<1>5. \A b : /\ ElapseBlob(b).auth = ElapseAll(b.auth)
             /\ ElapseBlob(b).disc = ElapseAll(b.disc)
             /\ ElapseBlob(b).save = Elapse(b.save)
             /\ ElapseBlob(b).cleanup = Elapse(b.cleanup)
             /\ ElapseBlob(b).ttl = Elapse(b.ttl)
  BY DEF ElapseBlob
<1>6. /\ \A c \in Conns : A[c] = Elapse(mem.auth[c]) /\ (Pending(A[c]) <=> Pending(mem.auth[c]))
      /\ \A u \in Users : D[u] = Elapse(mem.disc[u]) /\ (Pending(D[u]) <=> Pending(mem.disc[u]))
  BY <1>2, ElapseAllFacts
<1>7. /\ \A c \in Conns : B.auth[c] = Elapse(disk.blob.auth[c])
      /\ \A u \in Users : /\ B.disc[u] = Elapse(disk.blob.disc[u])
                          /\ Pending(B.disc[u]) <=> Pending(disk.blob.disc[u])
  <2>1. \A c \in Conns : ElapseAll(disk.blob.auth)[c] = Elapse(disk.blob.auth[c])
    <3>1. disk.blob.auth \in [Conns -> Delays(AuthTimeout)] /\ AuthTimeout \in Nat
      BY <1>2, <1>3
    <3> QED
      BY <3>1, ElapseAllFacts
  <2>2. disk.blob.disc \in [Users -> Delays(ReconnectTimeout)] /\ ReconnectTimeout \in Nat
    BY <1>2, <1>3
  <2>3. \A u \in Users :
          /\ ElapseAll(disk.blob.disc)[u] = Elapse(disk.blob.disc[u])
          /\ Pending(ElapseAll(disk.blob.disc)[u]) <=> Pending(disk.blob.disc[u])
    BY <2>2, ElapseAllFacts
  <2>4. B.auth = ElapseAll(disk.blob.auth) /\ B.disc = ElapseAll(disk.blob.disc)
    BY DEF ElapseBlob
  <2> HIDE DEF B
  <2> QED
    BY <2>1, <2>3, <2>4
<1>8. Pending(Elapse(mem.save)) <=> Pending(mem.save)
  BY <1>2, DelayFacts, ElapseFacts
<1>9. \A b \in mem.last \cup {disk.blob} : /\ Bare(b) => Bare(ElapseBlob(b))
                                           /\ b = NoBlob <=> ElapseBlob(b) = NoBlob
  BY <1>2, ElapseBlobFacts
<1> HIDE DEF e, A, D, B
<1>10. LastStored(e) /\ LastAgrees(e) /\ (LastWritten(Now) => LastWritten(e))
  <2>1. ASSUME NEW b1 \in e.m.last
        PROVE  /\ Kept(b1, e.d) /\ b1.cleanup = e.m.cleanup /\ b1.ttl = e.m.ttl
               /\ LastWritten(Now) => b1 = e.d.blob
    <3>1. PICK b \in mem.last : b1 = ElapseBlob(b)
      BY <1>1
    <3>2. Kept(b, disk) /\ b.cleanup = mem.cleanup /\ b.ttl = mem.ttl
      BY <1>4 DEF Sound, LastStored, LastAgrees
    <3>3. b1.cleanup = e.m.cleanup /\ b1.ttl = e.m.ttl
      BY <1>1, <1>5, <3>1, <3>2
    <3>4. Kept(b1, e.d)
      BY <1>1, <1>9, <3>1, <3>2 DEF Kept, B
    <3>5. LastWritten(Now) => b1 = e.d.blob
      BY <1>1, <1>4, <3>1 DEF LastWritten, B
    <3> QED
      BY <3>3, <3>4, <3>5
  <2> QED
    BY <2>1 DEF LastStored, LastAgrees, LastWritten
<1>11. Stored(e)
  <2>1. e.d.blob.save = Elapse(disk.blob.save)
    BY <1>1, <1>5 DEF B
  <2> QED
    BY <1>1, <1>4, <1>6, <1>7, <1>8, <2>1 DEF Sound, Stored
<1>12. DirtyHasSave(e) /\ GraceAlone(e)
  <2>1. (mem.dirty => Pending(mem.save)) /\ GraceAlone(Now)
    BY <1>4 DEF Sound, DirtyHasSave
  <2>2. DirtyHasSave(e)
    BY <1>1, <1>8, <2>1 DEF DirtyHasSave
  <2>3. GraceAlone(e)
    BY <1>1, <1>4, <1>6, <2>1 DEF GraceAlone
  <2> QED
    BY <2>2, <2>3
<1>13. Mirrored(Now) => Mirrored(e)
  BY <1>1, <1>4, <1>6, <1>7 DEF Mirrored
<1>14. Backed(Now) => Backed(e)
  <2>1. BlobOf(e.m) = ElapseBlob(BlobOf(mem))
    BY <1>1 DEF BlobOf, ElapseBlob, A, D
  <2>2. BlobOf(mem) \in BlobType
    BY <1>2 DEF BlobOf, MemType, BlobType
  <2>3. BlobOf(e.m) = NoBlob => BlobOf(mem) = NoBlob
    BY <2>1, <2>2, ElapseBlobFacts
  <2> QED
    BY <1>1, <1>4, <1>9, <2>3 DEF Backed, B
<1>15. Wakes(Now) => Wakes(e)
  <2>1. Pending(disk.alarm) => Pending(e.d.alarm)
    BY <1>1, <1>2 DEF Pending, Elapse, Null
  <2> QED
    BY <1>1, <1>4, <1>9, <2>1 DEF Wakes, B
<1>16. Covered(Now) /\ ~Due(disk.alarm) => Covered(e)
  <2>1. SUFFICES ASSUME Covered(Now), ~Due(disk.alarm), NEW x \in Deadlines(e.m)
                 PROVE  Pending(e.d.alarm) /\ e.d.alarm <= Max({1, x})
    BY DEF Covered
  <2>2. PICK y \in Deadlines(mem) : x = Elapse(y)
    BY <2>1, LaterDeadlines DEF e
  <2>3. Pending(disk.alarm) /\ disk.alarm <= Max({1, y})
    BY <1>4, <2>1 DEF Covered
  <2>4. y \in Nat
    BY <1>2, DeadlinesAreNat
  <2>5. x \in Nat /\ x = IF y > 0 THEN y - 1 ELSE y
    BY <2>2, <2>4 DEF Elapse
  <2>6. /\ Max({1, x}) = IF 1 >= x THEN 1 ELSE x
        /\ Max({1, y}) = IF 1 >= y THEN 1 ELSE y
    BY <2>4, <2>5, MaxFacts
  <2>7. disk.alarm \in Nat \ {0} /\ e.d.alarm = disk.alarm - 1
    BY <1>1, <1>2, <2>1, <2>3 DEF Pending, Due, Elapse
  <2> DEFINE a == Max({1, x})
             b == Max({1, y})
  <2>8. /\ disk.alarm <= b /\ a = (IF 1 >= x THEN 1 ELSE x)
        /\ b = IF 1 >= y THEN 1 ELSE y
    BY <2>3, <2>6
  <2> HIDE DEF a, b
  <2>9. e.d.alarm <= a /\ Pending(e.d.alarm)
    BY <2>4, <2>5, <2>7, <2>8 DEF Pending, Null
  <2> QED
    BY <2>9 DEF a
<1>17. \A u \in Users : /\ mem.disc[u] = Null => e.m.disc[u] = Null
                        /\ Pending(e.d.blob.disc[u]) <=> Pending(disk.blob.disc[u])
  BY <1>1, <1>6, <1>7 DEF Pending
<1> QED
  BY <1>10, <1>11, <1>12, <1>13, <1>14, <1>15, <1>16, <1>17 DEF Sound, e

(* Time passes *)
LEMMA TickStep ==
  ASSUME IInv, Tick
  PROVE  IInv'
<1> DEFINE s == Later
<1>1. /\ TypeOK /\ SoundInv /\ RecInv /\ AbsentInv /\ MirrorInv
      /\ (Plain => WakeInv) /\ TaskInv /\ LiveAuthedArePlayers
  BY DEF IInv, HeldInv
<1>2. /\ ~Due(disk.alarm) /\ pass = NoPass
      /\ UNCHANGED <<awake, sock, who, task, leaves, pass, owed, want>>
  BY DEF Tick
<1>3. /\ s \in Pairs /\ mem' = s.m /\ disk' = s.d /\ s.m = ElapsedMem
      /\ s.m.players = mem.players /\ s.m.rec = mem.rec
      /\ s.m.dirty = mem.dirty /\ s.m.tagged = mem.tagged /\ s.d.tagged = disk.tagged
  BY <1>1, LaterFields DEF Tick
<1>4. Sound(Now) /\ Covered(Now) /\ Now.m = mem /\ Now.d = disk
  BY <1>1, <1>2, NowFacts DEF SoundInv
<1>5. /\ Sound(s) /\ Covered(s)
      /\ LastWritten(Now) => LastWritten(s)
      /\ Mirrored(Now) => Mirrored(s)
      /\ Backed(Now) => Backed(s)
      /\ Wakes(Now) => Wakes(s)
      /\ \A u \in Users : /\ mem.disc[u] = Null => s.m.disc[u] = Null
                          /\ Pending(s.d.blob.disc[u]) <=> Pending(disk.blob.disc[u])
  BY <1>1, <1>2, <1>4, LaterFacts
<1>6. mem = Blank => s.m = Blank
  <2>1. SUFFICES ASSUME mem = Blank
                 PROVE  ElapsedMem = Blank
    BY <1>3
  <2>2. /\ ElapseAll(Idle(Conns)) = Idle(Conns) /\ ElapseAll(Idle(Users)) = Idle(Users)
        /\ ElapseAll(Idle(Timers)) = Idle(Timers) /\ Elapse(Null) = Null
    BY DEF ElapseAll, Idle, Elapse, Null
  <2>3. {ElapseBlob(b) : b \in {}} = {}
    OBVIOUS
  <2>4. /\ Blank.auth = Idle(Conns) /\ Blank.disc = Idle(Users)
        /\ Blank.timers = Idle(Timers) /\ Blank.save = Null /\ Blank.cleanup = Null
        /\ Blank.ttl = Null /\ Blank.beat = Null /\ Blank.last = {}
    BY DEF Blank
  <2>5. ElapsedMem = [Blank EXCEPT !.auth = Idle(Conns), !.disc = Idle(Users),
          !.timers = Idle(Timers), !.save = Null, !.cleanup = Null, !.ttl = Null,
          !.beat = Null, !.last = {}]
    BY <2>1, <2>2, <2>3, <2>4 DEF ElapsedMem
  <2> QED
    BY <2>5 DEF Blank
<1> HIDE DEF s
<1>7. awake' /\ ~s.m.rec /\ Early' => Deserts' \/ Mirrored(s)
  BY <1>1, <1>2, <1>3, <1>5 DEF MirrorInv, Early, Deserts
<1>8. Plain => /\ Untagged(s)
               /\ awake' /\ ~s.m.rec /\ Early' => Backed(s) \/ Detached'
               /\ pass' = NoPass => Wakes(s)
  <2>1. SUFFICES ASSUME Plain
                 PROVE  /\ Untagged(s) /\ Wakes(s)
                        /\ awake /\ ~mem.rec => Backed(s) \/ Detached'
    BY <1>2, <1>3
  <2>2. Untagged(s) /\ Wakes(s)
    BY <1>1, <1>2, <1>3, <1>4, <1>5, <2>1 DEF WakeInv, Untagged
  <2>3. awake /\ ~mem.rec => Backed(Now) \/ Detached
    BY <1>1, <1>2, <2>1 DEF WakeInv, Early, NoPass
  <2>4. Detached => Detached'
    BY <1>2, <1>3, <1>6 DEF Detached, Deserts
  <2> QED
    BY <1>5, <2>2, <2>3, <2>4
<1>9. s.m.rec => /\ pass' = NoPass /\ leaves' = {}
                 /\ \A c \in Conns : task'[c] = "idle"
                 /\ Untouched(s)
  BY <1>1, <1>2, <1>3, <1>5 DEF RecInv, Untouched
<1>10. ~awake' \/ s.m.rec =>
         \A u \in Users : Pending(s.d.blob.disc[u]) =>
           \A c \in Conns : sock'[c] # "none" => who'[c] # u
  BY <1>1, <1>2, <1>3, <1>5 DEF AbsentInv
<1>11. /\ HeldInv' /\ mem' \in MemType /\ disk' \in DiskType
       /\ (\A a, b \in mem.last : a = b)'
  BY <1>3, <1>5, <1>7, <1>8, <1>9, <1>10, LandsAny
<1>12. TypeOK'
  <2>1. RestType'
    BY <1>1, <1>2 DEF TypeOK, RestType
  <2>2. awake' \in BOOLEAN /\ (~awake' => mem' = Blank /\ pass' = NoPass /\ leaves' = {})
    BY <1>1, <1>2, <1>3, <1>6 DEF TypeOK
  <2> QED
    BY <1>11, <2>1, <2>2 DEF TypeOK, RestType
<1>13. TaskInv'
  BY <1>1, <1>2 DEF TaskInv
<1>14. LiveAuthedArePlayers'
  BY <1>1, <1>2, <1>3 DEF LiveAuthedArePlayers
<1> QED
  BY <1>11, <1>12, <1>13, <1>14 DEF IInv

-----------------------------------------------------------------------------
(* The steps of an alarm pass                                              *)

(* A pair that a pass may go on with: no recovery is due, and the blob     *)
(* lags behind the memory in nothing that would be missed.                 *)
Fit(r) ==
  /\ r \in Pairs /\ Sound(r) /\ ~r.m.rec
  /\ Deserts \/ Mirrored(r)
  /\ Plain => Untagged(r) /\ Backed(r)

(* Sync makes a pair fit whenever it writes what changed. *)
LEMMA SyncFit ==
  ASSUME NEW r, Fit(r), NEW q \in Pairs,
         \A b \in q.m.last : b = BlobOf(q.m) => Kept(b, q.d),
         DirtyHasSave(q), GraceAlone(q), q.m.rec = r.m.rec,
         q.m.players = r.m.players, Plain => Untagged(q),
         NEW s, s = Sync(q)
  PROVE  Fit(s) /\ s.m.players = r.m.players
<1>1. /\ s \in Pairs /\ s.m = [q.m EXCEPT !.last = {BlobOf(q.m)}]
      /\ s.d = [q.d EXCEPT !.blob = s.d.blob] /\ Kept(BlobOf(q.m), s.d)
  BY SyncFacts
<1>2. q.m \in MemType /\ q.d \in DiskType
  BY PairParts
<1>3. /\ s.m.players = q.m.players /\ s.m.rec = q.m.rec /\ s.m.tagged = q.m.tagged
      /\ s.m.disc = q.m.disc /\ s.m.dirty = q.m.dirty /\ s.m.save = q.m.save
      /\ s.m.auth = q.m.auth /\ s.m.cleanup = q.m.cleanup /\ s.m.ttl = q.m.ttl
      /\ s.m.last = {BlobOf(q.m)}
  BY <1>1, <1>2 DEF MemType
<1>4. s.d.tagged = q.d.tagged
  BY <1>1, <1>2 DEF DiskType
<1>5. BlobOf(s.m) = BlobOf(q.m)
  BY <1>3 DEF BlobOf
<1>6. DirtyHasSave(s) /\ GraceAlone(s)
  BY <1>3 DEF DirtyHasSave, GraceAlone
<1>7. Sound(s) /\ Mirrored(s) /\ Backed(s)
  BY <1>1, <1>3, <1>5, <1>6, KeptIsSound
<1>8. (Plain => Untagged(s)) /\ ~s.m.rec
  BY <1>3, <1>4 DEF Untagged, Fit
<1> QED
  BY <1>1, <1>3, <1>7, <1>8 DEF Fit

(* 4. The cleanup that is due is cleared, with the storage or without.  A  *)
(* blob remembered from before has it as due, so this one is written.      *)
LEMMA CleanupStepFits ==
  ASSUME NEW r, Fit(r)
  PROVE  Fit(CleanupStep(r)) /\ CleanupStep(r).m.players = r.m.players
<1> DEFINE s == CleanupStep(r)
           m1 == [r.m EXCEPT !.cleanup = Null]
           m2 == [m1 EXCEPT !.dirty = FALSE, !.save = Null]
           m3 == [m2 EXCEPT
                   !.ver = 0, !.ps = {}, !.created = FALSE, !.tagged = FALSE,
                   !.timers = Idle(Timers), !.auth = Idle(Conns), !.disc = Idle(Users),
                   !.ttl = IdleTimeout]
           m4 == [m2 EXCEPT !.ttl = Null]
           d == [r.d EXCEPT !.blob = NoBlob, !.state = NoState,
                   !.timers = Idle(Timers), !.tagged = FALSE]
           q1 == [m |-> m1, d |-> r.d]
           q3 == [m |-> m3, d |-> d]
           q4 == [m |-> m4, d |-> d]
<1>1. r \in Pairs /\ r.m \in MemType /\ r.d \in DiskType /\ Sound(r)
  BY PairParts DEF Fit
<1>2. s = IF ~Due(r.m.cleanup) THEN r
          ELSE IF ~NoPlayers(r.m) THEN Sync(q1)
          ELSE IF r.m.ver > 0 \/ r.m.ps # {} THEN Sync(q3) ELSE Sync(q4)
  <2> DEFINE q2 == [m |-> m2, d |-> d]
             p2 == [m |-> m2, d |-> r.d]
  <2>1. [r EXCEPT !.m.cleanup = Null] = q1
    BY <1>1, PairEdit
  <2>2. [q1 EXCEPT !.m = [@ EXCEPT !.dirty = FALSE, !.save = Null]] = p2
    BY PairAgain
  <2>3. DeleteStored(p2) = q2
    BY PairAgain DEF DeleteStored
  <2>4. [q2 EXCEPT !.m = [@ EXCEPT
           !.ver = 0, !.ps = {}, !.created = FALSE, !.tagged = FALSE,
           !.timers = Idle(Timers), !.auth = Idle(Conns), !.disc = Idle(Users),
           !.ttl = IdleTimeout]] = q3
    BY PairAgain
  <2>5. [q2 EXCEPT !.m.ttl = Null] = q4
    BY PairAgain
  <2> DEFINE r1 == [r EXCEPT !.m.cleanup = Null]
             quiet(x) == DeleteStored([x EXCEPT !.m = [@ EXCEPT !.dirty = FALSE, !.save = Null]])
             wiped(x) == [x EXCEPT !.m = [@ EXCEPT
                !.ver = 0, !.ps = {}, !.created = FALSE, !.tagged = FALSE,
                !.timers = Idle(Timers), !.auth = Idle(Conns), !.disc = Idle(Users),
                !.ttl = IdleTimeout]]
  <2>6. s = IF ~Due(r.m.cleanup) THEN r
            ELSE IF ~NoPlayers(r.m) THEN Sync(r1)
            ELSE IF r.m.ver > 0 \/ r.m.ps # {} THEN Sync(wiped(quiet(r1)))
            ELSE Sync([quiet(r1) EXCEPT !.m.ttl = Null])
    BY DEF CleanupStep
  <2>7. quiet(q1) = q2
    <3> HIDE DEF q1, q2
    <3> QED
      BY <2>2, <2>3
  <2>8. wiped(q2) = q3
    BY <2>4
  <2> HIDE DEF s, q1, q2, q3, q4, r1, quiet, wiped
  <2>9. r1 = q1
    BY <2>1 DEF r1
  <2> QED
    BY <2>5, <2>6, <2>7, <2>8, <2>9
<1>3. /\ m1 \in MemType /\ m1.cleanup = Null /\ m1.players = r.m.players
      /\ m1.rec = r.m.rec /\ m1.tagged = r.m.tagged /\ m1.disc = r.m.disc
      /\ m1.dirty = r.m.dirty /\ m1.save = r.m.save /\ m1.last = r.m.last
  BY <1>1, NullFits DEF MemType
<1> HIDE DEF m1
<1>4. /\ m2 \in MemType /\ m2.cleanup = Null /\ m2.players = r.m.players
      /\ m2.rec = r.m.rec /\ m2.tagged = r.m.tagged /\ m2.disc = r.m.disc
      /\ ~m2.dirty /\ m2.save = Null /\ m2.last = r.m.last
  BY <1>3, NullFits DEF MemType
<1> HIDE DEF m2
<1>5. /\ m3 \in MemType /\ m3.cleanup = Null /\ m3.players = r.m.players
      /\ m3.rec = r.m.rec /\ ~m3.tagged /\ m3.disc = Idle(Users)
      /\ ~m3.dirty /\ m3.last = r.m.last
  <2>1. 0 \in 0..MaxVer
    BY Constants
  <2> QED
    BY <1>4, <2>1, EmptyTypes, FullFits DEF MemType
<1>6. /\ m4 \in MemType /\ m4.cleanup = Null /\ m4.players = r.m.players
      /\ m4.rec = r.m.rec /\ m4.tagged = r.m.tagged /\ m4.disc = r.m.disc
      /\ ~m4.dirty /\ m4.last = r.m.last
  BY <1>4, NullFits DEF MemType
<1>7. d \in DiskType /\ ~d.tagged
  BY <1>1, EmptyTypes DEF DiskType
<1>8. /\ q1 \in Pairs /\ q1.m = m1 /\ q1.d = r.d
      /\ q3 \in Pairs /\ q3.m = m3 /\ q3.d = d
      /\ q4 \in Pairs /\ q4.m = m4 /\ q4.d = d
  BY <1>1, <1>3, <1>5, <1>6, <1>7 DEF Pairs
<1> HIDE DEF s, m3, m4, d, q1, q3, q4
<1>9. /\ LastStored(r) /\ LastAgrees(r) /\ DirtyHasSave(r) /\ GraceAlone(r)
      /\ Plain => ~r.m.tagged /\ ~r.d.tagged
  BY <1>1 DEF Sound, Fit, Untagged
<1>10. CASE ~Due(r.m.cleanup)
  BY <1>2, <1>10 DEF s
<1>11. CASE Due(r.m.cleanup) /\ ~NoPlayers(r.m)
  <2>1. s = Sync(q1)
    BY <1>2, <1>11
  <2>2. \A b \in q1.m.last : b = BlobOf(q1.m) => Kept(b, q1.d)
    BY <1>3, <1>8, <1>9 DEF LastStored
  <2>3. DirtyHasSave(q1)
    BY <1>3, <1>8, <1>9 DEF DirtyHasSave
  <2>4. GraceAlone(q1) /\ q1.m.rec = r.m.rec /\ q1.m.players = r.m.players
    BY <1>3, <1>8, <1>9 DEF GraceAlone
  <2>5. Plain => Untagged(q1)
    BY <1>3, <1>8, <1>9 DEF Untagged
  <2> QED
    BY <1>8, <2>1, <2>2, <2>3, <2>4, <2>5, SyncFit DEF s
<1>12. ASSUME Due(r.m.cleanup), NEW q, q.m.last = r.m.last, q.m.cleanup = Null
       PROVE  \A b \in q.m.last : b # BlobOf(q.m)
  BY <1>9, <1>12 DEF LastAgrees, BlobOf, Due, Null
<1>13. CASE Due(r.m.cleanup) /\ NoPlayers(r.m) /\ (r.m.ver > 0 \/ r.m.ps # {})
  <2>1. s = Sync(q3)
    BY <1>2, <1>13
  <2>2. \A b \in q3.m.last : b # BlobOf(q3.m)
    BY <1>5, <1>8, <1>12, <1>13
  <2>3. DirtyHasSave(q3)
    BY <1>5, <1>8 DEF DirtyHasSave
  <2>4. GraceAlone(q3) /\ q3.m.rec = r.m.rec /\ q3.m.players = r.m.players
    BY <1>5, <1>8 DEF GraceAlone, Idle, Pending
  <2>5. Plain => Untagged(q3)
    BY <1>5, <1>7, <1>8 DEF Untagged
  <2> QED
    BY <1>8, <2>1, <2>2, <2>3, <2>4, <2>5, SyncFit DEF s
<1>14. CASE Due(r.m.cleanup) /\ NoPlayers(r.m) /\ ~(r.m.ver > 0 \/ r.m.ps # {})
  <2>1. s = Sync(q4)
    BY <1>2, <1>14
  <2>2. \A b \in q4.m.last : b # BlobOf(q4.m)
    BY <1>6, <1>8, <1>12, <1>14
  <2>3. DirtyHasSave(q4)
    BY <1>6, <1>8 DEF DirtyHasSave
  <2>4. GraceAlone(q4) /\ q4.m.rec = r.m.rec /\ q4.m.players = r.m.players
    BY <1>6, <1>8, <1>9 DEF GraceAlone
  <2>5. Plain => Untagged(q4)
    BY <1>6, <1>7, <1>8, <1>9 DEF Untagged
  <2> QED
    BY <1>8, <2>1, <2>2, <2>3, <2>4, <2>5, SyncFit DEF s
<1> QED
  BY <1>10, <1>11, <1>13, <1>14

(* 5. The save that is due is done if there is anything to save. *)
LEMMA SaveStepFits ==
  ASSUME NEW r, Fit(r)
  PROVE  Fit(SaveStep(r)) /\ SaveStep(r).m.players = r.m.players
<1> DEFINE s == SaveStep(r)
           m1 == [r.m EXCEPT !.save = Null]
           q1 == [m |-> m1, d |-> r.d]
           p == PersistState(q1)
<1>1. r \in Pairs /\ r.m \in MemType /\ r.d \in DiskType /\ Sound(r)
  BY PairParts DEF Fit
<1>2. s = IF ~Due(r.m.save) THEN r ELSE Sync(IF q1.m.dirty THEN p ELSE q1)
  <2> DEFINE r1 == [r EXCEPT !.m.save = Null]
  <2>1. r1 = q1
    BY <1>1, PairEdit
  <2>2. s = IF ~Due(r.m.save) THEN r ELSE Sync(IF r1.m.dirty THEN PersistState(r1) ELSE r1)
    BY DEF SaveStep
  <2> HIDE DEF s, r1, q1
  <2> QED
    BY <2>1, <2>2
<1>3. /\ m1 \in MemType /\ m1.players = r.m.players
      /\ m1.rec = r.m.rec /\ m1.tagged = r.m.tagged /\ m1.disc = r.m.disc
      /\ m1.dirty = r.m.dirty /\ m1.last = r.m.last
  BY <1>1, NullFits DEF MemType
<1>4. q1 \in Pairs /\ q1.m = m1 /\ q1.d = r.d
  BY <1>1, <1>3 DEF Pairs
<1> HIDE DEF s, m1, q1, p
<1>5. LastStored(q1) /\ GraceAlone(q1)
  BY <1>1, <1>3, <1>4 DEF Sound, LastStored, GraceAlone
<1>6. Plain => Untagged(q1)
  BY <1>3, <1>4 DEF Fit, Untagged
<1>7. CASE ~Due(r.m.save)
  BY <1>2, <1>7 DEF s
<1>8. CASE Due(r.m.save) /\ q1.m.dirty
  <2>1. p \in Pairs /\ Settled(p) /\ Follows(q1, p) /\ p.m.players = q1.m.players
    BY <1>4, <1>5, PersistStateKeeps DEF p
  <2>2. \A b \in p.m.last : b = BlobOf(p.m) => Kept(b, p.d)
    BY <2>1 DEF Settled, Sound, LastStored
  <2>3. DirtyHasSave(p) /\ GraceAlone(p) /\ p.m.rec = r.m.rec
        /\ p.m.players = r.m.players /\ (Plain => Untagged(p))
    BY <1>3, <1>4, <1>6, <2>1 DEF Settled, Sound, Follows, Untagged
  <2>4. s = Sync(p)
    BY <1>2, <1>8
  <2> QED
    BY <2>1, <2>2, <2>3, <2>4, SyncFit DEF s
<1>9. CASE Due(r.m.save) /\ ~q1.m.dirty
  <2>1. \A b \in q1.m.last : b = BlobOf(q1.m) => Kept(b, q1.d)
    BY <1>5 DEF LastStored
  <2>2. DirtyHasSave(q1)
    BY <1>9 DEF DirtyHasSave
  <2>3. s = Sync(q1)
    BY <1>2, <1>9
  <2> QED
    BY <1>3, <1>4, <1>5, <1>6, <2>1, <2>2, <2>3, SyncFit DEF s
<1> QED
  BY <1>7, <1>8, <1>9

(* 6. Storage is deleted when the safety net is due, and the blob that is  *)
(* remembered has it as due.                                               *)
LEMMA TtlStepFits ==
  ASSUME NEW r, Fit(r)
  PROVE  Fit(TtlStep(r)) /\ TtlStep(r).m.players = r.m.players
<1> DEFINE s == TtlStep(r)
           m1 == [r.m EXCEPT !.ttl = Null]
           d == [r.d EXCEPT !.blob = NoBlob, !.state = NoState,
                   !.timers = Idle(Timers), !.tagged = FALSE]
           q1 == [m |-> m1, d |-> r.d]
           q2 == [m |-> m1, d |-> d]
<1>1. r \in Pairs /\ r.m \in MemType /\ r.d \in DiskType /\ Sound(r)
  BY PairParts DEF Fit
<1>2. s = IF ~Due(r.m.ttl) THEN r ELSE Sync(IF NoPlayers(q1.m) THEN q2 ELSE q1)
  <2> DEFINE r1 == [r EXCEPT !.m.ttl = Null]
  <2>1. r1 = q1
    BY <1>1, PairEdit
  <2>2. s = IF ~Due(r.m.ttl) THEN r
            ELSE Sync(IF NoPlayers(r1.m) THEN DeleteStored(r1) ELSE r1)
    BY DEF TtlStep
  <2>3. DeleteStored(q1) = q2
    BY PairAgain DEF DeleteStored
  <2> HIDE DEF s, r1, q1, q2
  <2> QED
    BY <2>1, <2>2, <2>3
<1>3. /\ m1 \in MemType /\ m1.ttl = Null /\ m1.players = r.m.players
      /\ m1.rec = r.m.rec /\ m1.tagged = r.m.tagged /\ m1.disc = r.m.disc
      /\ m1.dirty = r.m.dirty /\ m1.save = r.m.save /\ m1.last = r.m.last
  BY <1>1, NullFits DEF MemType
<1>4. d \in DiskType /\ ~d.tagged
  BY <1>1, EmptyTypes DEF DiskType
<1>5. /\ q1 \in Pairs /\ q1.m = m1 /\ q1.d = r.d
      /\ q2 \in Pairs /\ q2.m = m1 /\ q2.d = d
  BY <1>1, <1>3, <1>4 DEF Pairs
<1> HIDE DEF s, m1, d, q1, q2
<1>6. LastStored(q1) /\ GraceAlone(q1) /\ GraceAlone(q2)
  BY <1>1, <1>3, <1>5 DEF Sound, LastStored, GraceAlone
<1>7. DirtyHasSave(q1) /\ DirtyHasSave(q2)
  <2>1. DirtyHasSave(r)
    BY <1>1 DEF Sound
  <2> QED
    BY <1>3, <1>5, <2>1 DEF DirtyHasSave
<1>8. Plain => Untagged(q1) /\ Untagged(q2)
  BY <1>3, <1>4, <1>5 DEF Fit, Untagged
<1>9. CASE ~Due(r.m.ttl)
  BY <1>2, <1>9 DEF s
<1>10. CASE Due(r.m.ttl) /\ NoPlayers(q1.m)
  <2>1. \A b \in q2.m.last : b # BlobOf(q2.m)
    BY <1>1, <1>3, <1>5, <1>10 DEF Sound, LastAgrees, BlobOf, Due, Null
  <2>2. s = Sync(q2)
    BY <1>2, <1>10
  <2> QED
    BY <1>3, <1>5, <1>6, <1>7, <1>8, <2>1, <2>2, SyncFit DEF s
<1>11. CASE Due(r.m.ttl) /\ ~NoPlayers(q1.m)
  <2>1. \A b \in q1.m.last : b = BlobOf(q1.m) => Kept(b, q1.d)
    BY <1>6 DEF LastStored
  <2>2. s = Sync(q1)
    BY <1>2, <1>11
  <2> QED
    BY <1>3, <1>5, <1>6, <1>7, <1>8, <2>1, <2>2, SyncFit DEF s
<1> QED
  BY <1>9, <1>10, <1>11

(* What ends the pass: the heartbeat starts again while sockets are listed *)
Beaten(r) ==
  IF Due(r.m.beat) THEN Sync(EnsureBeat([r EXCEPT !.m.beat = Null], Listed)) ELSE r

(* ... and leaves the pair fit. *)
LEMMA BeatenFits ==
  ASSUME NEW r, Fit(r)
  PROVE  Fit(Beaten(r)) /\ Beaten(r).m.players = r.m.players
<1> DEFINE s == Beaten(r)
           m == [r.m EXCEPT !.beat = Null]
           q == [m |-> m, d |-> r.d]
           p == EnsureBeat(q, Listed)
<1>1. r \in Pairs /\ r.m \in MemType /\ r.d \in DiskType /\ Sound(r)
  BY PairParts DEF Fit
<1>2. s = IF Due(r.m.beat) THEN Sync(p) ELSE r
  <2>1. [r EXCEPT !.m.beat = Null] = q
    BY <1>1, PairEdit
  <2> HIDE DEF q
  <2> QED
    BY <2>1 DEF Beaten
<1>3. /\ m \in MemType /\ m.players = r.m.players /\ m.last = r.m.last
      /\ m.auth = r.m.auth /\ m.disc = r.m.disc /\ m.save = r.m.save
      /\ m.cleanup = r.m.cleanup /\ m.ttl = r.m.ttl /\ m.dirty = r.m.dirty
      /\ m.rec = r.m.rec /\ m.tagged = r.m.tagged
  BY <1>1, NullFits DEF MemType
<1>4. q \in Pairs /\ q.m = m /\ q.d = r.d
  BY <1>1, <1>3 DEF Pairs
<1> HIDE DEF s, m, q
<1>5. Alike(r, q)
  BY <1>3, <1>4 DEF Alike
<1>6. Sound(q)
  BY <1>1, <1>5, AlikeKeeps
<1>7. p \in Pairs /\ Sound(p) /\ Follows(q, p) /\ p.m.players = q.m.players
  BY <1>4, <1>6, EnsureBeatKeeps
<1> HIDE DEF p
<1>8. CASE Due(r.m.beat)
  <2>1. s = Sync(p)
    BY <1>2, <1>8
  <2>2. /\ \A b \in p.m.last : b = BlobOf(p.m) => Kept(b, p.d)
        /\ DirtyHasSave(p) /\ GraceAlone(p)
    BY <1>7 DEF Sound, LastStored
  <2>3. p.m.rec = r.m.rec /\ p.m.players = r.m.players /\ (Plain => Untagged(p))
    BY <1>3, <1>4, <1>7 DEF Fit, Follows, Untagged
  <2> QED
    BY <1>7, <2>1, <2>2, <2>3, SyncFit DEF s
<1>9. CASE ~Due(r.m.beat)
  BY <1>2, <1>9 DEF s
<1> QED
  BY <1>8, <1>9

(* A step of a pass keeps the invariant if it leaves a sound pair: one     *)
(* that lags behind only as far as the stage of the pass allows.           *)
LEMMA PassLands ==
  ASSUME IInv, NEW s \in Pairs, Sound(s), ~s.m.rec, Manned(s), Becomes(s), Quieter,
         UNCHANGED <<who, task, leaves>>,
         pass' \in [stage : {"idle", "timers", "hook", "destroy"},
                    user : Users \cup {None}, todo : SUBSET Users],
         owed' \subseteq Users, want' \in [Timers -> BOOLEAN],
         pass' = NoPass => Covered(s),
         Early' => Deserts \/ Mirrored(s),
         Plain => /\ Untagged(s)
                  /\ Early' => Backed(s)
                  /\ pass' = NoPass => Wakes(s)
  PROVE  IInv'
<1>1. TypeOK
  BY DEF IInv
<1>2. Deserts => Deserts'
  BY DEF Deserts, Quieter
<1>3. /\ HeldInv' /\ awake' /\ mem' \in MemType /\ disk' \in DiskType
      /\ (\A a, b \in mem.last : a = b)'
  BY <1>2, Lands
<1>4. RestType'
  BY <1>1 DEF TypeOK, RestType, Quieter
<1>5. TypeOK'
  <2>1. awake' = TRUE
    BY DEF Becomes
  <2> QED
    BY <1>3, <1>4, <2>1 DEF TypeOK, RestType
<1>6. TaskInv'
  BY <1>3, QuietTasks
<1>7. LiveAuthedArePlayers'
  BY DEF Manned, Becomes, Quieter, LiveAuthedArePlayers
<1> QED
  BY <1>3, <1>5, <1>6, <1>7 DEF IInv

(* Steps 4 to 8 from a fit pair: the pass ends with the alarm set. *)
LEMMA FinishPassStep ==
  ASSUME IInv, NEW r0, Fit(r0), Manned(r0), NEW mute, NEW wanted \in [Timers -> BOOLEAN],
         FinishPass(r0, mute, wanted), UNCHANGED <<who, task, leaves>>
  PROVE  IInv'
<1> DEFINE r1 == CleanupStep(r0)
           r2 == SaveStep(r1)
           r == TtlStep(r2)
           q == Beaten(r)
           s == Arm(q)
<1>1. TypeOK
  BY DEF IInv
<1>2. \E stale \in SUBSET {c \in Listed : who[c] # None} : sock' = Closing(mute \cup stale)
  BY DEF FinishPass
<1>3. Quieter
  BY <1>1, <1>2, ClosingFacts
<1>4. pass' = NoPass /\ UNCHANGED owed
  BY DEF FinishPass
<1>5. want' \in [Timers -> BOOLEAN]
  <2>1. want' = NoTimers \/ want' = wanted
    BY DEF FinishPass
  <2>2. NoTimers \in [Timers -> BOOLEAN]
    BY DEF NoTimers
  <2> QED
    BY <2>1, <2>2
<1>6. Becomes(s)
  BY DEF FinishPass, Beaten
<1>7. Fit(r1) /\ r1.m.players = r0.m.players
  BY CleanupStepFits
<1> HIDE DEF r1
<1>8. Fit(r2) /\ r2.m.players = r0.m.players
  BY <1>7, SaveStepFits
<1> HIDE DEF r2
<1>9. Fit(r) /\ r.m.players = r0.m.players
  BY <1>8, TtlStepFits
<1> HIDE DEF r
<1>10. Fit(q) /\ q.m.players = r0.m.players
  BY <1>9, BeatenFits
<1> HIDE DEF q
<1>11. /\ s \in Pairs /\ Sound(s) /\ Covered(s) /\ Follows(q, s) /\ s.m = q.m
       /\ IF Deadlines(q.m) = {} THEN s = q ELSE Pending(s.d.alarm)
  BY <1>10, ArmKeeps, ArmFacts DEF Fit
<1> HIDE DEF s
<1>12. Deserts \/ Mirrored(s)
  BY <1>10, <1>11 DEF Fit, Follows
<1>13. Plain => Untagged(s) /\ Backed(s)
  BY <1>10, <1>11 DEF Fit, Follows, Untagged
<1>14. Plain => Wakes(s)
  <2>1. CASE Deadlines(q.m) = {}
    <3>1. BlobOf(s.m) = NoBlob
      BY <1>10, <1>11, <2>1, NothingHeld, PairParts DEF Fit
    <3> QED
      BY <1>13, <3>1 DEF Backed, Wakes
  <2>2. CASE Deadlines(q.m) # {}
    BY <1>11, <2>2 DEF Wakes
  <2> QED
    BY <2>1, <2>2
<1>15. ~s.m.rec /\ Manned(s)
  BY <1>10, <1>11 DEF Fit, Manned
<1>16. pass' \in [stage : {"idle", "timers", "hook", "destroy"},
                  user : Users \cup {None}, todo : SUBSET Users]
  BY <1>4 DEF NoPass
<1>17. owed' \subseteq Users
  BY <1>1, <1>4 DEF TypeOK
<1> QED
  BY <1>3, <1>5, <1>6, <1>11, <1>12, <1>13, <1>14, <1>15, <1>16, <1>17, PassLands

(* 3. onLeave is called: what is not synced yet waits for the end of the   *)
(* pass.                                                                   *)
LEMMA NextLeaveStep ==
  ASSUME IInv, NEW s \in Pairs, Sound(s), ~s.m.rec, Plain => Untagged(s), Manned(s),
         NEW todo \in SUBSET Users, NEW mute, NextLeave(s, todo, mute),
         UNCHANGED <<who, task, leaves>>, want' \in [Timers -> BOOLEAN]
  PROVE  IInv'
<1>1. TypeOK
  BY DEF IInv
<1>2. PICK u \in todo :
        /\ Becomes(s)
        /\ pass' = [stage |-> "hook", user |-> u, todo |-> todo \ {u}]
        /\ owed' = owed \ {u}
        /\ sock' = Closing(mute)
  BY DEF NextLeave
<1>3. Quieter
  BY <1>1, <1>2, ClosingFacts
<1>4. pass' # NoPass /\ ~Early'
  BY <1>2 DEF NoPass, Early
<1>5. pass' \in [stage : {"idle", "timers", "hook", "destroy"},
                 user : Users \cup {None}, todo : SUBSET Users]
  BY <1>2
<1>6. owed' \subseteq Users
  BY <1>1, <1>2 DEF TypeOK
<1> QED
  BY <1>2, <1>3, <1>4, <1>5, <1>6, PassLands

(* The grace periods that are over are taken out and their users leave. *)
LEMMA StartLeavesStep ==
  ASSUME IInv, NEW r, Fit(r), Manned(r), NEW mute, StartLeaves(r, mute),
         UNCHANGED <<who, task, leaves>>
  PROVE  IInv'
<1> DEFINE expired == DueIn(r.m.disc)
           g == Without(r.m.disc, expired)
           m == [r.m EXCEPT !.disc = g]
           s == [m |-> m, d |-> r.d]
<1>1. /\ r \in Pairs /\ r.m \in MemType /\ r.d \in DiskType /\ Sound(r)
      /\ want \in [Timers -> BOOLEAN]
  BY PairParts DEF Fit, IInv, TypeOK
<1>2. CASE expired = {}
  <2>1. FinishPass(r, mute, want)
    BY <1>2 DEF StartLeaves
  <2> QED
    BY <1>1, <2>1, FinishPassStep
<1>3. CASE expired # {}
  <2>1. NextLeave(s, expired, mute) /\ UNCHANGED want
    <3>1. [r EXCEPT !.m.disc = Without(@, expired)] = s
      BY <1>1, PairEdit
    <3>2. NextLeave([r EXCEPT !.m.disc = Without(@, expired)], expired, mute) /\ UNCHANGED want
      BY <1>3 DEF StartLeaves
    <3> HIDE DEF s
    <3> QED
      BY <3>1, <3>2
  <2>2. r.m.disc \in [Users -> Delays(ReconnectTimeout)]
    BY <1>1 DEF MemType
  <2>3. expired \in SUBSET Users
    BY <2>2 DEF DueIn
  <2>4. /\ g \in [Users -> Delays(ReconnectTimeout)]
        /\ \A u \in Users : Pending(g[u]) => g[u] = r.m.disc[u]
    BY <2>2, NullFits DEF Without, Pending
  <2> HIDE DEF g, expired
  <2>5. /\ m \in MemType /\ m.disc = g /\ m.players = r.m.players /\ m.last = r.m.last
        /\ m.auth = r.m.auth /\ m.save = r.m.save
        /\ m.cleanup = r.m.cleanup /\ m.ttl = r.m.ttl /\ m.dirty = r.m.dirty
        /\ m.rec = r.m.rec /\ m.tagged = r.m.tagged
    BY <1>1, <2>4 DEF MemType
  <2>6. s \in Pairs /\ s.m = m /\ s.d = r.d
    BY <1>1, <2>5 DEF Pairs
  <2> HIDE DEF m, s
  <2>7. LastStored(s) /\ LastAgrees(s)
    BY <1>1, <2>5, <2>6 DEF Sound, LastStored, LastAgrees
  <2>8. Stored(s)
    <3>1. Stored(r)
      BY <1>1 DEF Sound
    <3> QED
      BY <2>4, <2>5, <2>6, <3>1 DEF Stored
  <2>9. GraceAlone(s)
    <3>1. GraceAlone(r)
      BY <1>1 DEF Sound
    <3> QED
      BY <2>4, <2>5, <2>6, <3>1 DEF GraceAlone
  <2>10. DirtyHasSave(s)
    <3>1. DirtyHasSave(r)
      BY <1>1 DEF Sound
    <3> QED
      BY <2>5, <2>6, <3>1 DEF DirtyHasSave
  <2>11. Sound(s) /\ ~s.m.rec /\ (Plain => Untagged(s)) /\ Manned(s)
    BY <2>5, <2>6, <2>7, <2>8, <2>9, <2>10 DEF Sound, Fit, Untagged, Manned
  <2> QED
    BY <1>1, <2>1, <2>3, <2>6, <2>11, NextLeaveStep
<1> QED
  BY <1>2, <1>3

(* In a pass that waits for a handler nothing is to be recovered. *)
LEMMA PassFacts ==
  ASSUME IInv, pass.stage # "idle"
  PROVE  /\ TypeOK /\ awake /\ Apt(Now) /\ Manned(Now) /\ Now.m = mem
         /\ pass.todo \in SUBSET Users
         /\ Early => Fit(Now)
<1>1. pass # NoPass
  BY DEF NoPass
<1>2. TypeOK /\ awake /\ Apt(Now) /\ Manned(Now)
  BY <1>1, ActiveFacts DEF UnderWay, IInv
<1>3. Now.m = mem /\ pass.todo \in SUBSET Users
  BY <1>2, NowFacts DEF TypeOK
<1>4. Early => Fit(Now)
  BY <1>2 DEF Apt, Fit
<1> QED
  BY <1>2, <1>3, <1>4

(* The timer handlers have returned. *)
LEMMA AlarmTimersStep ==
  ASSUME IInv, AlarmTimers
  PROVE  IInv'
<1> DEFINE r == MarkDirty(Now)
<1>1. /\ pass.stage = "timers" /\ StartLeaves(r, {}) /\ UNCHANGED <<who, task, leaves>>
  BY DEF AlarmTimers, Now
<1>2. Fit(Now) /\ Manned(Now)
  BY <1>1, PassFacts DEF Early
<1>3. r \in Pairs /\ Sound(r) /\ Follows(Now, r) /\ r.m.players = Now.m.players
  BY <1>2, MarkDirtyKeeps DEF Fit
<1> HIDE DEF r
<1>4. Fit(r) /\ Manned(r)
  BY <1>2, <1>3 DEF Fit, Follows, Untagged, Manned
<1> QED
  BY <1>1, <1>4, StartLeavesStep

(* A departure of the pass has ended: the next one begins, or the pass     *)
(* goes on with the blob written.                                          *)
LEMMA ContinueLeavesStep ==
  ASSUME IInv, NEW r \in Pairs, Sound(r), ~r.m.rec, Plain => Untagged(r), Manned(r),
         pass.stage # "idle", NEW wanted \in [Timers -> BOOLEAN],
         ContinueLeaves(r, wanted), UNCHANGED <<who, task, leaves>>
  PROVE  IInv'
<1>1. pass.todo \in SUBSET Users
  BY PassFacts
<1>2. CASE pass.todo = {}
  <2> DEFINE s == Sync(r)
  <2>1. FinishPass(s, {}, wanted)
    BY <1>2 DEF ContinueLeaves
  <2>2. \A b \in r.m.last : b = BlobOf(r.m) => Kept(b, r.d)
    BY DEF Sound, LastStored
  <2>3. /\ s \in Pairs /\ s.m = [r.m EXCEPT !.last = {BlobOf(r.m)}]
        /\ s.d = [r.d EXCEPT !.blob = s.d.blob] /\ Kept(BlobOf(r.m), s.d)
    BY <2>2, SyncFacts
  <2>4. r.m \in MemType /\ r.d \in DiskType
    BY PairParts
  <2> HIDE DEF s
  <2>5. /\ s.m.players = r.m.players /\ s.m.rec = r.m.rec /\ s.m.tagged = r.m.tagged
        /\ s.m.disc = r.m.disc /\ s.m.dirty = r.m.dirty /\ s.m.save = r.m.save
        /\ s.m.auth = r.m.auth /\ s.m.cleanup = r.m.cleanup /\ s.m.ttl = r.m.ttl
        /\ s.m.last = {BlobOf(r.m)}
    BY <2>3, <2>4 DEF MemType
  <2>6. s.d.tagged = r.d.tagged
    BY <2>3, <2>4 DEF DiskType
  <2>7. BlobOf(s.m) = BlobOf(r.m)
    BY <2>5 DEF BlobOf
  <2>8. DirtyHasSave(s) /\ GraceAlone(s)
    BY <2>5 DEF Sound, DirtyHasSave, GraceAlone
  <2>9. Sound(s) /\ Mirrored(s) /\ Backed(s)
    BY <2>3, <2>5, <2>7, <2>8, KeptIsSound
  <2>10. Fit(s) /\ Manned(s)
    BY <2>3, <2>5, <2>6, <2>9 DEF Fit, Untagged, Manned
  <2> QED
    BY <2>1, <2>10, FinishPassStep
<1>3. CASE pass.todo # {}
  <2>1. NextLeave(r, pass.todo, {}) /\ want' = wanted
    BY <1>3 DEF ContinueLeaves
  <2> QED
    BY <1>1, <2>1, NextLeaveStep
<1> QED
  BY <1>2, <1>3

(* onLeave has returned in a pass. *)
LEMMA AlarmLeaveStep ==
  ASSUME IInv, AlarmLeave
  PROVE  IInv'
<1> DEFINE r == Forget(Now, pass.user)
<1>1. /\ pass.stage = "hook"
      /\ IF Deserted(r.m)
         THEN /\ Becomes(r)
              /\ pass' = [pass EXCEPT !.stage = "destroy"]
              /\ UNCHANGED <<sock, owed, want>>
         ELSE ContinueLeaves(r, want)
      /\ UNCHANGED <<who, task, leaves>>
  BY DEF AlarmLeave, Now
<1>2. TypeOK /\ Apt(Now) /\ Manned(Now)
  BY <1>1, PassFacts
<1>3. Apt(r) /\ r.m.players = Now.m.players
  BY <1>2, ForgetKeeps
<1> HIDE DEF r
<1>4. r \in Pairs /\ Sound(r) /\ ~r.m.rec /\ (Plain => Untagged(r)) /\ Manned(r)
  BY <1>2, <1>3 DEF Apt, Manned
<1>5. CASE Deserted(r.m)
  <2>1. /\ Becomes(r) /\ pass' = [pass EXCEPT !.stage = "destroy"]
        /\ UNCHANGED <<sock, owed, want>>
    BY <1>1, <1>5
  <2>2. Quieter
    BY <1>2, <2>1 DEF TypeOK, Quieter
  <2>3. /\ pass' \in [stage : {"idle", "timers", "hook", "destroy"},
                      user : Users \cup {None}, todo : SUBSET Users]
        /\ pass'.stage = "destroy"
    BY <1>2, <2>1 DEF TypeOK
  <2>4. pass' # NoPass /\ ~Early'
    BY <2>3 DEF NoPass, Early
  <2>5. owed' \subseteq Users /\ want' \in [Timers -> BOOLEAN]
    BY <1>2, <2>1 DEF TypeOK
  <2> QED
    BY <1>1, <1>4, <2>1, <2>2, <2>3, <2>4, <2>5, PassLands
<1>6. CASE ~Deserted(r.m)
  <2>1. ContinueLeaves(r, want) /\ want \in [Timers -> BOOLEAN]
    BY <1>1, <1>2, <1>6 DEF TypeOK
  <2> QED
    BY <1>1, <1>4, <2>1, ContinueLeavesStep
<1> QED
  BY <1>5, <1>6

(* ... and onDestroy *)
LEMMA AlarmDestroyStep ==
  ASSUME IInv, AlarmDestroy
  PROVE  IInv'
<1> DEFINE r == Destroyed(Now)
<1>1. /\ pass.stage = "destroy" /\ ContinueLeaves(r, NoTimers)
      /\ UNCHANGED <<who, task, leaves>>
  BY DEF AlarmDestroy, Now
<1>2. Apt(Now) /\ Manned(Now)
  BY <1>1, PassFacts
<1>3. /\ r \in Pairs /\ Settled(r) /\ r.m.players = Now.m.players
      /\ r.m.rec = Now.m.rec /\ ~r.m.tagged /\ ~r.d.tagged
  BY <1>2, DestroyedKeeps DEF Apt
<1> HIDE DEF r
<1>4. Sound(r) /\ ~r.m.rec /\ Untagged(r) /\ Manned(r)
  BY <1>2, <1>3 DEF Apt, Settled, Untagged, Manned
<1>5. NoTimers \in [Timers -> BOOLEAN]
  BY DEF NoTimers
<1> QED
  BY <1>1, <1>3, <1>4, <1>5, ContinueLeavesStep

(* The alarm has gone off: after the recovery that it asks for, the pair   *)
(* is fit and the players are there.                                       *)
LEMMA FiredFacts ==
  ASSUME IInv, pass = NoPass
  PROVE  LET r == [Woken(Listed) EXCEPT !.d.alarm = Null]
             s == IF ShouldRecover(r.m) THEN Recover(r, Listed) ELSE r
         IN Fit(s) /\ Manned(s)
<1> DEFINE w == Woken(Listed)
           d == [w.d EXCEPT !.alarm = Null]
           r == [w EXCEPT !.d.alarm = Null]
           s == IF ShouldRecover(r.m) THEN Recover(r, Listed) ELSE r
<1>0. /\ TypeOK /\ MirrorInv /\ AbsentInv /\ (Plain => WakeInv) /\ LiveAuthedArePlayers
      /\ who \in [Conns -> Users \cup {None}] /\ Now.m = mem /\ Now.d = disk
  BY NowFacts DEF IInv, HeldInv, TypeOK
<1>1. Listed \in SUBSET Conns /\ (Listed = {} => Deserts)
  BY DEF Listed, Deserts
<1>2. /\ w \in Pairs /\ Sound(w) /\ w.d = disk
      /\ awake => w = Now
      /\ ~awake => w.m = [Blank EXCEPT !.rec = Listed # {}]
      /\ ~awake => (w.m.rec <=> Listed # {})
      /\ w.m.rec => Recoverable(w)
      /\ Plain => Untagged(w)
  BY <1>1, WokenFacts
<1> HIDE DEF w
<1>3. w.m \in MemType /\ w.d \in DiskType
  BY <1>2, PairParts
<1>4. r = [m |-> w.m, d |-> d]
  BY <1>2, PairEdit
<1>5. d \in DiskType /\ d.blob = w.d.blob /\ d.tagged = w.d.tagged
  BY <1>3 DEF DiskType
<1>6. r \in Pairs /\ r.m = w.m /\ r.d = d
  BY <1>3, <1>4, <1>5 DEF Pairs
<1> HIDE DEF r, d
<1>7. Alike(w, r)
  BY <1>5, <1>6 DEF Alike
<1>8. Sound(r) /\ (Mirrored(w) => Mirrored(r)) /\ (Backed(w) => Backed(r))
      /\ (Plain => Untagged(r))
  <2>1. Sound(r) /\ (Mirrored(w) => Mirrored(r)) /\ (Backed(w) => Backed(r))
    BY <1>2, <1>7, AlikeKeeps
  <2>2. Plain => Untagged(r)
    BY <1>2, <1>5, <1>6 DEF Untagged
  <2> QED
    BY <2>1, <2>2
<1>9. CASE ShouldRecover(r.m)
  <2>1. /\ Recoverable(r)
        /\ \A u \in Users : Pending(r.d.blob.disc[u]) => \A c \in Listed : who[c] # u
    <3>1. CASE r.m.rec
      <4>1. ~awake \/ mem.rec
        BY <1>0, <1>2, <1>6, <3>1
      <4>2. \A u \in Users : Pending(r.d.blob.disc[u]) => \A c \in Listed : who[c] # u
        BY <1>0, <1>2, <1>5, <1>6, <4>1 DEF AbsentInv, Listed
      <4>3. Recoverable(r)
        BY <1>2, <1>5, <1>6, <3>1 DEF Recoverable, Kept
      <4> QED
        BY <4>2, <4>3
    <3>2. CASE ~r.m.rec
      <4>1. /\ Listed = {} /\ NoPlayers(r.m)
            /\ Deadlines([r.m EXCEPT !.beat = Null]) = {}
        BY <1>9, <3>2 DEF ShouldRecover
      <4> DEFINE m == [r.m EXCEPT !.beat = Null]
      <4>2. /\ m \in MemType /\ m.save = r.m.save /\ m.cleanup = r.m.cleanup
            /\ m.ttl = r.m.ttl
        BY <1>3, <1>6, NullFits DEF MemType
      <4>3. Deadlines(m) = {}
        BY <4>1
      <4> HIDE DEF m
      <4>4. r.m.save = Null /\ r.m.cleanup = Null /\ r.m.ttl = Null
        BY <4>2, <4>3 DEF Deadlines, Pending
      <4>5. ~r.m.dirty
        BY <1>8, <4>4 DEF Sound, DirtyHasSave, Pending
      <4>6. \A b \in r.m.last :
              Kept(b, r.d) /\ b.cleanup = r.d.blob.cleanup /\ b.ttl = r.d.blob.ttl
        <5>1. NoBlob.cleanup = Null /\ NoBlob.ttl = Null
          BY DEF NoBlob
        <5> QED
          BY <1>8, <4>4, <5>1 DEF Sound, LastStored, LastAgrees, Kept
      <4> QED
        BY <1>6, <4>1, <4>5, <4>6 DEF Recoverable
    <3> QED
      BY <3>1, <3>2
  <2>2. s = Recover(r, Listed)
    BY <1>9
  <2> HIDE DEF s
  <2>3. /\ s \in Pairs /\ Settled(s) /\ ~s.m.rec
        /\ s.m.players = Connected(Listed) /\ (Untagged(r) => Untagged(s))
    BY <1>0, <1>1, <2>1, <2>2, RecoverFacts
  <2>4. Fit(s)
    BY <1>8, <2>3 DEF Fit, Settled
  <2>5. Manned(s)
    BY <2>3 DEF Manned, Connected, Listed
  <2> QED
    BY <2>4, <2>5 DEF s, r, w
<1>10. CASE ~ShouldRecover(r.m)
  <2>1. s = r
    BY <1>10
  <2>2. ~r.m.rec
    BY <1>10 DEF ShouldRecover
  <2>3. ASSUME r.m = Blank, Listed = {}
        PROVE  FALSE
    <3>1. Blank.auth = Idle(Conns) /\ Blank.disc = Idle(Users) /\ Blank.timers = Idle(Timers)
          /\ Blank.save = Null /\ Blank.cleanup = Null /\ Blank.ttl = Null
          /\ Blank.beat = Null /\ ~Blank.created /\ Blank.ver = 0 /\ Blank.ps = {}
          /\ ~Blank.tagged /\ NoPlayers(Blank)
      BY DEF Blank, NoPlayers
    <3>2. [Blank EXCEPT !.beat = Null] = Blank
      <4>1. Blank \in MemType
        BY <1>3, <1>6, <2>3
      <4> QED
        BY <3>1, <4>1 DEF MemType
    <3>3. Deadlines(Blank) = {}
      BY <3>1 DEF Deadlines, PendingIn, Idle, Pending
    <3> QED
      BY <1>10, <2>3, <3>1, <3>2, <3>3 DEF ShouldRecover
  <2>4. awake
    <3>1. SUFFICES ASSUME ~awake
                   PROVE  FALSE
      OBVIOUS
    <3>2. Listed = {} /\ w.m = [Blank EXCEPT !.rec = FALSE]
      BY <1>2, <1>6, <2>2, <3>1
    <3>3. w.m = Blank
      BY <3>2 DEF Blank
    <3> QED
      BY <1>6, <2>3, <3>2, <3>3
  <2>5. w = Now /\ ~mem.rec /\ Early
    BY <1>0, <1>2, <1>6, <2>2, <2>4 DEF Early, NoPass
  <2>6. ~Detached
    <3>1. Detached => mem = Blank /\ Listed = {}
      BY DEF Detached, Deserts, Listed
    <3> QED
      BY <1>0, <1>6, <2>3, <2>5, <3>1
  <2>7. Deserts \/ Mirrored(r)
    BY <1>0, <1>8, <2>4, <2>5 DEF MirrorInv
  <2>8. Plain => Untagged(r) /\ Backed(r)
    BY <1>0, <1>8, <2>4, <2>5, <2>6 DEF WakeInv
  <2>9. Manned(r)
    BY <1>0, <1>6, <2>4, <2>5 DEF LiveAuthedArePlayers, Manned
  <2>10. Fit(r)
    BY <1>6, <1>8, <2>2, <2>7, <2>8 DEF Fit
  <2> QED
    BY <2>1, <2>9, <2>10 DEF r, w
<1> QED
  BY <1>9, <1>10

(* The alarm goes off: recovery, the auth deadlines, the named timers. *)
LEMMA AlarmFireStep ==
  ASSUME IInv, AlarmFire
  PROVE  IInv'
<1> DEFINE r == [Woken(Listed) EXCEPT !.d.alarm = Null]
           r1 == IF ShouldRecover(r.m) THEN Recover(r, Listed) ELSE r
           late == DueIn(r1.m.auth)
           mute == {c \in late : who[c] = None}
           m == [r1.m EXCEPT !.auth = Without(r1.m.auth, late)]
           q == [m |-> m, d |-> r1.d]
           r2 == IF late = {} THEN r1 ELSE Sync(q)
           fired == DueIn(r2.m.timers)
           f == Without(r2.m.timers, fired)
           s == [m |-> [r2.m EXCEPT !.timers = f], d |-> r2.d]
<1>1. TypeOK /\ pass = NoPass
  BY DEF IInv, AlarmFire
<1>2. Fit(r1) /\ Manned(r1)
  BY <1>1, FiredFacts
<1>3. /\ IF fired = {}
         THEN StartLeaves(r2, mute)
         ELSE /\ Becomes([r2 EXCEPT !.m.timers = Without(@, fired)])
              /\ sock' = Closing(mute)
              /\ pass' = [NoPass EXCEPT !.stage = "timers"]
              /\ want' = [t \in Timers |-> want[t] /\ t \notin fired]
              /\ UNCHANGED owed
      /\ UNCHANGED <<who, task, leaves>>
  <2>1. [r1 EXCEPT !.m.auth = Without(@, late)] = q
    <3> HIDE DEF r1, late
    <3> QED
      BY <1>2, PairEdit DEF Fit
  <2> DEFINE p2 == IF late = {} THEN r1 ELSE Sync([r1 EXCEPT !.m.auth = Without(@, late)])
  <2>2. p2 = r2
    <3> HIDE DEF r1, late, q
    <3> QED
      BY <2>1
  <2>3. /\ IF DueIn(p2.m.timers) = {}
           THEN StartLeaves(p2, mute)
           ELSE /\ Becomes([p2 EXCEPT !.m.timers = Without(@, DueIn(p2.m.timers))])
                /\ sock' = Closing(mute)
                /\ pass' = [NoPass EXCEPT !.stage = "timers"]
                /\ want' = [t \in Timers |-> want[t] /\ t \notin DueIn(p2.m.timers)]
                /\ UNCHANGED owed
        /\ UNCHANGED <<who, task, leaves>>
    BY DEF AlarmFire
  <2> HIDE DEF p2, r2, mute
  <2> QED
    BY <2>2, <2>3
<1> HIDE DEF r1, mute
<1>4. r1 \in Pairs /\ r1.m \in MemType /\ r1.d \in DiskType /\ Sound(r1)
  BY <1>2, PairParts DEF Fit
<1>5. Fit(r2) /\ r2.m.players = r1.m.players
  <2>1. CASE late = {}
    <3>1. r2 = r1
      BY <2>1
    <3> HIDE DEF r2
    <3> QED
      BY <1>2, <3>1
  <2>2. CASE late # {}
    <3>1. r2 = Sync(q)
      BY <2>2
    <3>2. Without(r1.m.auth, late) \in [Conns -> Delays(AuthTimeout)]
      BY <1>4, NullFits DEF MemType, Without
    <3> HIDE DEF r2, late
    <3>3. /\ m \in MemType /\ m.players = r1.m.players /\ m.last = r1.m.last
          /\ m.disc = r1.m.disc /\ m.save = r1.m.save
          /\ m.dirty = r1.m.dirty /\ m.rec = r1.m.rec /\ m.tagged = r1.m.tagged
      BY <1>4, <3>2 DEF MemType
    <3>4. q \in Pairs /\ q.m = m /\ q.d = r1.d
      BY <1>4, <3>3 DEF Pairs
    <3> HIDE DEF m, q
    <3>5. /\ LastStored(q) /\ GraceAlone(q) /\ (Plain => Untagged(q))
      BY <1>2, <1>4, <3>3, <3>4 DEF Sound, LastStored, GraceAlone, Fit, Untagged
    <3>6. DirtyHasSave(q)
      <4>1. DirtyHasSave(r1)
        BY <1>4 DEF Sound
      <4> QED
        BY <3>3, <3>4, <4>1 DEF DirtyHasSave
    <3>7. \A b \in q.m.last : b = BlobOf(q.m) => Kept(b, q.d)
      BY <3>5 DEF LastStored
    <3> QED
      BY <1>2, <3>1, <3>3, <3>4, <3>5, <3>6, <3>7, SyncFit
  <2> QED
    BY <2>1, <2>2
<1> HIDE DEF r2
<1>6. Manned(r2)
  BY <1>2, <1>5 DEF Manned
<1>7. CASE fired = {}
  BY <1>3, <1>5, <1>6, <1>7, StartLeavesStep
<1>8. CASE fired # {}
  <2>1. r2 \in Pairs /\ r2.m \in MemType /\ r2.d \in DiskType /\ Sound(r2) /\ ~r2.m.rec
    BY <1>5, PairParts DEF Fit
  <2>2. [r2 EXCEPT !.m.timers = Without(@, fired)] = s
    <3> HIDE DEF fired
    <3> QED
      BY <2>1, PairEdit
  <2>3. /\ Becomes(s) /\ sock' = Closing(mute)
        /\ pass' = [NoPass EXCEPT !.stage = "timers"]
        /\ want' = [t \in Timers |-> want[t] /\ t \notin fired]
        /\ UNCHANGED owed
    <3> HIDE DEF s, fired
    <3> QED
      BY <1>3, <1>8, <2>2
  <2>4. f \in TimersType
    BY <2>1 DEF MemType, TimersType, Without
  <2> HIDE DEF f, fired
  <2> DEFINE m2 == [r2.m EXCEPT !.timers = f]
  <2>5. /\ m2 \in MemType /\ m2.players = r2.m.players /\ m2.last = r2.m.last
        /\ m2.auth = r2.m.auth /\ m2.disc = r2.m.disc /\ m2.save = r2.m.save
        /\ m2.cleanup = r2.m.cleanup /\ m2.ttl = r2.m.ttl /\ m2.dirty = r2.m.dirty
        /\ m2.rec = r2.m.rec /\ m2.tagged = r2.m.tagged
    BY <2>1, <2>4 DEF MemType
  <2>6. s \in Pairs /\ s.m = m2 /\ s.d = r2.d
    BY <2>1, <2>5 DEF Pairs
  <2> HIDE DEF m2, s
  <2>7. Alike(r2, s)
    BY <2>5, <2>6 DEF Alike
  <2>8. Sound(s) /\ (Mirrored(r2) => Mirrored(s)) /\ (Backed(r2) => Backed(s))
    BY <2>1, <2>7, AlikeKeeps
  <2>9. ~s.m.rec /\ Manned(s) /\ (Plain => Untagged(s) /\ Backed(s)) /\ (Deserts \/ Mirrored(s))
    BY <1>5, <1>6, <2>1, <2>5, <2>6, <2>8 DEF Fit, Manned, Untagged
  <2>10. Quieter
    BY <1>1, <2>3, ClosingFacts
  <2>11. /\ pass' \in [stage : {"idle", "timers", "hook", "destroy"},
                       user : Users \cup {None}, todo : SUBSET Users]
         /\ pass' # NoPass
    BY <2>3 DEF NoPass
  <2>12. owed' \subseteq Users /\ want' \in [Timers -> BOOLEAN]
    BY <1>1, <2>3 DEF TypeOK
  <2> QED
    BY <1>3, <2>3, <2>6, <2>8, <2>9, <2>10, <2>11, <2>12, PassLands
<1> QED
  BY <1>7, <1>8

-----------------------------------------------------------------------------
(* The invariant                                                           *)

(* A room that was never used holds nothing. *)
LEMMA InitStep ==
  ASSUME Init
  PROVE  IInv
<1>1. /\ awake = FALSE /\ mem = Blank /\ leaves = {} /\ pass = NoPass /\ owed = {}
      /\ disk = [blob |-> NoBlob, state |-> NoState, timers |-> Idle(Timers),
                 tagged |-> FALSE, alarm |-> Null]
      /\ sock = [c \in Conns |-> "none"] /\ who = [c \in Conns |-> None]
      /\ task = [c \in Conns |-> "idle"] /\ want = [t \in Timers |-> FALSE]
  BY DEF Init
<1>2. /\ Blank \in MemType /\ ~Blank.rec /\ Blank.last = {} /\ ~Blank.dirty
      /\ ~Blank.tagged /\ Blank.save = Null /\ Deadlines(Blank) = {}
      /\ \A c \in Conns : Blank.players[c] = None /\ ~Pending(Blank.auth[c])
      /\ \A u \in Users : Blank.disc[u] = Null
  <2>1. FALSE \in BOOLEAN
    OBVIOUS
  <2>2. [Blank EXCEPT !.rec = FALSE] = Blank
    BY <2>1, BlankFacts
  <2> QED
    BY <2>1, <2>2, BlankFacts
<1>3. /\ disk.blob = NoBlob /\ ~disk.tagged /\ disk.alarm = Null
      /\ disk.state = NoState /\ disk.timers = Idle(Timers)
  BY <1>1
<1>4. disk \in DiskType
  BY <1>1, EmptyTypes DEF DiskType
<1>5. TypeOK
  <2>1. /\ awake \in BOOLEAN /\ (~awake => mem = Blank /\ pass = NoPass /\ leaves = {})
        /\ mem \in MemType /\ (\A a, b \in mem.last : a = b)
    BY <1>1, <1>2
  <2>2. RestType
    BY <1>1 DEF RestType, NoPass
  <2> QED
    BY <1>4, <2>1, <2>2 DEF TypeOK, RestType
<1>6. Now.m = Blank /\ Now.d = disk
  BY <1>1 DEF Now
<1>7. \A u \in Users : ~Pending(disk.blob.disc[u])
  BY <1>3 DEF NoBlob, Idle, Pending
<1>8. SoundInv
  <2>1. Sound(Now)
    BY <1>2, <1>6 DEF Sound, LastStored, LastAgrees, Stored, DirtyHasSave, GraceAlone,
                      Pending
  <2>2. Covered(Now)
    BY <1>2, <1>6 DEF Covered
  <2> QED
    BY <2>1, <2>2 DEF SoundInv
<1>9. RecInv /\ AbsentInv /\ MirrorInv
  BY <1>1, <1>2, <1>7 DEF RecInv, AbsentInv, MirrorInv
<1>10. WakeInv
  BY <1>1, <1>2, <1>3, <1>6 DEF WakeInv, Untagged, Wakes
<1>11. TaskInv /\ LiveAuthedArePlayers
  BY <1>1 DEF TaskInv, LiveAuthedArePlayers
<1> QED
  BY <1>5, <1>8, <1>9, <1>10, <1>11 DEF IInv, HeldInv

(* Every step of the room keeps the invariant. *)
LEMMA NextStep ==
  ASSUME IInv, Next
  PROVE  IInv'
<1>1. CASE Peek
  BY <1>1, PeekStep
<1>2. CASE HookCall
  BY <1>2, CallStep
<1>3. CASE AlarmFire
  BY <1>3, AlarmFireStep
<1>4. CASE AlarmTimers
  BY <1>4, AlarmTimersStep
<1>5. CASE AlarmLeave
  BY <1>5, AlarmLeaveStep
<1>6. CASE AlarmDestroy
  BY <1>6, AlarmDestroyStep
<1>7. CASE Hibernate
  BY <1>7, HibernateStep
<1>8. CASE Tick
  BY <1>8, TickStep
<1>9. ASSUME NEW c \in Conns, Upgrade(c)
      PROVE  IInv'
  BY <1>9, UpgradeStep
<1>10. ASSUME NEW c \in Conns, Ping(c) \/ Revoke(c) \/ JoinDenied(c)
       PROVE  IInv'
  BY <1>10, PingStep
<1>11. ASSUME NEW c \in Conns, MsgAuth(c)
       PROVE  IInv'
  BY <1>11, MsgAuthStep
<1>12. ASSUME NEW c \in Conns, AuthFail(c) \/ JoinRejected(c)
       PROVE  IInv'
  BY <1>12, RejectStep
<1>13. ASSUME NEW c \in Conns, MsgJoin(c)
       PROVE  IInv'
  BY <1>13, MsgJoinStep
<1>14. ASSUME NEW c \in Conns, JoinOk(c)
       PROVE  IInv'
  BY <1>14, JoinOkStep
<1>15. ASSUME NEW c \in Conns, MsgLeave(c)
       PROVE  IInv'
  BY <1>15, MsgLeaveStep
<1>16. ASSUME NEW c \in Conns, MsgSend(c)
       PROVE  IInv'
  BY <1>16, CallStep
<1>17. ASSUME NEW c \in Conns, NEW u \in Users, AuthOk(c, u)
       PROVE  IInv'
  BY <1>17, AuthOkStep
<1>18. ASSUME NEW c \in Conns, NEW final \in BOOLEAN, NEW listed \in BOOLEAN,
              Close(c, final, listed)
       PROVE  IInv'
  BY <1>18, CloseStep
<1>19. ASSUME NEW l \in leaves, LeaveHook(l)
       PROVE  IInv'
  BY <1>19, LeaveHookStep
<1>20. ASSUME NEW l \in leaves, LeaveDestroy(l)
       PROVE  IInv'
  BY <1>20, LeaveDestroyStep
<1> QED
  BY <1>1, <1>2, <1>3, <1>4, <1>5, <1>6, <1>7, <1>8, <1>9, <1>10, <1>11, <1>12,
     <1>13, <1>14, <1>15, <1>16, <1>17, <1>18, <1>19, <1>20 DEF Next

(* A step that changes nothing keeps it, too. *)
LEMMA StutterStep ==
  ASSUME IInv, UNCHANGED vars
  PROVE  IInv'
<1>1. /\ TypeOK /\ Sound(Now) /\ (pass = NoPass => Covered(Now)) /\ RecInv
      /\ MirrorInv /\ AbsentInv /\ (Plain => WakeInv) /\ TaskInv /\ LiveAuthedArePlayers
  BY DEF IInv, HeldInv, SoundInv
<1>2. UNCHANGED <<awake, mem, disk, sock, who, task, leaves, pass, owed, want>>
  BY DEF vars
<1>3. Now \in Pairs /\ Now.m = mem /\ Now.d = disk
  BY <1>1, NowFacts
<1> DEFINE s == Now
<1>4. awake' /\ ~s.m.rec /\ Early' => Deserts' \/ Mirrored(s)
  BY <1>1, <1>2, <1>3 DEF MirrorInv, Early, Deserts
<1>5. Plain => /\ Untagged(s)
               /\ awake' /\ ~s.m.rec /\ Early' => Backed(s) \/ Detached'
               /\ pass' = NoPass => Wakes(s)
  BY <1>1, <1>2, <1>3 DEF WakeInv, Early, Detached, Deserts
<1>6. s.m.rec => /\ pass' = NoPass /\ leaves' = {}
                 /\ \A c \in Conns : task'[c] = "idle"
                 /\ Untouched(s)
  BY <1>1, <1>2, <1>3 DEF RecInv, Untouched
<1>7. ~awake' \/ s.m.rec =>
        \A u \in Users : Pending(s.d.blob.disc[u]) =>
          \A c \in Conns : sock'[c] # "none" => who'[c] # u
  BY <1>1, <1>2, <1>3 DEF AbsentInv
<1>8. s \in Pairs /\ Sound(s) /\ mem' = s.m /\ disk' = s.d /\ (pass' = NoPass => Covered(s))
  BY <1>1, <1>2, <1>3
<1> HIDE DEF s
<1>9. HeldInv'
  BY <1>4, <1>5, <1>6, <1>7, <1>8, LandsAny
<1>10. TypeOK' /\ TaskInv' /\ LiveAuthedArePlayers'
  BY <1>1, <1>2 DEF TypeOK, TaskInv, LiveAuthedArePlayers
<1> QED
  BY <1>9, <1>10 DEF IInv

-----------------------------------------------------------------------------
(* The theorems                                                            *)

(* The inductive invariant holds in every reachable state: whichever       *)
(* handlers, closes, kicks, hooks, hibernations, recoveries and alarm      *)
(* passes of RoomRuntimeBaseDO follow one another.                         *)
THEOREM RoomInvariance == Spec => []IInv
<1>1. Init => IInv
  BY InitStep
<1>2. IInv /\ [Next]_vars => IInv'
  BY NextStep, StutterStep
<1> QED
  BY <1>1, <1>2, PTL DEF Spec

(* Every field of the instance, of its storage and of the sockets keeps    *)
(* its type, whatever the delays: each deadline stays within the delay it  *)
(* was set with, through Elapse, the blob and recovery.                    *)
THEOREM RoomTypes == Spec => []TypeOK
<1>1. IInv => TypeOK
  BY DEF IInv
<1> QED
  BY <1>1, RoomInvariance, PTL

(* _scheduleNextAlarm is called after whatever set, cleared or overwrote a *)
(* deadline: the one platform alarm is never later than any of them.       *)
THEOREM AlarmNeverLate == Spec => []AlarmCoversDeadlines
<1>1. IInv => AlarmCoversDeadlines
  <2>1. SUFFICES ASSUME IInv, pass = NoPass
                 PROVE  \A d \in Deadlines(mem) : Pending(disk.alarm) /\ disk.alarm <= Max({1, d})
    BY DEF AlarmCoversDeadlines
  <2>2. Covered(Now) /\ Now.m = mem /\ Now.d = disk
    BY <2>1, NowFacts DEF IInv, HeldInv, SoundInv
  <2> QED
    BY <2>2 DEF Covered
<1> QED
  BY <1>1, RoomInvariance, PTL

(* A grace period runs only for a user without a connection, also when     *)
(* handleAuth, handleDisconnect and recoverRuntimeStateFromSockets come in *)
(* an order that hibernation made.                                         *)
THEOREM GraceIsForAbsentUsers == Spec => []GraceOnlyWhenAbsent
<1>1. IInv => GraceOnlyWhenAbsent
  <2>1. SUFFICES ASSUME IInv, NEW u \in PendingIn(mem.disc)
                 PROVE  ConnsOf(mem, u) = {}
    BY DEF GraceOnlyWhenAbsent
  <2>2. TypeOK /\ GraceAlone(Now)
    BY <2>1 DEF IInv, HeldInv, SoundInv, Sound
  <2>3. u \in Users /\ Pending(mem.disc[u])
    BY <2>1, <2>2 DEF TypeOK, MemType, PendingIn
  <2> QED
    BY <2>2, <2>3, NowFacts DEF GraceAlone, ConnsOf
<1> QED
  BY <1>1, RoomInvariance, PTL

(* Hibernation and recovery lose no connected player: an authenticated     *)
(* open socket is a player until its own leave, close or kick begins.      *)
THEOREM ConnectedUsersArePlayers == Spec => []LiveAuthedArePlayers
<1>1. IInv => LiveAuthedArePlayers
  BY DEF IInv
<1> QED
  BY <1>1, RoomInvariance, PTL

(* What the instance waits for is in the stored blob: the write guard of   *)
(* syncEphemeralTimersToStorage never skips a write that is needed, also   *)
(* after deleteAll or a cleanup removed the blob behind it.                *)
THEOREM NoDeadlineIsLost == Spec => []DeadlinesAreStored
<1>1. IInv => DeadlinesAreStored
  <2>1. SUFFICES ASSUME IInv
                 PROVE  /\ \A c \in PendingIn(mem.auth) : disk.blob.auth[c] = mem.auth[c]
                        /\ \A u \in PendingIn(mem.disc) : disk.blob.disc[u] = mem.disc[u]
                        /\ Pending(mem.save) => disk.blob.save = mem.save
    BY DEF DeadlinesAreStored
  <2>2. TypeOK /\ Stored(Now)
    BY <2>1 DEF IInv, HeldInv, SoundInv, Sound
  <2>3. /\ \A c \in PendingIn(mem.auth) : c \in Conns /\ Pending(mem.auth[c])
        /\ \A u \in PendingIn(mem.disc) : u \in Users /\ Pending(mem.disc[u])
    BY <2>2 DEF TypeOK, MemType, PendingIn
  <2> QED
    BY <2>2, <2>3, NowFacts DEF Stored
<1> QED
  BY <1>1, RoomInvariance, PTL

(* Unsaved state has its save scheduled in memory, in the blob and by the  *)
(* alarm, through every order of markDirty, a reverted update, a save, a   *)
(* cleanup and the end of the room.                                        *)
THEOREM UnsavedStateIsScheduled == Spec => []DirtyWillBeSaved
<1>1. IInv => DirtyWillBeSaved
  <2>1. SUFFICES ASSUME IInv, mem.dirty, pass = NoPass
                 PROVE  /\ Pending(mem.save) /\ Pending(disk.blob.save)
                        /\ Pending(disk.alarm) /\ disk.alarm <= Max({1, mem.save})
    BY DEF DirtyWillBeSaved
  <2>2. /\ TypeOK /\ Stored(Now) /\ DirtyHasSave(Now) /\ Covered(Now)
        /\ Now.m = mem /\ Now.d = disk
    BY <2>1, NowFacts DEF IInv, HeldInv, SoundInv, Sound
  <2>3. Pending(mem.save)
    BY <2>1, <2>2 DEF DirtyHasSave
  <2>4. Pending(disk.blob.save)
    BY <2>2, <2>3 DEF Stored
  <2>5. mem.save \in Deadlines(mem)
    BY <2>3 DEF Deadlines
  <2> QED
    BY <2>2, <2>3, <2>4, <2>5 DEF Covered
<1> QED
  BY <1>1, RoomInvariance, PTL

(* While the application and its clients leave the metadata alone, a       *)
(* stored blob with a deadline never stays without an alarm: an evicted    *)
(* room is woken again to finish its cleanup.                              *)
THEOREM EvictedRoomsWake ==
  ASSUME Plain
  PROVE  Spec => []StoredDeadlinesWake
<1>1. IInv => StoredDeadlinesWake
  BY NowFacts DEF IInv, HeldInv, WakeInv, Wakes, StoredDeadlinesWake
<1> QED
  BY <1>1, RoomInvariance, PTL

=============================================================================
