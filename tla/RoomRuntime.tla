---------------------------- MODULE RoomRuntime ----------------------------
(***************************************************************************)
(* One room: RoomRuntimeBaseDO                                             *)
(* (packages/server/src/durable-objects/room-runtime-base.ts), a Durable   *)
(* Object that keeps its runtime state in memory, its deadlines in one     *)
(* storage blob and a single platform alarm, and that may be hibernated    *)
(* whenever it is idle, with its sockets still connected.                  *)
(*                                                                         *)
(* Grain of atomicity: the platform's input gate delivers no event while   *)
(* the object waits for its own storage, so a handler is one step up to    *)
(* its next wait for something else: a hook of the application or the auth *)
(* service.                                                                *)
(*                                                                         *)
(* Time: a deadline is the number of time units left until it is due.      *)
(* 0 is due, Null is not pending.                                          *)
(***************************************************************************)
EXTENDS Integers, FiniteSets, FiniteSetsExt

CONSTANTS
  Conns,            \* connection ids
  Users,            \* user ids
  Timers,           \* names of the application's timers
  None,             \* no user
  Uses,             \* what the application, its clients and the platform do
  MaxPlayers,
  AuthTimeout, Heartbeat, ReconnectTimeout, SaveInterval,
  CleanupDelay,     \* EMPTY_ROOM_CLEANUP_DELAY_MS
  IdleTimeout,      \* DEFAULT_IDLE_TIMEOUT_SEC
  StateTTL,
  TimerDelays,      \* the delays the application passes to setTimer
  MaxVer            \* bound on sharedVersion

AllUses == {"hibernate", "state", "oversize", "save", "metadata", "kick",
            "revoke", "resume", "join"}

ASSUME RoomAssumption ==
  /\ IsFiniteSet(Conns) /\ IsFiniteSet(Users) /\ IsFiniteSet(Timers)
  /\ None \notin Users
  /\ Uses \subseteq AllUses
  /\ \A d \in {MaxPlayers, AuthTimeout, Heartbeat, SaveInterval, CleanupDelay,
               IdleTimeout, StateTTL} : d \in Nat \ {0}
  /\ ReconnectTimeout \in Nat /\ MaxVer \in Nat /\ TimerDelays \subseteq Nat

VARIABLES
  awake,   \* is there an instance in memory?
  mem,     \* its fields (Blank when there is none)
  disk,    \* ctx.storage, with the alarm
  sock,    \* [Conns -> SockStates]: the platform's sockets
  who,     \* [Conns -> user]: the user of the socket's attachment
  task,    \* [Conns -> TaskStates]: the message of this socket under way
  leaves,  \* calls of finalizePlayerLeave under way, the alarm's excepted
  pass,    \* the call of alarm() under way
  owed,    \* users whose onLeave has not begun since they connected (history)
  want     \* [Timers -> BOOLEAN]: set, and neither cleared nor fired (history)

vars == <<awake, mem, disk, sock, who, task, leaves, pass, owed, want>>

-----------------------------------------------------------------------------
(* Deadlines *)

Null == -1
Due(d) == d = 0
Pending(d) == d # Null
(* Mutant: no floor under a deadline *)
MutElapse(d) == d - 1
Elapse(d) == IF d > 0 THEN d - 1 ELSE d
ElapseAll(f) == [x \in DOMAIN f |-> Elapse(f[x])]
PendingIn(f) == {x \in DOMAIN f : Pending(f[x])}
DueIn(f) == {x \in DOMAIN f : Due(f[x])}
Without(f, S) == [x \in DOMAIN f |-> IF x \in S THEN Null ELSE f[x]]

Idle(S) == [x \in S |-> Null]

(* PersistedRoomEphemeralTimers; an absent blob is one with nothing pending *)
NoBlob == [auth |-> Idle(Conns), disc |-> Idle(Users), save |-> Null,
           cleanup |-> Null, ttl |-> Null]

(* roomState: the version saved, the users with a player state, and the    *)
(* time left until it counts as expired                                    *)
NoState == [ver |-> 0, ps |-> {}, left |-> Null]

(* The fields of a new instance.  `last` holds the blob written last by    *)
(* this instance (_lastPersistedEphemeralBlob), {} for undefined.          *)
Blank == [players |-> [c \in Conns |-> None], auth |-> Idle(Conns),
          disc |-> Idle(Users), timers |-> Idle(Timers), save |-> Null,
          cleanup |-> Null, ttl |-> Null, beat |-> Null, ver |-> 0, ps |-> {},
          created |-> FALSE, dirty |-> FALSE, tagged |-> FALSE, rec |-> FALSE,
          last |-> {}]

NoPass == [stage |-> "idle", user |-> None, todo |-> {}]

Init ==
  /\ awake = FALSE
  /\ mem = Blank
  /\ disk = [blob |-> NoBlob, state |-> NoState, timers |-> Idle(Timers),
             tagged |-> FALSE, alarm |-> Null]
  /\ sock = [c \in Conns |-> "none"]
  /\ who = [c \in Conns |-> None]
  /\ task = [c \in Conns |-> "idle"]
  /\ leaves = {}
  /\ pass = NoPass
  /\ owed = {}
  /\ want = [t \in Timers |-> FALSE]

-----------------------------------------------------------------------------
(* The steps handlers are made of.  Each maps a pair r of memory and       *)
(* storage to the pair it leaves.                                          *)

(* ctx.getWebSockets(): a socket that is being closed is still listed *)
Listed == {c \in Conns : sock[c] # "none"}

ConnsOf(m, u) == {c \in Conns : m.players[c] = u}
NoPlayers(m) == \A c \in Conns : m.players[c] = None
Deserted(m) == NoPlayers(m) /\ PendingIn(m.disc) = {}

Deadlines(m) ==
  {m.timers[t] : t \in PendingIn(m.timers)}
    \cup {m.auth[c] : c \in PendingIn(m.auth)}
    \cup {m.disc[u] : u \in PendingIn(m.disc)}
    \cup {d \in {m.cleanup, m.save, m.ttl, m.beat} : Pending(d)}

(* Mutant: an alarm that is set is never brought forward *)
MutArm(r) ==
  LET D == Deadlines(r.m)
  IN IF D = {} \/ Pending(r.d.alarm) THEN r
     ELSE [r EXCEPT !.d.alarm = Max({1, Min(D)})]

(* _scheduleNextAlarm: never at or before now, untouched if nothing pends *)
Arm(r) ==
  LET D == Deadlines(r.m)
  IN IF D = {} THEN r ELSE [r EXCEPT !.d.alarm = Max({1, Min(D)})]

(* the deadlines of an instance that its blob holds *)
BlobOf(m) == [auth |-> m.auth, disc |-> m.disc, save |-> m.save,
              cleanup |-> m.cleanup, ttl |-> m.ttl]

(* Mutant: the write guard does not look at the grace periods *)
MutSync(r) ==
  LET b == BlobOf(r.m)
  IN IF \E x \in r.m.last : [x EXCEPT !.disc = b.disc] = b THEN r
     ELSE [r EXCEPT !.m.last = {b}, !.d.blob = b]

(* syncEphemeralTimersToStorage, with the guard against rewriting the same *)
(* content.  A write that fails is not modelled, nor what its catch takes  *)
(* back of the guard: the properties about the blob are those of writes    *)
(* that succeed.                                                           *)
Sync(r) ==
  LET b == BlobOf(r.m)
  IN IF r.m.last = {b} THEN r ELSE [r EXCEPT !.m.last = {b}, !.d.blob = b]

SyncArm(r) == Arm(Sync(r))

MarkDirty(r) ==
  IF Pending(r.m.save)
  THEN Arm([r EXCEPT !.m.dirty = TRUE])
  ELSE SyncArm([r EXCEPT !.m = [@ EXCEPT !.dirty = TRUE, !.save = SaveInterval]])

PersistState(r) ==
  SyncArm([m |-> [r.m EXCEPT !.dirty = FALSE, !.save = Null, !.ttl = StateTTL],
           d |-> [r.d EXCEPT
             !.state = [ver |-> r.m.ver, ps |-> r.m.ps, left |-> StateTTL],
             !.timers = r.m.timers]])

ScheduleEmptyRoomCleanup(r) ==
  SyncArm([r EXCEPT !.m.cleanup = CleanupDelay])

CleanupIfDeserted(r) ==
  IF Deserted(r.m) THEN ScheduleEmptyRoomCleanup(r) ELSE r

DeleteStored(r) ==
  [r EXCEPT !.d = [@ EXCEPT !.blob = NoBlob, !.state = NoState,
                            !.timers = Idle(Timers), !.tagged = FALSE]]

(* pendingAuth.delete(c) and disconnectTimers.delete(u), which sync and    *)
(* re-arm only when there was an entry                                     *)
DropAuth(r, c) ==
  IF Pending(r.m.auth[c]) THEN SyncArm([r EXCEPT !.m.auth[c] = Null]) ELSE r

(* Mutant: a reconnect leaves the grace period running *)
MutDropDisc(r, u) == r

DropDisc(r, u) ==
  IF Pending(r.m.disc[u]) THEN SyncArm([r EXCEPT !.m.disc[u] = Null]) ELSE r

EnsureBeat(r, listed) ==
  IF listed = {} THEN [r EXCEPT !.m.beat = Null]
  ELSE IF Pending(r.m.beat) /\ r.m.beat <= Heartbeat THEN r
  ELSE Arm([r EXCEPT !.m.beat = Heartbeat])

(* recoverFromStorage *)
RecoverFromStorage(r) ==
  LET kept == r.d.state.left > 0
      d1 == IF kept THEN r.d
            ELSE [r.d EXCEPT !.state = NoState, !.timers = Idle(Timers)]
      b == d1.blob
  IN Arm([m |-> [r.m EXCEPT
            !.ver = IF kept THEN d1.state.ver ELSE @,
            !.ps = IF kept THEN d1.state.ps ELSE @,
            !.timers = IF PendingIn(d1.timers) # {} THEN d1.timers ELSE @,
            !.tagged = @ \/ d1.tagged,
            !.auth = b.auth, !.disc = b.disc, !.save = b.save,
            !.cleanup = b.cleanup, !.ttl = b.ttl, !.beat = Null],
          d |-> d1])

(* Mutant: the players are not rebuilt *)
MutRecoverFromSockets(r, listed) == EnsureBeat(r, listed)

(* recoverRuntimeStateFromSockets: the authenticated sockets are players *)
RecoverFromSockets(r, listed) ==
  LET authed == {c \in listed : who[c] # None}
      r1 == [r EXCEPT !.m = [@ EXCEPT
        !.players = [c \in Conns |-> IF c \in authed THEN who[c] ELSE None],
        !.auth = Without(r.m.auth, authed)]]
  IN EnsureBeat(IF r1.m.auth = r.m.auth THEN r1 ELSE SyncArm(r1), listed)

Recover(r, listed) ==
  LET r1 == RecoverFromSockets(RecoverFromStorage(r), listed)
  IN [r1 EXCEPT !.m.rec = FALSE]

(* The instance an event finds: if none is in memory the constructor runs, *)
(* and asks for recovery only when it sees sockets.                        *)
Woken(listed) ==
  [m |-> IF awake THEN mem ELSE [Blank EXCEPT !.rec = listed # {}],
   d |-> disk]

(* ... after recoverStateIfNeeded *)
Ready ==
  LET r == Woken(Listed) IN IF r.m.rec THEN Recover(r, Listed) ELSE r

Becomes(r) == awake' = TRUE /\ mem' = r.m /\ disk' = r.d

-----------------------------------------------------------------------------
(* fetch: upgrades and metadata *)

(* A fresh connectionId: nothing remembers it. *)
Fresh(c) ==
  /\ sock[c] = "none" /\ task[c] = "idle"
  /\ mem.players[c] = None /\ ~Pending(mem.auth[c])
  /\ ~Pending(disk.blob.auth[c])
  /\ \A l \in leaves : c \notin l.conns

Upgrade(c) ==
  LET r == Woken(Listed)
      r1 == EnsureBeat(r, Listed \cup {c})
  IN /\ Fresh(c)
     /\ Cardinality({x \in Conns : r.m.players[x] # None}) < MaxPlayers
     /\ Becomes(SyncArm([r1 EXCEPT !.m.auth[c] = AuthTimeout]))
     /\ sock' = [sock EXCEPT ![c] = "open"]
     /\ UNCHANGED <<who, task, leaves, pass, owed, want>>

(* GET /metadata: wakes the object, recovers nothing but the metadata.  A  *)
(* refused upgrade and GET /internal/stats do the same without metadata.   *)
Peek ==
  LET r == Woken(Listed)
      load == "metadata" \in Uses /\ ~r.m.tagged
  IN /\ Becomes([r EXCEPT !.m.tagged = IF load THEN r.d.tagged ELSE @])
     /\ UNCHANGED <<sock, who, task, leaves, pass, owed, want>>

-----------------------------------------------------------------------------
(* Messages.  Those of one socket run one after the other.                 *)

Serves(c) == sock[c] = "open" /\ task[c] = "idle"
Closing(S) == [c \in Conns |-> IF c \in S /\ sock[c] = "open" THEN "closing" ELSE sock[c]]

(* A message that changes no state of the room: ping, a refreshed token, a *)
(* refused or malformed message, anything unauthenticated                  *)
Ping(c) ==
  /\ Serves(c)
  /\ Becomes(Ready)
  /\ UNCHANGED <<sock, who, task, leaves, pass, owed, want>>

(* handleAuth up to its wait for the auth service *)
MsgAuth(c) ==
  /\ Serves(c) /\ who[c] = None
  /\ Becomes(Ready)
  /\ task' = [task EXCEPT ![c] = "auth"]
  /\ UNCHANGED <<sock, who, leaves, pass, owed, want>>

(* ... and after it.  Nothing asks whether the socket is still there.      *)
AuthOk(c, u) ==
  LET r == DropDisc(DropAuth([m |-> mem, d |-> disk], c), u)
  IN /\ task[c] = "auth"
     /\ Becomes([r EXCEPT !.m.players[c] = u])
     /\ who' = [who EXCEPT ![c] = IF sock[c] = "none" THEN None ELSE u]
     /\ owed' = IF sock[c] = "none" THEN owed ELSE owed \cup {u}
     /\ task' = [task EXCEPT ![c] = "idle"]
     /\ UNCHANGED <<sock, leaves, pass, want>>

(* A rejected token closes the socket; an unavailable auth service leaves  *)
(* it open.                                                                *)
AuthFail(c) ==
  /\ task[c] = "auth"
  /\ \E S \in {{}, {c}} : sock' = Closing(S)
  /\ task' = [task EXCEPT ![c] = "idle"]
  /\ UNCHANGED <<awake, mem, disk, who, leaves, pass, owed, want>>

(* ensureLiveSessionAuthority finds the session revoked, for a message or  *)
(* for a broadcast *)
Revoke(c) ==
  /\ "revoke" \in Uses
  /\ sock[c] = "open" /\ who[c] # None
  /\ Becomes(Ready)
  /\ sock' = Closing({c})
  /\ UNCHANGED <<who, task, leaves, pass, owed, want>>

(* handleJoin up to its wait for onCreate and onJoin, if access.join says  *)
(* yes *)
MsgJoin(c) ==
  LET r == Ready
  IN /\ "join" \in Uses
     /\ Serves(c) /\ who[c] # None
     /\ Becomes([r EXCEPT !.m.created = TRUE])
     /\ task' = [task EXCEPT ![c] = "join"]
     /\ UNCHANGED <<sock, who, leaves, pass, owed, want>>

(* access.join says no *)
JoinDenied(c) ==
  /\ "join" \in Uses
  /\ Serves(c) /\ who[c] # None
  /\ Becomes(Ready)
  /\ sock' = Closing({c})
  /\ UNCHANGED <<who, task, leaves, pass, owed, want>>

(* The rest of handleJoin: an empty room takes the shared state the client *)
(* still has, without marking it dirty.                                    *)
JoinOk(c) ==
  LET seen == IF "resume" \in Uses /\ mem.ver = 0 THEN 0..MaxVer ELSE {mem.ver}
  IN /\ task[c] = "join"
     /\ \E v \in seen :
          mem' = [mem EXCEPT !.ver = v, !.ps = @ \cup {who[c]}]
     /\ task' = [task EXCEPT ![c] = "idle"]
     /\ who' = [who EXCEPT ![c] = IF sock[c] = "none" THEN None ELSE @]
     /\ UNCHANGED <<awake, disk, sock, leaves, pass, owed, want>>

(* onJoin throws *)
JoinRejected(c) ==
  /\ task[c] = "join"
  /\ sock' = Closing({c})
  /\ task' = [task EXCEPT ![c] = "idle"]
  /\ who' = [who EXCEPT ![c] = IF sock[c] = "none" THEN None ELSE @]
  /\ UNCHANGED <<awake, mem, disk, leaves, pass, owed, want>>

-----------------------------------------------------------------------------
(* Leaving *)

Departure(u, why, conns) ==
  [user |-> u, why |-> why, conns |-> conns, stage |-> "hook"]

(* The connection is the last one of its user. *)
LastOf(m, c) == m.players[c] # None /\ ConnsOf(m, m.players[c]) = {c}

(* handleExplicitLeave up to its wait for onLeave *)
MsgLeave(c) ==
  LET r == Ready
      u == r.m.players[c]
      r1 == DropDisc([r EXCEPT !.m.players[c] = None], u)
  IN /\ Serves(c) /\ who[c] # None
     /\ Becomes(IF u = None THEN r ELSE r1)
     /\ IF LastOf(r.m, c)
        THEN /\ leaves' = leaves \cup {Departure(u, "leave", {c})}
             /\ task' = [task EXCEPT ![c] = "leave"]
             /\ owed' = owed \ {u}
             /\ UNCHANGED sock
        ELSE /\ sock' = Closing({c})
             /\ UNCHANGED <<leaves, task, owed>>
     /\ UNCHANGED <<who, pass, want>>

(* handleDisconnect up to its wait for onLeave, or to its end.  `final`:   *)
(* the close code says leave or kicked; then, or without a reconnect       *)
(* timeout, the last connection's user leaves now.                         *)
LeavesNow(m, c, final) == LastOf(m, c) /\ (final \/ ReconnectTimeout = 0)

Disconnect(r, c, final) ==
  LET u == r.m.players[c]
      r1 == [r EXCEPT !.m.players[c] = None]
  IN IF u = None THEN r
     ELSE IF LeavesNow(r.m, c, final)
     THEN IF final THEN DropDisc(r1, u) ELSE r1
     ELSE CleanupIfDeserted(
            IF LastOf(r.m, c)
            THEN SyncArm([r1 EXCEPT !.m.disc[u] = ReconnectTimeout]) ELSE r1)

(* webSocketClose and webSocketError: the instance is not recovered first. *)
(* `listed`: the platform still lists the socket.                          *)
Close(c, final, listed) ==
  LET live == IF listed THEN Listed ELSE Listed \ {c}
      r == Woken(live)
      u == r.m.players[c]
  IN /\ sock[c] # "none"
     /\ final => sock[c] = "open"
     /\ Becomes(EnsureBeat(DropAuth(Disconnect(r, c, final), c), live))
     /\ sock' = [sock EXCEPT ![c] = "none"]
     /\ who' = [who EXCEPT ![c] = IF task[c] = "join" THEN @ ELSE None]
     /\ IF LeavesNow(r.m, c, final)
        THEN /\ leaves' = leaves \cup {Departure(u, "close", {c})}
             /\ owed' = owed \ {u}
        ELSE UNCHANGED <<leaves, owed>>
     /\ UNCHANGED <<task, pass, want>>

(* What follows finalizePlayerLeave in its callers.  kickPlayer closes the *)
(* sockets; the other two ask whether the room is deserted.                *)
AfterLeave(l, r) ==
  /\ Becomes(IF l.why = "kick" THEN r ELSE CleanupIfDeserted(r))
  /\ leaves' = leaves \ {l}
  /\ sock' = IF l.why = "close" THEN sock ELSE Closing(l.conns)
  /\ task' = [c \in Conns |->
       IF l.why = "leave" /\ c \in l.conns THEN "idle" ELSE task[c]]

(* finalizePlayerLeave when onLeave has returned *)
Forget(r, u) == [r EXCEPT !.m.ps = @ \ {u}]

LeaveHook(l) ==
  LET r == Forget([m |-> mem, d |-> disk], l.user)
  IN /\ l.stage = "hook"
     /\ IF Deserted(r.m)
        THEN /\ Becomes(r)
             /\ leaves' = (leaves \ {l}) \cup {[l EXCEPT !.stage = "destroy"]}
             /\ UNCHANGED <<sock, task>>
        ELSE AfterLeave(l, r)
     /\ UNCHANGED <<who, pass, owed, want>>

(* handleRoomEmpty when onDestroy has returned *)
Destroyed(r) ==
  ScheduleEmptyRoomCleanup(DeleteStored([r EXCEPT !.m = [@ EXCEPT
    !.dirty = FALSE, !.save = Null, !.timers = Idle(Timers),
    !.auth = Idle(Conns), !.disc = Idle(Users), !.tagged = FALSE]]))

NoTimers == [t \in Timers |-> FALSE]

LeaveDestroy(l) ==
  /\ l.stage = "destroy"
  /\ AfterLeave(l, Destroyed([m |-> mem, d |-> disk]))
  /\ want' = NoTimers
  /\ UNCHANGED <<who, pass, owed>>

-----------------------------------------------------------------------------
(* RoomServerAPI: what the application's handlers and hooks may call       *)

SetState(r) ==
  /\ "state" \in Uses /\ r.m.ver < MaxVer
  /\ Becomes(MarkDirty([r EXCEPT !.m.ver = @ + 1]))
  /\ UNCHANGED <<sock, leaves, owed, want>>

(* Mutant: the revert forgets `dirty` *)
MutSetStateTooLarge(r) ==
  LET r1 == MarkDirty(r)
  IN /\ "oversize" \in Uses
     /\ Becomes(SyncArm([r1 EXCEPT !.m.save = r.m.save]))
     /\ UNCHANGED <<sock, leaves, owed, want>>

(* ... over the size limit: reverted *)
SetStateTooLarge(r) ==
  LET r1 == MarkDirty(r)
  IN /\ "oversize" \in Uses
     /\ Becomes(SyncArm([r1 EXCEPT !.m = [@ EXCEPT !.dirty = r.m.dirty, !.save = r.m.save]]))
     /\ UNCHANGED <<sock, leaves, owed, want>>

SaveState(r) ==
  /\ "save" \in Uses
  /\ Becomes(PersistState(r))
  /\ UNCHANGED <<sock, leaves, owed, want>>

SetTimer(r, t, ms) ==
  /\ Becomes(Arm(MarkDirty([r EXCEPT !.m.timers[t] = ms])))
  /\ want' = [want EXCEPT ![t] = TRUE]
  /\ UNCHANGED <<sock, leaves, owed>>

ClearTimer(r, t) ==
  /\ Becomes(Arm([r EXCEPT !.m.timers[t] = Null]))
  /\ want' = [want EXCEPT ![t] = FALSE]
  /\ UNCHANGED <<sock, leaves, owed>>

SetMetadata(r) ==
  /\ "metadata" \in Uses
  /\ Becomes([m |-> [r.m EXCEPT !.tagged = TRUE], d |-> [r.d EXCEPT !.tagged = TRUE]])
  /\ UNCHANGED <<sock, leaves, owed, want>>

(* kickPlayer up to its wait for onLeave (one kick of a user at a time) *)
Kick(r, u) ==
  LET conns == {c \in Listed : who[c] = u}
      r1 == DropDisc([r EXCEPT !.m.players =
              [c \in Conns |-> IF c \in conns THEN None ELSE @[c]]], u)
  IN /\ "kick" \in Uses
     /\ \A l \in leaves : ~(l.user = u /\ l.why = "kick")
     /\ Becomes(r1)
     /\ IF conns = {} THEN UNCHANGED <<leaves, owed>>
        ELSE /\ leaves' = leaves \cup {Departure(u, "kick", conns)}
             /\ owed' = owed \ {u}
     /\ UNCHANGED <<sock, want>>

Api(r) ==
  /\ \/ SetState(r) \/ SetStateTooLarge(r) \/ SaveState(r) \/ SetMetadata(r)
     \/ \E t \in Timers : ClearTimer(r, t) \/ \E ms \in TimerDelays : SetTimer(r, t, ms)
     \/ \E u \in Users : Kick(r, u)
  /\ UNCHANGED <<who, task, pass>>

(* handleSend: an action handler calls the API, at the receipt of the      *)
(* message; what it does after an await of its own is not modelled.        *)
MsgSend(c) ==
  /\ Serves(c) /\ who[c] # None
  /\ Api(Ready)

(* a hook or a timer handler under way calls the API *)
HookCall ==
  /\ awake
  /\ leaves # {} \/ pass.stage # "idle" \/ \E c \in Conns : task[c] = "join"
  /\ Api([m |-> mem, d |-> disk])

-----------------------------------------------------------------------------
(* alarm().  The clock stands still during a pass (see Tick), so "due at   *)
(* the `now` captured first" is "due".                                     *)

(* Mutant: only the constructor's flag asks for recovery *)
MutShouldRecover(m) == m.rec

ShouldRecover(m) ==
  \/ m.rec
  \/ /\ Listed = {}
     /\ ~m.created /\ m.ver = 0 /\ m.ps = {} /\ NoPlayers(m) /\ ~m.tagged
     /\ Deadlines([m EXCEPT !.beat = Null]) = {}

(* 4. empty room cleanup *)
CleanupStep(r) ==
  LET r1 == [r EXCEPT !.m.cleanup = Null]
      quiet == DeleteStored([r1 EXCEPT !.m = [@ EXCEPT !.dirty = FALSE, !.save = Null]])
      wiped == [quiet EXCEPT !.m = [@ EXCEPT
        !.ver = 0, !.ps = {}, !.created = FALSE, !.tagged = FALSE,
        !.timers = Idle(Timers), !.auth = Idle(Conns), !.disc = Idle(Users),
        !.ttl = IdleTimeout]]
  IN IF ~Due(r.m.cleanup) THEN r
     ELSE IF ~NoPlayers(r.m) THEN Sync(r1)
     ELSE IF r.m.ver > 0 \/ r.m.ps # {} THEN Sync(wiped)
     ELSE Sync([quiet EXCEPT !.m.ttl = Null])

(* 5. persist dirty state *)
SaveStep(r) ==
  LET r1 == [r EXCEPT !.m.save = Null]
  IN IF ~Due(r.m.save) THEN r
     ELSE Sync(IF r1.m.dirty THEN PersistState(r1) ELSE r1)

(* 6. state TTL safety net *)
TtlStep(r) ==
  LET r1 == [r EXCEPT !.m.ttl = Null]
  IN IF ~Due(r.m.ttl) THEN r
     ELSE Sync(IF NoPlayers(r1.m) THEN DeleteStored(r1) ELSE r1)

(* Steps 4 to 8.  7. heartbeat: any set of authenticated sockets may have  *)
(* gone silent; `mute` are the sockets whose auth deadline has passed.     *)
FinishPass(r0, mute, wanted) ==
  LET r == TtlStep(SaveStep(CleanupStep(r0)))
      beats == Due(r.m.beat)
      wiped == r0.m.timers # r.m.timers
  IN /\ \E stale \in SUBSET {c \in Listed : who[c] # None} :
          /\ stale # {} => beats
          /\ sock' = Closing(mute \cup stale)
     /\ Becomes(Arm(IF beats
                    THEN Sync(EnsureBeat([r EXCEPT !.m.beat = Null], Listed))
                    ELSE r))
     /\ pass' = NoPass
     /\ want' = IF wiped THEN NoTimers ELSE wanted
     /\ UNCHANGED owed

(* 3. onLeave for the next user whose grace period is over *)
NextLeave(r, todo, mute) ==
  \E u \in todo :
    /\ Becomes(r)
    /\ pass' = [stage |-> "hook", user |-> u, todo |-> todo \ {u}]
    /\ owed' = owed \ {u}
    /\ sock' = Closing(mute)

StartLeaves(r, mute) ==
  LET expired == DueIn(r.m.disc)
  IN IF expired = {}
     THEN FinishPass(r, mute, want)
     ELSE /\ NextLeave([r EXCEPT !.m.disc = Without(@, expired)], expired, mute)
          /\ UNCHANGED want

(* The alarm goes off: recovery, 1. auth deadlines, 2. named timers, up to *)
(* the first wait for a handler                                            *)
AlarmFire ==
  LET r == [Woken(Listed) EXCEPT !.d.alarm = Null]
      r1 == IF ShouldRecover(r.m) THEN Recover(r, Listed) ELSE r
      late == DueIn(r1.m.auth)
      mute == {c \in late : who[c] = None}
      r2 == IF late = {} THEN r1
            ELSE Sync([r1 EXCEPT !.m.auth = Without(@, late)])
      fired == DueIn(r2.m.timers)
  IN /\ Due(disk.alarm) /\ pass = NoPass
     /\ IF fired = {}
        THEN StartLeaves(r2, mute)
        ELSE /\ Becomes([r2 EXCEPT !.m.timers = Without(@, fired)])
             /\ sock' = Closing(mute)
             /\ pass' = [NoPass EXCEPT !.stage = "timers"]
             /\ want' = [t \in Timers |-> want[t] /\ t \notin fired]
             /\ UNCHANGED owed
     /\ UNCHANGED <<who, task, leaves>>

(* the timer handlers have returned *)
AlarmTimers ==
  /\ pass.stage = "timers"
  /\ StartLeaves(MarkDirty([m |-> mem, d |-> disk]), {})
  /\ UNCHANGED <<who, task, leaves>>

ContinueLeaves(r, wanted) ==
  IF pass.todo = {}
  THEN FinishPass(Sync(r), {}, wanted)
  ELSE NextLeave(r, pass.todo, {}) /\ want' = wanted

AlarmLeave ==
  LET r == Forget([m |-> mem, d |-> disk], pass.user)
  IN /\ pass.stage = "hook"
     /\ IF Deserted(r.m)
        THEN /\ Becomes(r)
             /\ pass' = [pass EXCEPT !.stage = "destroy"]
             /\ UNCHANGED <<sock, owed, want>>
        ELSE ContinueLeaves(r, want)
     /\ UNCHANGED <<who, task, leaves>>

(* onDestroy has returned in a pass *)
AlarmDestroy ==
  /\ pass.stage = "destroy"
  /\ ContinueLeaves(Destroyed([m |-> mem, d |-> disk]), NoTimers)
  /\ UNCHANGED <<who, task, leaves>>

-----------------------------------------------------------------------------
(* The platform *)

(* Hibernation or eviction of an idle object: its memory is lost. *)
Hibernate ==
  /\ "hibernate" \in Uses
  /\ awake /\ pass = NoPass /\ leaves = {}
  /\ \A c \in Conns : task[c] = "idle" /\ sock[c] # "closing"
  /\ awake' = FALSE /\ mem' = Blank
  /\ UNCHANGED <<disk, sock, who, task, leaves, pass, owed, want>>

ElapseBlob(b) ==
  [auth |-> ElapseAll(b.auth), disc |-> ElapseAll(b.disc),
   save |-> Elapse(b.save), cleanup |-> Elapse(b.cleanup), ttl |-> Elapse(b.ttl)]

ElapsedMem ==
  [mem EXCEPT
    !.auth = ElapseAll(@), !.disc = ElapseAll(@), !.timers = ElapseAll(@),
    !.save = Elapse(@), !.cleanup = Elapse(@), !.ttl = Elapse(@),
    !.beat = Elapse(@), !.last = {ElapseBlob(b) : b \in @}]
ElapsedDisk ==
  [disk EXCEPT !.blob = ElapseBlob(@), !.timers = ElapseAll(@),
               !.state.left = Elapse(@), !.alarm = Elapse(@)]

(* A time unit passes.  An alarm that is due goes off first, and a pass    *)
(* takes no time.                                                          *)
Tick ==
  /\ ~Due(disk.alarm) /\ pass = NoPass
  /\ mem' = ElapsedMem /\ disk' = ElapsedDisk
  /\ UNCHANGED <<awake, sock, who, task, leaves, pass, owed, want>>

Next ==
  \/ Peek \/ HookCall \/ AlarmFire \/ AlarmTimers \/ AlarmLeave \/ AlarmDestroy
  \/ Hibernate \/ Tick
  \/ \E c \in Conns :
       \/ Upgrade(c) \/ Ping(c) \/ MsgAuth(c) \/ AuthFail(c) \/ Revoke(c)
       \/ MsgJoin(c) \/ JoinDenied(c) \/ JoinOk(c) \/ JoinRejected(c)
       \/ MsgLeave(c) \/ MsgSend(c)
       \/ \E u \in Users : AuthOk(c, u)
       \/ \E final, listed \in BOOLEAN : Close(c, final, listed)
  \/ \E l \in leaves : LeaveHook(l) \/ LeaveDestroy(l)

Spec == Init /\ [][Next]_vars

-----------------------------------------------------------------------------
(* Properties *)

Delays(max) == Null..max
TimersType == [Timers -> {Null} \cup UNION {Delays(ms) : ms \in TimerDelays}]
BlobType ==
  [auth : [Conns -> Delays(AuthTimeout)], disc : [Users -> Delays(ReconnectTimeout)],
   save : Delays(SaveInterval), cleanup : Delays(CleanupDelay),
   ttl : Delays(Max({StateTTL, IdleTimeout}))]
MemType ==
  [players : [Conns -> Users \cup {None}], auth : [Conns -> Delays(AuthTimeout)],
   disc : [Users -> Delays(ReconnectTimeout)], timers : TimersType,
   save : Delays(SaveInterval), cleanup : Delays(CleanupDelay),
   ttl : Delays(Max({StateTTL, IdleTimeout})), beat : Delays(Heartbeat),
   ver : 0..MaxVer, ps : SUBSET Users, created : BOOLEAN, dirty : BOOLEAN,
   tagged : BOOLEAN, rec : BOOLEAN, last : SUBSET BlobType]
DiskType ==
  [blob : BlobType, timers : TimersType, tagged : BOOLEAN, alarm : Nat \cup {Null},
   state : [ver : 0..MaxVer, ps : SUBSET Users, left : Delays(StateTTL)]]

(* Every field of the instance (fields of RoomRuntimeBaseDO), of its       *)
(* storage and of the sockets keeps its type; without an instance there is *)
(* no memory and nothing is under way.                                     *)
TypeOK ==
  /\ awake \in BOOLEAN /\ (~awake => mem = Blank /\ pass = NoPass /\ leaves = {})
  /\ mem \in MemType /\ (\A a, b \in mem.last : a = b)
  /\ disk \in DiskType
  /\ sock \in [Conns -> {"none", "open", "closing"}]
  /\ who \in [Conns -> Users \cup {None}]
  /\ task \in [Conns -> {"idle", "auth", "join", "leave"}]
  /\ leaves \subseteq [user : Users, why : {"leave", "close", "kick"},
                       conns : SUBSET Conns, stage : {"hook", "destroy"}]
  /\ pass \in [stage : {"idle", "timers", "hook", "destroy"},
               user : Users \cup {None}, todo : SUBSET Users]
  /\ owed \subseteq Users /\ want \in [Timers -> BOOLEAN]

(* The one platform alarm is never later than any deadline the instance    *)
(* holds: whatever handler set, cleared or overwrote a deadline has called *)
(* _scheduleNextAlarm after it.                                            *)
AlarmCoversDeadlines ==
  pass = NoPass =>
    \A d \in Deadlines(mem) : Pending(disk.alarm) /\ disk.alarm <= Max({1, d})

(* A grace period runs only for a user without a connection: a reconnect   *)
(* (handleAuth) cancels it and only the last close (handleDisconnect)      *)
(* starts it, also when the instance was recovered in between.             *)
GraceOnlyWhenAbsent ==
  \A u \in PendingIn(mem.disc) : ConnsOf(mem, u) = {}

(* In an instance that needs no recovery, an authenticated open socket is  *)
(* a player, with the user of its attachment, until its leave or kick      *)
(* begins: hibernation and recovery (recoverRuntimeStateFromSockets) lose  *)
(* no connected player.                                                    *)
LiveAuthedArePlayers ==
  awake /\ ~mem.rec =>
    \A c \in Conns :
      sock[c] = "open" /\ who[c] # None /\ (\A l \in leaves : c \notin l.conns)
        => mem.players[c] = who[c]

(* Every auth, grace and save deadline the instance holds outside an alarm *)
(* pass is in the stored blob, whatever the write guard of                 *)
(* syncEphemeralTimersToStorage skips and whoever else deletes the blob.   *)
(* A deadline that a handler drops from memory is no longer held, and what *)
(* an instance that has recovered nothing overwrites was never in memory.  *)
DeadlinesAreStored ==
  awake /\ pass = NoPass =>
    /\ \A c \in PendingIn(mem.auth) : disk.blob.auth[c] = mem.auth[c]
    /\ \A u \in PendingIn(mem.disc) : disk.blob.disc[u] = mem.disc[u]
    /\ Pending(mem.save) => disk.blob.save = mem.save

(* Unsaved state always has its save scheduled, in memory, in the blob and *)
(* by the alarm: no order of markDirty, a reverted update, a save, a       *)
(* cleanup and the destruction of the room leaves `dirty` behind without a *)
(* _stateSaveAt, which would stop saving for good.                         *)
DirtyWillBeSaved ==
  mem.dirty /\ pass = NoPass =>
    /\ Pending(mem.save) /\ Pending(disk.blob.save)
    /\ Pending(disk.alarm) /\ disk.alarm <= Max({1, mem.save})

UnderWay == pass # NoPass \/ leaves # {} \/ \E c \in Conns : task[c] # "idle"

(* As long as the stored blob holds a deadline an alarm is set: an evicted *)
(* room is woken again to finish its cleanup (the "safety net for orphaned *)
(* storage cleanup" of persistState).                                      *)
StoredDeadlinesWake ==
  pass = NoPass /\ disk.blob # NoBlob => Pending(disk.alarm)

-----------------------------------------------------------------------------
(* What the documentation promises *)

(* A user who was connected is connected, has a grace period running (in   *)
(* memory or in a blob that will be recovered), or has had onLeave called: *)
(* no disconnect goes unnoticed.                                           *)
NobodyVanishes ==
  \A u \in owed :
    \/ \E c \in Listed : who[c] = u
    \/ Pending(mem.disc[u])
    \/ Pending(disk.blob.disc[u]) /\ (~awake \/ ShouldRecover(mem))
    \/ u \in pass.todo

(* A timer set with setTimer is pending, after hibernation too, until it   *)
(* fires, is cleared or the room is destroyed.                             *)
NamedTimersSurvive ==
  awake /\ ~mem.rec =>
    \A t \in Timers : want[t] => Pending(mem.timers[t])

(* A socket that has not authenticated has an auth deadline running. *)
AuthDeadlineHolds ==
  \A c \in Conns :
    sock[c] = "open" /\ who[c] = None =>
      \/ Pending(mem.auth[c])
      \/ Pending(disk.blob.auth[c]) /\ (~awake \/ mem.rec)

(* A room with connected players is not behind the unexpired state it has  *)
(* saved: a reconnect finds the state restored.                            *)
StateIsRestored ==
  awake /\ ~mem.rec /\ ~NoPlayers(mem) /\ disk.state.left > 0
    => mem.ver >= disk.state.ver

Vacant == \A c \in Conns : sock[c] = "none"

(* When everybody has gone for good (no socket, no message or departure    *)
(* under way, no grace period), the room counts as empty: no player is     *)
(* left whose connection no longer exists.                                 *)
GoneMeansEmpty ==
  Vacant /\ ~UnderWay /\ PendingIn(mem.disc) = {} => NoPlayers(mem)

(* An evicted room that everybody has left and that has state in storage   *)
(* has the TTL, or another deadline that leads to one, in its blob:        *)
(* persistState sets it "as safety net for orphaned storage cleanup"       *)
(* (room-runtime-base.ts:1618).                                            *)
AbandonedRoomIsForgotten ==
  ~awake /\ Vacant /\ disk.state # NoState =>
    \/ PendingIn(disk.blob.disc) # {} \/ PendingIn(disk.timers) # {}
    \/ Pending(disk.blob.save) \/ Pending(disk.blob.cleanup) \/ Pending(disk.blob.ttl)

=============================================================================
