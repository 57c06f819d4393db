------------------------------ MODULE TokenTabs ------------------------------
(***************************************************************************)
(* The tabs of one browser sharing one session, with the refresh token in  *)
(* the body of requests:                                                   *)
(* packages/sdk/js/packages/web/src/token-manager.ts and auth.ts,          *)
(* with BroadcastChannel and navigator.locks available, against the server *)
(* of AuthSessions, whose answers here take one step each.                 *)
(*                                                                         *)
(* localStorage is one; each tab runs its own callbacks one at a time, and *)
(* everything a tab awaits (a timer, a lock, a response, a message) lets   *)
(* the other tabs, and its own other calls, run.                           *)
(***************************************************************************)
EXTENDS Integers, Sequences, FiniteSets

CONSTANTS
  Tabs,
  NoTab,        \* no owner; the owner of a lock whose tab is gone
  MaxToken,     \* bound: refresh tokens ever issued
  MaxLate,      \* the same when the environment is not prompt
  MaxSignIns,   \* bound: sign-ins
  MaxSignOuts,  \* bound: sign-outs by the user
  MaxQueue,     \* bound: messages a tab has not handled
  MaxCrash,     \* bound: tabs closed and opened again
  Environments  \* the values of prompt

ASSUME TabAssumption ==
  /\ NoTab \notin Tabs /\ IsFiniteSet(Tabs) /\ Environments \subseteq BOOLEAN
  /\ {MaxToken, MaxLate, MaxSignIns, MaxSignOuts, MaxQueue, MaxCrash} \subseteq Nat
  /\ MaxLate <= MaxToken

Tokens == 1..MaxToken
Sids == 1..MaxSignIns

VARIABLES
  rows,     \* [Sids -> [cur, prev, grace]]: _sessions; grace: rotated <= 30 s ago
  issued,   \* refresh tokens issued so far
  signIns,  \* sign-ins so far: the last session id
  token,    \* localStorage refreshTokenKey, 0 when absent
  epoch,    \* localStorage authEpochKey
  lock,     \* localStorage refreshLockKey: [owner, fresh, held]
  mutex,    \* the holder <<tab, "refresh" or "auth">> of authMutationLockKey
  access,   \* [Tabs -> the refresh token that came with accessToken, 0 for none]
  ref,      \* [Tabs -> Ref]: the tab's refresh; seen: sign-outs before it began (history)
  auth,     \* [Tabs -> Auth]: the tab's sign-in or sign-out
  inbox,    \* [Tabs -> Seq(message)]: BroadcastChannel
  nulled,   \* [Tabs -> BOOLEAN]: a storage event "token removed" is on its way
  sidOf,    \* [Tokens -> Sids \cup {0}] (history)
  ended,    \* sessions the server ended at a sign-out (history)
  lost,     \* tokens rotated to one that no tab has stored (history)
  out,      \* the user signed out and did not sign in since (history)
  outs, crashes, \* counters of the bounds
  prompt    \* nothing that was sent is overtaken (Settled); never changes

store == <<token, epoch, lock>>
server == <<rows, issued, signIns, sidOf, ended, lost>>
vars == <<server, store, mutex, access, ref, auth, inbox, nulled, out, outs, crashes, prompt>>

NoLock == [held |-> FALSE, owner |-> NoTab, fresh |-> FALSE]
Ref == [pc : {"idle", "write", "verify", "queued", "asked", "answered", "wait"},
        ep : Nat, tok : 0..MaxToken, ask : 0..MaxToken, ans : -2..MaxToken, seen : Nat]
Quiet == [pc |-> "idle", ep |-> 0, tok |-> 0, ask |-> 0, ans |-> 0, seen |-> 0]
Auth == [pc : {"idle", "signin", "asked", "answered", "signout", "revoking"},
         ep : Nat, tok : 0..MaxToken, seen : Nat]
Still == [pc |-> "idle", ep |-> 0, tok |-> 0, seen |-> 0]
Denied == -1    \* 401
Failed == -2    \* no response, 5xx

Init ==
  /\ rows = [s \in Sids |-> [cur |-> 0, prev |-> 0, grace |-> FALSE]]
  /\ issued = 0 /\ signIns = 0
  /\ sidOf = [t \in Tokens |-> 0] /\ ended = {} /\ lost = {}
  /\ token = 0 /\ epoch = 0 /\ lock = NoLock /\ mutex = <<NoTab, "refresh">>
  /\ access = [t \in Tabs |-> 0]
  /\ ref = [t \in Tabs |-> Quiet] /\ auth = [t \in Tabs |-> Still]
  /\ inbox = [t \in Tabs |-> <<>>] /\ nulled = [t \in Tabs |-> FALSE]
  /\ out = FALSE /\ outs = 0 /\ crashes = 0 /\ prompt \in Environments

Others(t) == Tabs \ {t}
Post(t, m) == inbox' = [u \in Tabs |-> IF u = t THEN inbox[u] ELSE Append(inbox[u], m)]
Room(t) == \A u \in Others(t) : Len(inbox[u]) < MaxQueue
FreshFor(t) == lock.held /\ lock.fresh /\ lock.owner # t

(* A prompt environment: what has been answered and posted is handled      *)
(* before the next request leaves.                                         *)
Settled == \A t \in Tabs : inbox[t] = <<>> /\ ref[t].pc # "answered"
MayIssue == issued < IF prompt THEN MaxToken ELSE MaxLate

(* releaseRefreshLock *)
MutNoOwner(t, l) == [l EXCEPT !.owner = 0]
Released(t, l) == IF l.held /\ l.owner # t /\ l.fresh THEN l ELSE NoLock

(* removeItem(refreshTokenKey): the other tabs get a storage event. *)
Nulling(t) == [u \in Tabs |-> nulled[u] \/ (u # t /\ token # 0)]

(* clearTokens: a new epoch, nothing stored, everyone told. *)
ClearTokens(t) ==
  /\ Room(t)
  /\ epoch' = epoch + 1 /\ token' = 0 /\ lock' = NoLock
  /\ access' = [access EXCEPT ![t] = 0]
  /\ nulled' = Nulling(t)
  /\ Post(t, 0)

-----------------------------------------------------------------------------
(* Refresh: refreshWithLeaderElection, one per tab at a time. *)

(* getAccessToken or forceRefresh, up to the look at the lock. *)
Start(t) ==
  /\ ref[t].pc = "idle" /\ token # 0
  /\ ref' = [ref EXCEPT ![t] = [Quiet EXCEPT !.ep = epoch, !.tok = token, !.seen = outs,
                                  !.pc = IF FreshFor(t) THEN "wait" ELSE "write"]]
  /\ UNCHANGED <<server, store, mutex, access, auth, inbox, nulled, out, outs, crashes, prompt>>

(* Two tabs may have read that no lock was held. *)
WriteLock(t) ==
  /\ ref[t].pc = "write"
  /\ lock' = [held |-> TRUE, owner |-> t, fresh |-> TRUE]
  /\ ref' = [ref EXCEPT ![t].pc = "verify"]
  /\ UNCHANGED <<server, token, epoch, mutex, access, auth, inbox, nulled, out, outs, crashes, prompt>>

(* After LOCK_VERIFY_DELAY_MS: the loser waits if it still has a token. *)
Verify(t) ==
  /\ ref[t].pc = "verify"
  /\ ref' = [ref EXCEPT ![t] =
       IF lock.held /\ lock.owner = t
       THEN [@ EXCEPT !.pc = "queued", !.tok = IF token # 0 THEN token ELSE ref[t].tok]
       ELSE IF token # 0 THEN [@ EXCEPT !.pc = "wait"] ELSE Quiet]
  /\ UNCHANGED <<server, store, mutex, access, auth, inbox, nulled, out, outs, crashes, prompt>>

(* The mutation lock is granted; the epoch is checked and the latest       *)
(* stored token is what is sent.                                           *)
MutIgnoreStored(t) == ref[t].tok
LatestToken(t) == IF token # 0 THEN token ELSE ref[t].tok

Send(t) ==
  /\ ref[t].pc = "queued" /\ mutex[1] = NoTab
  /\ prompt => Settled
  /\ \/ /\ epoch = ref[t].ep
        /\ mutex' = <<t, "refresh">>
        /\ ref' = [ref EXCEPT ![t].pc = "asked", ![t].ask = LatestToken(t)]
        /\ UNCHANGED lock
     \/ /\ epoch # ref[t].ep
        /\ ref' = [ref EXCEPT ![t] = Quiet] /\ lock' = Released(t, lock)
        /\ UNCHANGED mutex
  /\ UNCHANGED <<server, token, epoch, access, auth, inbox, nulled, out, outs, crashes, prompt>>

(* The response ends the mutation; its .then runs in a later task. *)
Receive(t, answer) ==
  /\ ref[t].pc = "asked"
  /\ ref' = [ref EXCEPT ![t].pc = "answered", ![t].ans = answer]
  /\ mutex' = <<NoTab, "refresh">>

(* POST /auth/refresh: what AuthSessions answers. *)
Refreshed(t) ==
  LET sent == ref[t].ask
      now == {s \in Sids : rows[s].cur = sent}
      before == {s \in Sids : rows[s].prev = sent}
  IN \/ \E s \in now :
          /\ MayIssue
          /\ issued' = issued + 1 /\ sidOf' = [sidOf EXCEPT ![issued + 1] = s]
          /\ rows' = [rows EXCEPT ![s] = [cur |-> issued + 1, prev |-> sent, grace |-> TRUE]]
          /\ lost' = lost \cup {sent}
          /\ \E answer \in {issued + 1, Failed} : Receive(t, answer)
     \/ \E s \in before :
          /\ now = {} /\ rows[s].grace
          /\ Receive(t, rows[s].cur) /\ UNCHANGED <<rows, issued, sidOf, lost>>
     \/ \E s \in before :
          /\ now = {} /\ ~rows[s].grace
          /\ rows' = [rows EXCEPT ![s] = [cur |-> 0, prev |-> 0, grace |-> FALSE]]
          /\ Receive(t, Denied) /\ UNCHANGED <<issued, sidOf, lost>>
     \/ now \cup before = {} /\ Receive(t, Denied) /\ UNCHANGED <<rows, issued, sidOf, lost>>

ServerRefresh(t) ==
  /\ ref[t].pc = "asked"
  /\ Refreshed(t) \/ (Receive(t, Failed) /\ UNCHANGED <<rows, issued, sidOf, lost>>)
  /\ UNCHANGED <<signIns, ended, store, access, auth, inbox, nulled, out, outs, crashes, prompt>>

(* The tokens are committed if the epoch is still the one the refresh      *)
(* began in: setTokens, then broadcastTokenRefreshed, then the lock.       *)
MutEpochUnchecked(t) == TRUE
EpochIsCurrent(t) == epoch = ref[t].ep

Commit(t) ==
  LET q == ref[t]
  IN  /\ q.pc = "answered" /\ q.ans > 0 /\ EpochIsCurrent(t) /\ Room(t)
      /\ token' = q.ans
      /\ access' = [access EXCEPT ![t] = q.ans]
      /\ Post(t, q.ans)
      /\ lock' = Released(t, lock)
      /\ ref' = [ref EXCEPT ![t] = Quiet]
      /\ lost' = lost \ {q.ask}
      /\ UNCHANGED <<rows, issued, signIns, sidOf, ended, epoch, mutex, auth, nulled, out, outs,
                     crashes, prompt>>

(* A 401: the token that was refused is cleared, one that is not the       *)
(* token of this refresh is kept.                                          *)
IsRefused(t) == token = 0 \/ token = ref[t].tok

Reject(t) ==
  LET q == ref[t]
  IN  /\ q.pc = "answered" /\ q.ans = Denied
      /\ ref' = [ref EXCEPT ![t] = Quiet]
      /\ \/ IsRefused(t) /\ ClearTokens(t)
         \/ /\ ~IsRefused(t)
            /\ access' = [access EXCEPT ![t] = 0]
            /\ lock' = Released(t, lock)
            /\ UNCHANGED <<token, epoch, inbox, nulled>>
      /\ UNCHANGED <<server, mutex, auth, out, outs, crashes, prompt>>

(* No answer, or the epoch moved: nothing is touched but the lock. *)
GiveUp(t) ==
  LET q == ref[t]
  IN  /\ q.pc = "answered"
      /\ q.ans = Failed \/ (q.ans > 0 /\ ~EpochIsCurrent(t))
      /\ ref' = [ref EXCEPT ![t] = Quiet]
      /\ lock' = Released(t, lock)
      /\ UNCHANGED <<server, token, epoch, mutex, access, auth, inbox, nulled, out, outs, crashes, prompt>>

(* waitForRefreshResult: after LOCK_TIMEOUT_MS the lock is removed,        *)
(* whoever holds it by then.                                               *)
WaitTimesOut(t) ==
  /\ ref[t].pc = "wait"
  /\ ref' = [ref EXCEPT ![t] = Quiet] /\ lock' = NoLock
  /\ UNCHANGED <<server, token, epoch, mutex, access, auth, inbox, nulled, out, outs, crashes, prompt>>

(* LOCK_TIMEOUT_MS without a heartbeat: the owner is gone, or its timers   *)
(* are throttled; and the heartbeat of an owner that gets to it.           *)
LockGoesStale ==
  /\ lock.held /\ lock.fresh /\ lock' = [lock EXCEPT !.fresh = FALSE]
  /\ UNCHANGED <<server, token, epoch, mutex, access, ref, auth, inbox, nulled, out, outs, crashes, prompt>>

Heartbeat(t) ==
  /\ lock.held /\ lock.owner = t /\ ~lock.fresh
  /\ ref[t].pc \in {"queued", "asked", "answered"}
  /\ lock' = [lock EXCEPT !.fresh = TRUE]
  /\ UNCHANGED <<server, token, epoch, mutex, access, ref, auth, inbox, nulled, out, outs, crashes, prompt>>

-----------------------------------------------------------------------------
(* Sign-in and sign-out, serialized with every refresh by the mutex. *)

(* signIn: runAuthMutation captures the epoch once it has the lock. *)
SignIn(t) ==
  /\ auth[t].pc = "idle" /\ signIns < MaxSignIns /\ mutex[1] = NoTab
  /\ mutex' = <<t, "auth">>
  /\ auth' = [auth EXCEPT ![t] = [Still EXCEPT !.pc = "asked", !.ep = epoch, !.seen = outs]]
  /\ UNCHANGED <<server, store, access, ref, inbox, nulled, out, outs, crashes, prompt>>

(* POST /auth/signin creates a session; the response may be lost. *)
ServerSignIn(t) ==
  /\ auth[t].pc = "asked" /\ MayIssue /\ signIns < MaxSignIns
  /\ prompt => Settled
  /\ issued' = issued + 1 /\ signIns' = signIns + 1
  /\ rows' = [rows EXCEPT ![signIns + 1].cur = issued + 1]
  /\ sidOf' = [sidOf EXCEPT ![issued + 1] = signIns + 1]
  /\ \/ auth' = [auth EXCEPT ![t].pc = "answered", ![t].tok = issued + 1] /\ UNCHANGED mutex
     \/ auth' = [auth EXCEPT ![t] = Still] /\ mutex' = <<NoTab, "refresh">>
  /\ UNCHANGED <<ended, lost, store, access, ref, inbox, nulled, out, outs, crashes, prompt>>

(* The commit inside the lock: commitAuthoritativeAuthTransition moves the *)
(* epoch on, setTokens stores; a newer epoch drops the answer instead.     *)
CommitSignIn(t) ==
  /\ auth[t].pc = "answered"
  /\ \/ /\ epoch = auth[t].ep
        /\ epoch' = epoch + 1 /\ token' = auth[t].tok
        /\ access' = [access EXCEPT ![t] = auth[t].tok]
        /\ out' = FALSE
     \/ /\ epoch # auth[t].ep
        /\ UNCHANGED <<epoch, token, access, out>>
  /\ auth' = [auth EXCEPT ![t] = Still] /\ mutex' = <<NoTab, "refresh">>
  /\ UNCHANGED <<server, lock, ref, inbox, nulled, outs, crashes, prompt>>

(* signOut: at once local, then the revocation waits for the mutex. *)
SignOut(t) ==
  /\ auth[t].pc = "idle" /\ outs < MaxSignOuts
  /\ auth' = [auth EXCEPT ![t] = [Still EXCEPT !.pc = "signout", !.tok = token]]
  /\ ClearTokens(t)
  /\ out' = TRUE /\ outs' = outs + 1
  /\ UNCHANGED <<server, mutex, ref, crashes, prompt>>

SendSignOut(t) ==
  /\ auth[t].pc = "signout" /\ mutex[1] = NoTab
  /\ mutex' = <<t, "auth">>
  /\ auth' = [auth EXCEPT ![t].pc = "revoking"]
  /\ UNCHANGED <<server, store, access, ref, inbox, nulled, out, outs, crashes, prompt>>

(* POST /auth/signout by the current or the previous token; it may fail,   *)
(* and a body sign-out is not retried.                                     *)
ServerSignOut(t) ==
  LET of == {s \in Sids : auth[t].tok # 0 /\ auth[t].tok \in {rows[s].cur, rows[s].prev}}
      gone == [s \in Sids |-> IF s \in of THEN [cur |-> 0, prev |-> 0, grace |-> FALSE] ELSE rows[s]]
  IN  /\ auth[t].pc = "revoking"
      /\ \/ rows' = gone /\ ended' = ended \cup of
         \/ UNCHANGED <<rows, ended>>
      /\ auth' = [auth EXCEPT ![t] = Still] /\ mutex' = <<NoTab, "refresh">>
      /\ UNCHANGED <<issued, signIns, sidOf, lost, store, access, ref, inbox, nulled, out, outs, crashes,
                     prompt>>

-----------------------------------------------------------------------------
(* What arrives from the other tabs. *)

(* "token-refreshed": the access token is taken and the refresh token is   *)
(* written to the shared storage; a waiting refresh is done.               *)
HandleToken(t) ==
  /\ inbox[t] # <<>> /\ Head(inbox[t]) # 0
  /\ access' = [access EXCEPT ![t] = Head(inbox[t])]
  /\ token' = Head(inbox[t])
  /\ inbox' = [inbox EXCEPT ![t] = Tail(@)]
  /\ ref' = [ref EXCEPT ![t] = IF @.pc = "wait" THEN Quiet ELSE @]
  /\ UNCHANGED <<server, epoch, lock, mutex, auth, nulled, out, outs, crashes, prompt>>

(* "signed-out": clearTokensInternal(false), the shared storage included. *)
HandleSignedOut(t) ==
  /\ inbox[t] # <<>> /\ Head(inbox[t]) = 0
  /\ access' = [access EXCEPT ![t] = 0]
  /\ token' = 0 /\ lock' = NoLock /\ nulled' = Nulling(t)
  /\ inbox' = [inbox EXCEPT ![t] = Tail(@)]
  /\ ref' = [ref EXCEPT ![t] = IF @.pc = "wait" THEN Quiet ELSE @]
  /\ UNCHANGED <<server, epoch, mutex, auth, out, outs, crashes, prompt>>

(* The storage event of a removed refresh token. *)
MutForgetLess(t) ==
  /\ nulled[t] /\ nulled' = [nulled EXCEPT ![t] = FALSE]
  /\ UNCHANGED <<server, store, mutex, access, ref, auth, inbox, out, outs, crashes, prompt>>
HandleNull(t) ==
  /\ nulled[t]
  /\ access' = [access EXCEPT ![t] = 0]
  /\ nulled' = [nulled EXCEPT ![t] = FALSE]
  /\ UNCHANGED <<server, store, mutex, ref, auth, inbox, out, outs, crashes, prompt>>

(* The access token runs out, or invalidateAccessToken drops it. *)
AccessExpires(t) ==
  /\ access[t] # 0 /\ access' = [access EXCEPT ![t] = 0]
  /\ UNCHANGED <<server, store, mutex, ref, auth, inbox, nulled, out, outs, crashes, prompt>>

(* Thirty seconds after a rotation. *)
GraceEnds(s) ==
  /\ rows[s].grace /\ rows' = [rows EXCEPT ![s].grace = FALSE]
  /\ UNCHANGED <<issued, signIns, sidOf, ended, lost, store, mutex, access, ref, auth, inbox, nulled,
                 out, outs, crashes, prompt>>

(* A tab is closed and another opened: its locks of the browser are freed, *)
(* its refresh lock in localStorage is not.                                *)
Crash(t) ==
  /\ crashes < MaxCrash /\ crashes' = crashes + 1
  /\ access' = [access EXCEPT ![t] = 0]
  /\ ref' = [ref EXCEPT ![t] = Quiet] /\ auth' = [auth EXCEPT ![t] = Still]
  /\ inbox' = [inbox EXCEPT ![t] = <<>>] /\ nulled' = [nulled EXCEPT ![t] = FALSE]
  /\ mutex' = IF mutex[1] = t THEN <<NoTab, "refresh">> ELSE mutex
  /\ lock' = IF lock.owner = t THEN [lock EXCEPT !.owner = NoTab] ELSE lock
  /\ UNCHANGED <<server, token, epoch, out, outs, prompt>>

Own(t) ==
  \/ Start(t) \/ WriteLock(t) \/ Verify(t) \/ Send(t) \/ ServerRefresh(t)
  \/ Commit(t) \/ Reject(t) \/ GiveUp(t) \/ WaitTimesOut(t) \/ Heartbeat(t)
  \/ SignIn(t) \/ ServerSignIn(t) \/ CommitSignIn(t)
  \/ SignOut(t) \/ SendSignOut(t) \/ ServerSignOut(t)
  \/ HandleToken(t) \/ HandleSignedOut(t) \/ HandleNull(t)
  \/ AccessExpires(t) \/ Crash(t)

Next ==
  \/ \E t \in Tabs : Own(t)
  \/ LockGoesStale
  \/ \E s \in Sids : GraceEnds(s)

Spec == Init /\ [][Next]_vars

-----------------------------------------------------------------------------
(* Properties. *)

(* Types: what the storage, the locks, the tabs and the server range over. *)
TypeOK ==
  /\ token \in 0..MaxToken /\ epoch \in Nat
  /\ lock \in [held : BOOLEAN, owner : Tabs \cup {NoTab}, fresh : BOOLEAN]
  /\ mutex \in (Tabs \cup {NoTab}) \X {"refresh", "auth"}
  /\ access \in [Tabs -> 0..MaxToken] /\ ref \in [Tabs -> Ref] /\ auth \in [Tabs -> Auth]
  /\ inbox \in [Tabs -> Seq(0..MaxToken)] /\ nulled \in [Tabs -> BOOLEAN]
  /\ rows \in [Sids -> [cur : 0..MaxToken, prev : 0..MaxToken, grace : BOOLEAN]]
  /\ issued \in 0..MaxToken /\ signIns \in 0..MaxSignIns /\ out \in BOOLEAN /\ prompt \in Environments

(* If prompt, a refresh is refused only if its session was signed out, or  *)
(* if the token it presents was rotated and no tab ever stored the token   *)
(* that replaced it: the answer was lost, or the tab died or gave up with  *)
(* it.  Whoever leads, however often the lock changes hands and however    *)
(* late a tab comes back, no refresh presents a token that the browser has *)
(* seen replaced.                                                          *)
RefusedForAReason ==
  prompt => \A t \in Tabs : ref[t].pc = "answered" /\ ref[t].ans = Denied
                              => sidOf[ref[t].ask] \in ended \/ ref[t].ask \in lost

(* What a refresh or a sign-in brings back is not kept when the user has   *)
(* signed out, in any tab, since it began.                                 *)
NoAnswerRestoresSession ==
  [][\A t \in Tabs :
       /\ Commit(t) => ref[t].seen = outs
       /\ CommitSignIn(t) /\ epoch' # epoch => auth[t].seen = outs]_vars

(* When nothing is under way and nothing stored, no tab has an access      *)
(* token: no tab is left signed in after a sign-out elsewhere.             *)
QuietTabsAgree ==
  (/\ token = 0 /\ mutex[1] = NoTab
   /\ \A t \in Tabs : /\ ref[t].pc = "idle" /\ auth[t].pc = "idle"
                      /\ inbox[t] = <<>> /\ ~nulled[t])
    => \A t \in Tabs : access[t] = 0

(* auth.ts: signing out is at once authoritative, so that nothing in       *)
(* flight can resurrect the session.                                       *)
SignOutIsFinal == out => token = 0
=============================================================================
