---------------------------- MODULE AuthSessions ----------------------------
(***************************************************************************)
(* Sessions and refresh token rotation of one user:                        *)
(* packages/server/src/routes/auth.ts, lib/auth-d1-service.ts and          *)
(* lib/auth-db-adapter.ts.                                                 *)
(*                                                                         *)
(* Requests meet only in the table _sessions.  Each statement and each     *)
(* db.batch is atomic; whatever a handler awaits between two of them (a    *)
(* signature, a hook, the user row) lets every other request run.  A       *)
(* request may end at any step, and a client that had no answer may send   *)
(* its token again, for as long as the token's signature is valid.         *)
(***************************************************************************)
EXTENDS Integers, FiniteSets

CONSTANTS
  Reqs,         \* requests that can be under way at the same time
  Sids,         \* session ids, ordered as the database orders them
  Tickets,      \* those that are derived from an OAuth completion ticket
  MaxToken,     \* bound: refresh tokens ever signed
  GracePeriod,  \* REFRESH_TOKEN_GRACE_PERIOD_MS
  RefreshTTL,   \* auth.session.refreshTokenTTL
  MaxSessions,  \* auth.session.maxActiveSessions, 0 for no limit
  Times         \* bound: the times that the clock shows after 0

ASSUME SessionAssumption ==
  /\ Sids \subseteq Nat /\ IsFiniteSet(Sids) /\ Tickets \subseteq Sids
  /\ MaxToken \in Nat /\ GracePeriod \in Nat /\ RefreshTTL \in Nat
  /\ MaxSessions \in Nat /\ Times \subseteq Nat

Tokens == 1..MaxToken

VARIABLES
  now,      \* Date.now()
  rows,     \* [Sids -> Row]: _sessions
  signed,   \* number of refresh tokens signed; the next one is signed + 1
  sidOf,    \* [Tokens -> Sids \cup {-1}]: the jti of the token
  expOf,    \* [Tokens -> Nat]: the exp of the token
  req,      \* [Reqs -> Req]
  held,     \* tokens that have reached a client
  heir,     \* [Tokens -> [to, at]]: what a token was rotated to, and when (history)
  closed,   \* tokens whose session was deleted, or its deletion acknowledged (history)
  told      \* {<<token, answer>>} (history)

vars == <<now, rows, signed, sidOf, expOf, req, held, heir, closed, told>>

Row == [cur : 0..MaxToken, prev : 0..MaxToken, rotatedAt : Nat,
        expiresAt : Nat, createdAt : Nat]
NoRow == [cur |-> 0, prev |-> 0, rotatedAt |-> 0, expiresAt |-> 0, createdAt |-> 0]

(* A request: what it is for, where it waits, the token it presented, the  *)
(* session it works on, the token it will answer with, the time it read,   *)
(* and whether its token had been given up before it was sent (history).   *)
Ops == {"none", "signin", "ticket", "winner", "refresh", "lost", "signout"}
Pcs == {"idle", "expired", "sign", "create", "winner", "current", "previous", "swap", "answer",
        "revoke", "hook"}
Req == [op : Ops, pc : Pcs, tok : 0..MaxToken, sid : Sids \cup {-1},
        new : 0..MaxToken, at : Nat, late : BOOLEAN]
Idle == [op |-> "none", pc |-> "idle", tok |-> 0, sid |-> -1, new |-> 0,
         at |-> 0, late |-> FALSE]

Init ==
  /\ now = 0 /\ rows = [s \in Sids |-> NoRow]
  /\ signed = 0 /\ sidOf = [t \in Tokens |-> -1] /\ expOf = [t \in Tokens |-> 0]
  /\ req = [r \in Reqs |-> Idle]
  /\ held = {} /\ heir = [t \in Tokens |-> [to |-> 0, at |-> 0]]
  /\ closed = {} /\ told = {}

Live(R) == {s \in Sids : R[s].cur # 0}

(* The response still to be sent, with token t. *)
Answering(q, t) == [Idle EXCEPT !.pc = "answer", !.tok = q.tok, !.new = t, !.late = q.late]

-----------------------------------------------------------------------------
(* Signing. *)

(* signRefreshToken: a token no other call returns. *)
Sign(s) ==
  /\ signed < MaxToken
  /\ signed' = signed + 1
  /\ sidOf' = [sidOf EXCEPT ![signed + 1] = s]
  /\ expOf' = [expOf EXCEPT ![signed + 1] = now + RefreshTTL]

Become(r, q) ==
  /\ req' = [req EXCEPT ![r] = q]
  /\ UNCHANGED <<now, rows, signed, sidOf, expOf, held, heir, closed, told>>

(* The history of what a change of the table deletes: a session's token    *)
(* and those that were rotated away.                                       *)
Ended(s) == {t \in Tokens : sidOf[t] = s /\ (t = rows[s].cur \/ heir[t].to # 0)}
Deleting(R) == closed \cup UNION {Ended(s) : s \in {x \in Live(rows) : R[x].cur # rows[x].cur}}

MutDeleteByToken(q) ==
  [s \in Sids |-> IF rows[s].cur = q.tok \/ rows[s].prev = q.tok THEN NoRow ELSE rows[s]]
WithoutSession(q) == [rows EXCEPT ![q.sid] = NoRow]

-----------------------------------------------------------------------------
(* createSessionAndTokens. *)

(* reuseExistingSession: a session with this id is answered as it is. *)
NotReused(q) == IF q.op = "ticket" THEN [q EXCEPT !.pc = "sign"] ELSE Idle

Reuse(r, q) ==
  LET row == rows[q.sid]
  IN  \/ row.cur = 0 /\ Become(r, NotReused(q))
      \/ row.cur # 0 /\ row.expiresAt <= now /\ Become(r, [q EXCEPT !.pc = "expired"])
      \/ /\ row.cur # 0 /\ row.expiresAt > now
         /\ Become(r, Answering(q, row.cur))

(* An OAuth exchange has the session id that its ticket gives; it may be   *)
(* repeated, also while another one of the same ticket is under way.       *)
Exchange(r, s) == req[r].pc = "idle" /\ Reuse(r, [Idle EXCEPT !.op = "ticket", !.sid = s])

(* It looks again when its insert has failed. *)
ReuseWinner(r) == req[r].pc = "winner" /\ Reuse(r, req[r])

DeleteExpired(r) ==
  LET q == req[r]
  IN  /\ q.pc = "expired"
      /\ rows' = WithoutSession(q)
      /\ closed' = Deleting(WithoutSession(q))
      /\ req' = [req EXCEPT ![r] = NotReused(q)]
      /\ UNCHANGED <<now, signed, sidOf, expOf, held, heir, told>>

(* generateId unless a ticket gives the id, the tokens, now. *)
UnusedSids == (Sids \ Tickets) \ {sidOf[t] : t \in Tokens}
SidsFor(q) == IF q.op = "ticket" THEN {q.sid} ELSE UnusedSids

SignIn(r) ==
  /\ req[r].pc \in {"idle", "sign"}
  /\ \E s \in SidsFor(req[r]) :
       /\ Sign(s)
       /\ req' = [req EXCEPT ![r] =
                   [Idle EXCEPT !.op = IF req[r].op = "ticket" THEN "ticket" ELSE "signin",
                                !.pc = "create", !.sid = s, !.new = signed + 1, !.at = now]]
  /\ UNCHANGED <<now, rows, held, heir, closed, told>>

(* The rows, the new one first, then the newest: ORDER BY ... in the prune. *)
MutAheadByAge(R, own, s) ==
  {x \in Live(R) : \/ R[x].createdAt > R[s].createdAt
                   \/ R[x].createdAt = R[s].createdAt /\ x > s}
Ahead(R, own, s) ==
  {x \in Live(R) \ {s} :
     \/ x = own
     \/ s # own /\ (\/ R[x].createdAt > R[s].createdAt
                    \/ R[x].createdAt = R[s].createdAt /\ x > s)}

(* createSessionWithLimit: clean, insert and prune in one batch. *)
Cleaned(R, at) == [s \in Sids |-> IF R[s].expiresAt <= at THEN NoRow ELSE R[s]]
MutNoPrune(R, own) == R
Pruned(R, own) ==
  [s \in Sids |-> IF Cardinality(Ahead(R, own, s)) >= MaxSessions THEN NoRow ELSE R[s]]
WithSession(s, row, at) ==
  IF MaxSessions = 0 THEN [rows EXCEPT ![s] = row]
  ELSE Pruned([Cleaned(rows, at) EXCEPT ![s] = row], s)

(* The insert fails when the id is there already, live or expired.  The    *)
(* exchange of a ticket then answers what it finds, also when the insert   *)
(* was applied and only its answer lost; any other sign-in fails.          *)
Taken(q) == (IF MaxSessions = 0 THEN rows ELSE Cleaned(rows, q.at))[q.sid].cur # 0
Winner(q) ==
  IF q.op = "ticket" THEN [q EXCEPT !.op = "winner", !.pc = "winner", !.new = 0, !.at = 0]
  ELSE Idle

Create(r) ==
  LET q   == req[r]
      row == [NoRow EXCEPT !.cur = q.new, !.expiresAt = expOf[q.new], !.createdAt = q.at]
      R   == WithSession(q.sid, row, q.at)
  IN  /\ q.pc = "create" /\ ~Taken(q)
      /\ rows' = R
      /\ closed' = Deleting(R)
      /\ \E p \in {Answering(q, q.new), Winner(q)} : req' = [req EXCEPT ![r] = p]
      /\ UNCHANGED <<now, signed, sidOf, expOf, held, heir, told>>

CreateFails(r) ==
  /\ req[r].pc = "create" /\ Taken(req[r])
  /\ Become(r, Winner(req[r]))

-----------------------------------------------------------------------------
(* Refresh and sign-out. *)

(* What should no longer be exchanged: a token whose session was deleted,  *)
(* or one rotated away longer ago than the grace period.                   *)
GivenUp(t) == \/ t \in closed
              \/ heir[t].to # 0 /\ now - heir[t].at > GracePeriod

(* POST /auth/refresh or /auth/signout, past the signature and its expiry. *)
Ask(r, op, t) ==
  /\ req[r].pc = "idle" /\ now < expOf[t]
  /\ req' = [req EXCEPT ![r] = [Idle EXCEPT !.op = op, !.pc = "current", !.tok = t,
                                  !.late = GivenUp(t)]]
  /\ UNCHANGED <<now, rows, signed, sidOf, expOf, held, heir, closed, told>>

MutAnyAge(s) == TRUE
isWithinRefreshTokenGrace(s) == now - rows[s].rotatedAt <= GracePeriod

(* getSessionByRefreshToken, its first statement. *)
LookupCurrent(r) ==
  LET q == req[r]
      found == {s \in Sids : rows[s].cur = q.tok}
  IN  /\ q.pc = "current"
      /\ \/ found = {} /\ Become(r, [q EXCEPT !.pc = "previous"])
         \/ \E s \in found :
              \/ /\ q.op = "refresh"
                 /\ Sign(s)
                 /\ req' = [req EXCEPT ![r].pc = "swap", ![r].sid = s, ![r].new = signed + 1]
                 /\ UNCHANGED <<now, rows, held, heir, closed, told>>
              \/ q.op = "lost" /\ Become(r, Idle)
              \/ q.op = "signout" /\ Become(r, [q EXCEPT !.pc = "hook", !.sid = s])

(* Its second statement, and what the callers make of a previous token. *)
LookupPrevious(r) ==
  LET q == req[r]
      found == {s \in Sids : rows[s].prev = q.tok}
  IN  /\ q.pc = "previous"
      /\ \/ found = {} /\ Become(r, Idle)
         \/ \E s \in found :
              \/ /\ q.op \in {"refresh", "lost"} /\ isWithinRefreshTokenGrace(s)
                 /\ Become(r, Answering(q, rows[s].cur))
              \/ /\ q.op = "refresh" /\ ~isWithinRefreshTokenGrace(s)
                 /\ Become(r, [q EXCEPT !.pc = "revoke", !.sid = s])
              \/ /\ q.op = "lost" /\ ~isWithinRefreshTokenGrace(s)
                 /\ Become(r, Idle)
              \/ q.op = "signout" /\ Become(r, [q EXCEPT !.pc = "hook", !.sid = s])

(* compareAndSwapUserSession: the WHERE clause of the UPDATE. *)
MutSwapById(s, t) == rows[s].cur # 0 /\ rows[s].expiresAt > now
StillCurrent(s, t) == rows[s].cur = t /\ rows[s].expiresAt > now

Rotated(s, q) ==
  [rows[s] EXCEPT !.cur = q.new, !.prev = q.tok, !.rotatedAt = now, !.expiresAt = expOf[q.new]]

SwapWins(r) ==
  LET q == req[r]
  IN  /\ q.pc = "swap" /\ StillCurrent(q.sid, q.tok)
      /\ rows' = [rows EXCEPT ![q.sid] = Rotated(q.sid, q)]
      /\ heir' = [heir EXCEPT ![q.tok] = [to |-> q.new, at |-> now]]
      /\ req' = [req EXCEPT ![r] = Answering(q, q.new)]
      /\ UNCHANGED <<now, signed, sidOf, expOf, held, closed, told>>

(* Another rotation was first: the token signed here is dropped, and the   *)
(* token presented is looked up again.                                     *)
MutOwnToken(q) == Answering(q, q.new)
LookAgain(q) == [q EXCEPT !.op = "lost", !.pc = "current", !.new = 0]

SwapLoses(r) ==
  /\ req[r].pc = "swap" /\ ~StillCurrent(req[r].sid, req[r].tok)
  /\ Become(r, LookAgain(req[r]))

(* The response, once onTokenRefresh and the access token are awaited. *)
Answer(r) ==
  LET q == req[r]
  IN  /\ q.pc = "answer"
      /\ held' = held \cup {q.new}
      /\ told' = IF q.tok = 0 THEN told ELSE told \cup {<<q.tok, q.new>>}
      /\ req' = [req EXCEPT ![r] = Idle]
      /\ UNCHANGED <<now, rows, signed, sidOf, expOf, heir, closed>>

(* deleteSession after a reuse beyond the grace period, or after the       *)
(* beforeSignOut hook: by the id found then, whatever was rotated since.   *)
DeleteSession(r) ==
  LET q == req[r]
  IN  /\ q.pc \in {"revoke", "hook"}
      /\ rows' = WithoutSession(q)
      /\ closed' = Deleting(WithoutSession(q)) \cup Ended(q.sid)
      /\ req' = [req EXCEPT ![r] = Idle]
      /\ UNCHANGED <<now, signed, sidOf, expOf, held, heir, told>>

-----------------------------------------------------------------------------
(* The rest of the server. *)

(* deleteAllUserSessions: by a password reset, or by a password change,    *)
(* which goes on to sign in again.                                         *)
DeleteAll(r) ==
  /\ req[r].pc = "idle"
  /\ rows' = [s \in Sids |-> NoRow]
  /\ closed' = Deleting([s \in Sids |-> NoRow])
  /\ \E pc \in {"idle", "sign"} : req' = [req EXCEPT ![r].pc = pc]
  /\ UNCHANGED <<now, signed, sidOf, expOf, held, heir, told>>

(* deleteSessionForUser, and cleanExpiredSessions by the daily cron. *)
DeleteOne(s) ==
  /\ rows[s].cur # 0
  /\ rows' = [rows EXCEPT ![s] = NoRow]
  /\ closed' = closed \cup Ended(s)
  /\ UNCHANGED <<now, signed, sidOf, expOf, req, held, heir, told>>

CleanExpired ==
  LET R == [s \in Sids |-> IF rows[s].expiresAt < now THEN NoRow ELSE rows[s]]
  IN  /\ \E s \in Live(rows) : rows[s].expiresAt < now
      /\ rows' = R /\ closed' = Deleting(R)
      /\ UNCHANGED <<now, signed, sidOf, expOf, req, held, heir, told>>

(* The isolate or the connection dies, or a hook denies: no answer. *)
Die(r) == req[r].pc # "idle" /\ Become(r, Idle)

Tick ==
  /\ \E t \in Times : now < t /\ now' = t
  /\ UNCHANGED <<rows, signed, sidOf, expOf, req, held, heir, closed, told>>

Next ==
  \/ \E r \in Reqs :
       \/ \E s \in Tickets : Exchange(r, s)
       \/ ReuseWinner(r) \/ DeleteExpired(r) \/ SignIn(r) \/ Create(r) \/ CreateFails(r)
       \/ \E t \in held : Ask(r, "refresh", t) \/ Ask(r, "signout", t)
       \/ LookupCurrent(r) \/ LookupPrevious(r)
       \/ SwapWins(r) \/ SwapLoses(r)
       \/ Answer(r) \/ DeleteSession(r) \/ DeleteAll(r) \/ Die(r)
  \/ \E s \in Sids : DeleteOne(s)
  \/ CleanExpired
  \/ Tick

Spec == Init /\ [][Next]_vars
-----------------------------------------------------------------------------
(* Properties. *)

(* Types: what _sessions, the requests and the histories range over. *)
TypeOK ==
  /\ now \in Nat /\ rows \in [Sids -> Row]
  /\ signed \in 0..MaxToken
  /\ sidOf \in [Tokens -> Sids \cup {-1}] /\ expOf \in [Tokens -> Nat]
  /\ req \in [Reqs -> Req]
  /\ held \subseteq Tokens
  /\ heir \in [Tokens -> [to : 0..MaxToken, at : Nat]]
  /\ closed \subseteq Tokens /\ told \subseteq Tokens \X Tokens

(* Retries of one token converge: every answer a token ever gets is its    *)
(* one replacement, however the swap, the two lookups and the second       *)
(* lookup of the loser interleave.                                         *)
RetriesConverge == \A a \in told : a[2] = heir[a[1]].to

(* A token that was given up before it was presented, because its session  *)
(* was deleted or its grace period had passed, is never answered, even if  *)
(* rotations, sign-outs and lookups of other requests interleave with it.  *)
LateAsksAreRefused ==
  \A r \in Reqs : req[r].pc = "answer" => ~req[r].late

(* What was signed out, revoked or pruned does not come back: no token of  *)
(* a deleted session is one that a row accepts again, although the token   *)
(* may rotate while the beforeSignOut hook is awaited and a rotation may   *)
(* be about to write when its session is deleted; and a session id comes   *)
(* back only with a ticket that gives it, with tokens of its own.          *)
ClosedStaysClosed ==
  \A s \in Sids, t \in closed :
    /\ t \notin {rows[s].cur, rows[s].prev}
    /\ sidOf[t] = s /\ s \notin Tickets => rows[s].cur = 0

(* maxActiveSessions holds whatever sign-ins run at the same time. *)
SessionLimit == MaxSessions # 0 => Cardinality(Live(rows)) <= MaxSessions

(* A sign-in does not evict the session it has just created, not even when *)
(* another sign-in read a later clock and wrote first.                     *)
NewSessionSurvives ==
  [][\A r \in Reqs : req[r].pc = "create" /\ req'[r].pc = "answer"
                       => rows'[req[r].sid].cur = req[r].new]_vars

(* The lineage of the tokens, as clients see it (TokenLineage). *)
Lineage == INSTANCE TokenLineage WITH
  head <- [s \in Sids |-> rows[s].cur], ended <- closed,
  heir <- [t \in Tokens |-> heir[t].to]
ImplementsLineage == Lineage!Spec
=============================================================================
