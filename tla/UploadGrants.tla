----------------------------- MODULE UploadGrants -----------------------------
(***************************************************************************)
(* One signed upload grant with a maxFileSize:                             *)
(* packages/server/src/lib/signed-upload-grants.ts and the upload and      *)
(* multipart handlers of routes/storage.ts.                                *)
(*                                                                         *)
(* Requests meet in three places: the grant's marker object in R2, the     *)
(* multipart sessions of R2, and the tracked parts in KV.  Every call to   *)
(* one of them is atomic and any other request, the clock and the cleanup  *)
(* may run before the next.  A check of the expiry is one step with a read *)
(* that follows it, never with a write.                                    *)
(*                                                                         *)
(* A conditional put compares ETags, and R2 computes an ETag from the      *)
(* body.  A claim has a random body; every other marker is written without *)
(* a body and has the ETag of the empty one.                               *)
(***************************************************************************)
EXTENDS Integers, FiniteSets, FiniteSetsExt

CONSTANTS
  Reqs,        \* requests that carry the grant's token
  Parts,       \* part numbers
  Sizes,       \* sizes a part may have; two bodies of one size are the same
  MaxBytes,    \* claims.maxBytes
  ExpiresAt,   \* claims.expiresAt
  MaxTime      \* bound on the clock

ASSUME GrantAssumption ==
  /\ Parts \subseteq Nat /\ IsFiniteSet(Parts) /\ Parts # {}
  /\ Sizes \subseteq Nat \ {0} /\ Sizes # {}
  /\ MaxBytes \in Nat /\ ExpiresAt \in Nat /\ MaxTime \in Nat

VARIABLES
  now,       \* Date.now()
  marker,    \* the marker object, or NoMarker
  claims,    \* claims written so far
  session,   \* the R2 multipart session created under the first claim
  stored,    \* [Parts -> Nat]: size of each part stored in R2, 0 for none
  tracked,   \* [Parts -> Nat]: the same, as KV has it
  req,       \* [Reqs -> Req]
  object,    \* size of the object written, 0 for none
  admitted,  \* uploads let through: single bodies and sessions (history)
  cleanups,  \* markers deleted by the cleanup (history)
  sent       \* bytes of parts passed on to R2 (history)

vars == <<now, marker, claims, session, stored, tracked, req, object, admitted, cleanups, sent>>
r2   == <<session, stored, object>>
hist == <<admitted, cleanups, sent>>

States == {"used", "creating", "multipart", "failed"}
Marker == [state : States, etag : Nat, reserved : 0..MaxBytes]
NoMarker == [state |-> "none", etag |-> 0, reserved |-> 0]
NoParts == [p \in Parts |-> 0]

Pcs == {"idle", "consume", "body", "claim", "create", "bind", "abandon", "terminate", "read", "reserve", "send",
        "track", "store", "over", "check", "complete", "abort"}
Req == [pc : Pcs, part : Parts, size : Sizes, seen : Marker \cup {NoMarker},
        list : [Parts -> Nat]]
Idle == [pc |-> "idle", part |-> CHOOSE p \in Parts : TRUE, size |-> CHOOSE s \in Sizes : TRUE,
         seen |-> NoMarker, list |-> NoParts]

Init ==
  /\ now = 0 /\ marker = NoMarker /\ claims = 0
  /\ session = "none" /\ stored = NoParts /\ tracked = NoParts /\ object = 0
  /\ req = [r \in Reqs |-> Idle] /\ admitted = 0 /\ cleanups = 0 /\ sent = 0

-----------------------------------------------------------------------------
(* R2's conditional puts on the marker: etagDoesNotMatch "*", etagMatches. *)

MutNoClaim == TRUE
Absent == marker = NoMarker
Unchanged(m) == marker.state # "none" /\ marker.etag = m.etag

Put(state, reserved) == marker' = [state |-> state, etag |-> 0, reserved |-> reserved]

(* The ETag of the claim's body, createSignedUploadGrantId(). *)
MutClaimEtag == 0
ClaimEtag == claims + 1

Valid == now < ExpiresAt
To(r, pc) == req' = [req EXCEPT ![r].pc = pc]
End(r) == req' = [req EXCEPT ![r] = Idle]

-----------------------------------------------------------------------------
(* POST /upload: consumeSignedUploadGrant, its check and its put, before   *)
(* the body is read; then the size of the body, the hooks and the object.  *)
BeginUpload(r) ==
  /\ req[r].pc = "idle" /\ Valid
  /\ To(r, "consume")
  /\ UNCHANGED <<now, marker, claims, r2, tracked, hist>>

Consume(r) ==
  /\ req[r].pc = "consume"
  /\ IF Absent
     THEN Put("used", 0) /\ To(r, "body") /\ admitted' = admitted + 1
     ELSE End(r) /\ UNCHANGED <<marker, admitted>>
  /\ UNCHANGED <<now, claims, r2, tracked, cleanups, sent>>

BodyFits(size) == size <= MaxBytes

WriteBody(r) ==
  /\ req[r].pc = "body" /\ End(r)
  /\ \E size \in 1..MaxBytes + 1 : object' = IF BodyFits(size) THEN size ELSE object
  /\ UNCHANGED <<now, marker, claims, session, stored, tracked, hist>>

(* POST /multipart/create: the token is active and not expired; then it is *)
(* claimed, in competition with every other request that found it so.      *)
BeginCreate(r) ==
  /\ req[r].pc = "idle" /\ Valid /\ marker = NoMarker
  /\ To(r, "claim")
  /\ UNCHANGED <<now, marker, claims, r2, tracked, hist>>

ClaimGrant(r) ==
  /\ req[r].pc = "claim"
  /\ IF Absent
     THEN /\ marker' = [state |-> "creating", etag |-> ClaimEtag, reserved |-> 0]
          /\ claims' = claims + 1
          /\ req' = [req EXCEPT ![r].pc = "create", ![r].seen = marker']
     ELSE End(r) /\ UNCHANGED <<marker, claims>>
  /\ UNCHANGED <<now, r2, tracked, hist>>

(* createMultipartUpload, and the expiry as bindSignedMultipartUploadGrant *)
(* then checks it; the call may fail with the session created or not.  A   *)
(* second claim comes after a cleanup, so its session meets an expired     *)
(* grant: it is counted, and nothing else is ever done with it.            *)
CreateSession(r) ==
  /\ req[r].pc = "create"
  /\ \/ /\ session' = IF req[r].seen.etag = 1 THEN "open" ELSE session
        /\ admitted' = admitted + 1
        /\ \/ Valid /\ To(r, "bind")
           \/ ~Valid /\ To(r, "abandon")
           \/ To(r, "terminate")
     \/ UNCHANGED <<session, admitted>> /\ To(r, "terminate")
  /\ UNCHANGED <<now, marker, claims, stored, tracked, object, cleanups, sent>>

(* The put that binds the session; the answer of one that was applied may  *)
(* be lost, which the handler cannot tell from a refusal.                  *)
Bind(r) ==
  /\ req[r].pc = "bind"
  /\ IF Unchanged(req[r].seen)
     THEN Put("multipart", 0) /\ (End(r) \/ To(r, "abandon"))
     ELSE UNCHANGED marker /\ To(r, "abandon")
  /\ UNCHANGED <<now, claims, r2, tracked, hist>>

(* The session is aborted, which may fail unnoticed. *)
Abandon(r) ==
  /\ req[r].pc = "abandon" /\ To(r, "terminate")
  /\ session' \in IF session = "open" /\ req[r].seen.etag = 1 THEN {"open", "aborted"} ELSE {session}
  /\ UNCHANGED <<now, marker, claims, stored, tracked, object, hist>>

Terminate(r) ==
  /\ req[r].pc = "terminate" /\ End(r)
  /\ IF Unchanged(req[r].seen) THEN Put("failed", 0) ELSE UNCHANGED marker
  /\ UNCHANGED <<now, claims, r2, tracked, hist>>

-----------------------------------------------------------------------------
(* Continuations: the token is valid and bound to the session. *)

Continue(r, q) ==
  /\ req[r].pc = "idle" /\ Valid /\ marker.state = "multipart"
  /\ req' = [req EXCEPT ![r] = q]
  /\ UNCHANGED <<now, marker, claims, r2, tracked, hist>>

(* POST /multipart/upload-part. *)
BeginPart(r) ==
  \E p \in Parts, s \in Sizes : Continue(r, [Idle EXCEPT !.pc = "read", !.part = p, !.size = s])

(* reserveSignedMultipartUploadBytes: head, then a conditional put; a      *)
(* refused put starts over.                                                *)
ReadReserved(r) ==
  /\ req[r].pc = "read"
  /\ IF marker.state = "multipart"
     THEN req' = [req EXCEPT ![r].pc = "reserve", ![r].seen = marker]
     ELSE End(r)
  /\ UNCHANGED <<now, marker, claims, r2, tracked, hist>>

MutNoLimit(m, s) == TRUE
Fits(m, s) == s <= MaxBytes - m.reserved

Reserve(r) ==
  LET q == req[r]
  IN  /\ q.pc = "reserve"
      /\ IF ~Unchanged(q.seen) THEN UNCHANGED marker /\ To(r, "read")
         ELSE IF Fits(q.seen, q.size) THEN Put("multipart", q.seen.reserved + q.size) /\ To(r, "send")
         ELSE Put("failed", q.seen.reserved) /\ To(r, "over")
      /\ UNCHANGED <<now, claims, r2, tracked, hist>>

SendPart(r) ==
  /\ req[r].pc = "send"
  /\ IF session = "open"
     THEN /\ stored' = [stored EXCEPT ![req[r].part] = req[r].size] /\ To(r, "track")
          /\ sent' = sent + req[r].size
     ELSE UNCHANGED <<stored, sent>> /\ End(r)
  /\ UNCHANGED <<now, marker, claims, session, tracked, object, admitted, cleanups>>

(* KV.get, then KV.put of the whole list. *)
ReadTracked(r) ==
  /\ req[r].pc = "track"
  /\ req' = [req EXCEPT ![r].pc = "store", ![r].list = tracked]
  /\ UNCHANGED <<now, marker, claims, r2, tracked, hist>>

Track(r) ==
  /\ req[r].pc = "store" /\ End(r)
  /\ tracked' = [req[r].list EXCEPT ![req[r].part] = req[r].size]
  /\ UNCHANGED <<now, marker, claims, r2, hist>>

(* The session is aborted and its tracked parts forgotten.  After a part   *)
(* too many a failing abort goes unnoticed, as a failing KV.delete always  *)
(* does.                                                                   *)
AbortSession(r) ==
  /\ req[r].pc \in {"over", "abort"} /\ End(r)
  /\ \/ session = "open" /\ session' = "aborted"
     \/ (session # "open" \/ req[r].pc = "over") /\ UNCHANGED session
  /\ tracked' \in {tracked, NoParts}
  /\ UNCHANGED <<now, marker, claims, stored, object, hist>>

(* POST /multipart/abort. *)
BeginAbort(r) == Continue(r, [Idle EXCEPT !.pc = "abort"])

(* POST /multipart/complete: the client lists parts with their ETags. *)
BeginComplete(r) ==
  \E l \in [Parts -> Sizes \cup {0}] :
    l # NoParts /\ Continue(r, [Idle EXCEPT !.pc = "check", !.list = l])

Listed(l) == {p \in Parts : l[p] # 0}
Total(sizes) == MapThenSumSet(LAMBDA p : sizes[p], DOMAIN sizes)
SizesOf(f, l) == [p \in Listed(l) |-> f[p]]

(* assertSignedMultipartSizeWithinLimit: sizes come from the tracked parts. *)
MutSkipTracked(l) == TRUE
IsTracked(l) == \A p \in Listed(l) : tracked[p] = l[p]

CheckSizes(r) ==
  LET l == req[r].list
  IN  /\ req[r].pc = "check"
      /\ IF IsTracked(l) /\ Total(SizesOf(tracked, l)) <= MaxBytes THEN To(r, "complete") ELSE End(r)
      /\ UNCHANGED <<now, marker, claims, r2, tracked, hist>>

Complete(r) ==
  LET l == req[r].list
  IN  /\ req[r].pc = "complete" /\ End(r)
      /\ IF session = "open" /\ \A p \in Listed(l) : stored[p] = l[p]
         THEN /\ session' = "complete" /\ object' = Total(SizesOf(stored, l))
              /\ tracked' \in {tracked, NoParts}
         ELSE UNCHANGED <<session, object, tracked>>
      /\ UNCHANGED <<now, marker, claims, stored, hist>>

-----------------------------------------------------------------------------
(* The isolate or the connection dies. *)
Die(r) ==
  /\ req[r].pc # "idle" /\ End(r)
  /\ UNCHANGED <<now, marker, claims, r2, tracked, hist>>

(* cleanupExpiredSignedUploadGrants. *)
Cleanup ==
  /\ marker # NoMarker /\ ExpiresAt <= now
  /\ marker' = NoMarker /\ cleanups' = cleanups + 1
  /\ UNCHANGED <<now, claims, r2, tracked, req, admitted, sent>>

Tick ==
  /\ now < MaxTime /\ now' = now + 1
  /\ UNCHANGED <<marker, claims, r2, tracked, req, hist>>

Next ==
  \/ \E r \in Reqs :
       \/ BeginUpload(r) \/ Consume(r) \/ WriteBody(r)
       \/ BeginCreate(r) \/ ClaimGrant(r) \/ CreateSession(r) \/ Bind(r) \/ Abandon(r)
       \/ Terminate(r)
       \/ BeginPart(r) \/ ReadReserved(r) \/ Reserve(r) \/ SendPart(r)
       \/ ReadTracked(r) \/ Track(r)
       \/ BeginAbort(r) \/ AbortSession(r)
       \/ BeginComplete(r) \/ CheckSizes(r) \/ Complete(r)
       \/ Die(r)
  \/ Cleanup \/ Tick

Spec == Init /\ [][Next]_vars
-----------------------------------------------------------------------------
(* Properties. *)

(* Types; a marker never counts more than maxFileSize as reserved, which   *)
(* the code would report as an invalid reservation state.                  *)
TypeOK ==
  /\ now \in 0..MaxTime /\ marker \in Marker \cup {NoMarker} /\ claims \in Nat
  /\ session \in {"none", "open", "aborted", "complete"}
  /\ stored \in [Parts -> Nat] /\ tracked \in [Parts -> Nat]
  /\ req \in [Reqs -> Req]
  /\ object \in Nat /\ admitted \in Nat /\ cleanups \in Nat /\ sent \in Nat

(* A marker lets one upload through, a single body or one session, however *)
(* the requests that found the grant unused race, fail half-way or come    *)
(* back.  So a grant lets one through while it is valid, and a second only *)
(* if the cleanup has deleted the marker of an expired grant under a       *)
(* request that had found it valid.                                        *)
AtMostOneUpload == admitted <= 1 + cleanups

(* The object that a grant can leave behind is within maxFileSize: the     *)
(* sizes checked are those of the parts that are then put together.        *)
ObjectFits == object <= MaxBytes

(* A claim is bound or failed by the request that made it or deleted by    *)
(* the cleanup: its random body protects it from every write that compares *)
(* with a marker seen earlier, as a reservation does that was under way    *)
(* when the marker it read was deleted (claimSignedMultipartUploadGrant).  *)
ClaimIsKept ==
  [][marker.state = "creating" =>
       \/ marker' \in {marker, NoMarker}
       \/ \E r \in Reqs : req[r].seen = marker /\ req[r].pc \in {"bind", "terminate"}]_vars

-----------------------------------------------------------------------------
(* What the documentation promises. *)

(* docs/docs/storage/signed-urls.md:499-503: "Before writing a part to R2, *)
(* EdgeBase atomically reserves that declared length against the grant's   *)
(* aggregate byte budget; concurrent parts cannot reserve more than        *)
(* maxFileSize."                                                           *)
SentWithinBudget == sent <= MaxBytes
=============================================================================
