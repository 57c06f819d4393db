-------------------------- MODULE TokenTabs_proofs --------------------------
(***************************************************************************)
(* Proofs about TokenTabs.                                                 *)
(***************************************************************************)
EXTENDS TokenTabs, SequenceTheorems, TLAPS

-----------------------------------------------------------------------------
(* The inductive invariant *)

(* The types of the history variables. *)
HistoryTypes ==
  /\ sidOf \in [Tokens -> Sids \cup {0}] /\ ended \subseteq Sids
  /\ outs \in Nat /\ crashes \in Nat

(* The epoch counts what ends a session or begins one: what began in this  *)
(* epoch began after the last sign-out.                                    *)
EpochInv ==
  \A t \in Tabs :
    /\ ref[t].ep <= epoch /\ auth[t].ep <= epoch
    /\ ref[t].pc # "idle" /\ ref[t].ep = epoch => ref[t].seen = outs
    /\ auth[t].pc \in {"asked", "answered"} /\ auth[t].ep = epoch => auth[t].seen = outs

(* A tab that has an access token though nothing is stored has the event   *)
(* coming that takes it.                                                   *)
AccessInv ==
  \A t \in Tabs :
    /\ access[t] # 0 => token # 0 \/ nulled[t]
    /\ auth[t].pc = "answered" => auth[t].tok # 0

(* One request at a time. *)
MutexInv ==
  \A t \in Tabs :
    /\ ref[t].pc = "asked" => mutex = <<t, "refresh">>
    /\ auth[t].pc \in {"asked", "answered", "revoking"} => mutex = <<t, "auth">>

(* Every token was issued for one session, and an answer is not the token  *)
(* that was asked with.                                                    *)
TokenInv ==
  /\ \A k \in Tokens : sidOf[k] # 0 => k <= issued /\ sidOf[k] <= signIns
  /\ \A s \in Sids : /\ rows[s].cur # 0 => sidOf[rows[s].cur] = s
                     /\ rows[s].prev # 0 => sidOf[rows[s].prev] = s
  /\ \A t \in Tabs : /\ ref[t].pc \in {"write", "verify", "queued"} => ref[t].tok # 0
                     /\ ref[t].pc = "asked" => ref[t].ask # 0
                     /\ ref[t].pc = "answered" => ref[t].ans # ref[t].ask

(* A message on its way. *)
Said(k) == \E t \in Tabs : \E i \in DOMAIN inbox[t] : inbox[t][i] = k

(* A refresh of this epoch that has a token to send. *)
Sending(t) == ref[t].pc \in {"write", "verify", "queued"} /\ ref[t].ep = epoch

(* A refresh whose request is not over. *)
Pending(t) == ref[t].pc \in {"asked", "answered"}

(* While a request of one tab is not over, no other has one, and nothing   *)
(* is on its way but sign-outs of a later epoch.                           *)
AloneInv ==
  \A t \in Tabs :
    /\ Pending(t) =>
         /\ \A u \in Tabs : Pending(u) => u = t
         /\ \A k \in 0..MaxToken : Said(k) => k = 0 /\ ref[t].ep # epoch
    /\ auth[t].pc = "answered" =>
         /\ \A u \in Tabs : ~Pending(u)
         /\ \A k \in 0..MaxToken : Said(k) => k = 0 /\ auth[t].ep # epoch

(* Messages tell one token, and the storage has no other. *)
MessageInv ==
  \A k, l \in Tokens : Said(k) => (token = l \/ Said(l) => k = l)

(* When nothing is stored, or a sign-out on its way may remove what is,    *)
(* there is one token that can be sent.                                    *)
Current(k) == token = k \/ Said(k) \/ \E t \in Tabs : Sending(t) /\ ref[t].tok = k
OneInv == token = 0 \/ Said(0) => \A k, l \in Tokens : Current(k) /\ Current(l) => k = l

(* What is asked is what is stored, or would be sent if nothing is. *)
AskInv ==
  \A t \in Tabs : ref[t].pc = "asked" =>
    /\ token \in {0, ref[t].ask}
    /\ ref[t].ep # epoch => token = 0 /\ \A u \in Tabs : ~Sending(u)
    /\ token = 0 => \A u \in Tabs : Sending(u) => ref[u].tok = ref[t].ask

(* The session lives by the token, or was ended at a sign-out, or the      *)
(* token was rotated and no tab has stored the one that replaced it.       *)
Honoured(k) ==
  /\ sidOf[k] \in Sids
  /\ \/ sidOf[k] \in ended
     \/ rows[sidOf[k]].cur = k
     \/ k \in lost

(* The tokens that may still be sent. *)
Kept(k) ==
  \/ token = k \/ Said(k)
  \/ (token = 0 \/ Said(0)) /\ \E t \in Tabs : Sending(t) /\ ref[t].tok = k
  \/ \E t \in Tabs : \/ ref[t].pc = "asked" /\ ref[t].ask = k
                     \/ ref[t].pc = "answered" /\ ref[t].ans = k
HonourInv ==
  /\ \A k \in Tokens : Kept(k) => Honoured(k)
  /\ \A t \in Tabs : auth[t].pc = "answered" =>
       sidOf[auth[t].tok] \in Sids /\ rows[sidOf[auth[t].tok]].cur = auth[t].tok
  /\ \A t \in Tabs : ref[t].pc = "answered" /\ ref[t].ans = Denied
       => /\ ref[t].ask # 0
          /\ sidOf[ref[t].ask] \in ended \/ ref[t].ask \in lost

PromptInv == AloneInv /\ MessageInv /\ OneInv /\ AskInv /\ HonourInv

IInv ==
  /\ TypeOK /\ HistoryTypes /\ EpochInv /\ AccessInv /\ MutexInv /\ TokenInv
  /\ prompt => PromptInv

-----------------------------------------------------------------------------
(* Types *)

(* The numbers of the model. *)
LEMMA Numbers ==
  /\ MaxToken \in Nat /\ MaxLate \in Nat /\ MaxLate <= MaxToken
  /\ MaxSignIns \in Nat /\ MaxSignOuts \in Nat /\ MaxCrash \in Nat
  /\ NoTab \notin Tabs /\ Environments \subseteq BOOLEAN
  /\ 0 \in 0..MaxToken /\ 0 \notin Sids /\ Tokens \subseteq 0..MaxToken
BY TabAssumption DEF Tokens, Sids

(* The records that stand for nothing have their types. *)
LEMMA NothingTypes ==
  /\ Quiet \in Ref /\ Still \in Auth
  /\ NoLock \in [held : BOOLEAN, owner : Tabs \cup {NoTab}, fresh : BOOLEAN]
  /\ <<NoTab, "refresh">> \in (Tabs \cup {NoTab}) \X {"refresh", "auth"}
<1>1. Quiet \in Ref
  BY Numbers DEF Quiet, Ref
<1>2. Still \in Auth
  BY Numbers DEF Still, Auth
<1> QED
  BY <1>1, <1>2 DEF NoLock

(* The initial state satisfies the inductive invariant. *)
LEMMA InitHolds == Init => IInv
<1> SUFFICES ASSUME Init PROVE IInv
  OBVIOUS
<1> DEFINE row == [cur |-> 0, prev |-> 0, grace |-> FALSE]
<1>0. row \in [cur : 0..MaxToken, prev : 0..MaxToken, grace : BOOLEAN]
      /\ row.cur = 0 /\ row.prev = 0
  BY Numbers
<1>1. rows = [s \in Sids |-> row]
  BY DEF Init
<1>2. Quiet.ep = 0 /\ Quiet.pc = "idle" /\ Still.ep = 0 /\ Still.pc = "idle"
  BY DEF Quiet, Still
<1>3. TypeOK
  <2> HIDE DEF row
  <2>1. token \in 0..MaxToken /\ epoch \in Nat /\ lock = NoLock /\ mutex = <<NoTab, "refresh">>
        /\ issued \in 0..MaxToken /\ signIns \in 0..MaxSignIns
    BY Numbers DEF Init
  <2>2. /\ access \in [Tabs -> 0..MaxToken] /\ ref \in [Tabs -> Ref] /\ auth \in [Tabs -> Auth]
        /\ rows \in [Sids -> [cur : 0..MaxToken, prev : 0..MaxToken, grace : BOOLEAN]]
    BY <1>0, <1>1, Numbers, NothingTypes DEF Init
  <2>3. nulled \in [Tabs -> BOOLEAN]
    BY DEF Init
  <2>4. out \in BOOLEAN
    BY DEF Init
  <2>5. inbox \in [Tabs -> Seq(0..MaxToken)]
    BY DEF Init
  <2>6. prompt \in Environments
    BY DEF Init
  <2> QED
    BY <2>1, <2>2, <2>3, <2>4, <2>5, <2>6, NothingTypes DEF TypeOK
<1>4. HistoryTypes /\ EpochInv /\ AccessInv /\ MutexInv
  BY <1>2, Numbers DEF Init, HistoryTypes, EpochInv, AccessInv, MutexInv
<1>5. TokenInv
  BY <1>0, <1>1, <1>2, Numbers DEF Init, TokenInv
<1>6. /\ \A t \in Tabs : ref[t] = Quiet /\ auth[t] = Still /\ inbox[t] = <<>>
      /\ token = 0
  BY DEF Init
<1>7. /\ \A k : ~Said(k)
      /\ \A t \in Tabs : ~Pending(t) /\ ~Sending(t) /\ ref[t].pc = "idle" /\ auth[t].pc = "idle"
      /\ 0 \notin Tokens
  BY <1>2, <1>6 DEF Said, Pending, Sending, Tokens
<1>8. PromptInv
  BY <1>6, <1>7
  DEF PromptInv, AloneInv, MessageInv, OneInv, Current, AskInv, HonourInv, Kept
<1> QED
  BY <1>3, <1>4, <1>5, <1>8 DEF IInv

(* A message posted leaves sequences of messages.                          *)
LEMMA PostType ==
  ASSUME TypeOK, NEW t \in Tabs, NEW m \in 0..MaxToken, Post(t, m)
  PROVE  inbox' \in [Tabs -> Seq(0..MaxToken)]
<1>1. ASSUME NEW u \in Tabs
      PROVE  inbox[u] \in Seq(0..MaxToken) /\ Append(inbox[u], m) \in Seq(0..MaxToken)
  BY DEF TypeOK
<1> QED
  BY <1>1 DEF Post

(* So does a message taken, which is one of them.                          *)
LEMMA TakenType ==
  ASSUME TypeOK, NEW t \in Tabs, inbox[t] # <<>>, inbox' = [inbox EXCEPT ![t] = Tail(@)]
  PROVE  /\ inbox' \in [Tabs -> Seq(0..MaxToken)]
         /\ Head(inbox[t]) \in 0..MaxToken
<1>1. inbox \in [Tabs -> Seq(0..MaxToken)] /\ inbox[t] \in Seq(0..MaxToken)
  BY DEF TypeOK
<1>2. Tail(inbox[t]) \in Seq(0..MaxToken) /\ Head(inbox[t]) \in 0..MaxToken
  BY <1>1, HeadTailProperties
<1> QED
  BY <1>1, <1>2

(* Clearing the tokens keeps the types of what it clears. *)
LEMMA ClearType ==
  ASSUME TypeOK, NEW t \in Tabs, ClearTokens(t)
  PROVE  /\ token' \in 0..MaxToken /\ epoch' \in Nat
         /\ lock' \in [held : BOOLEAN, owner : Tabs \cup {NoTab}, fresh : BOOLEAN]
         /\ access' \in [Tabs -> 0..MaxToken]
         /\ inbox' \in [Tabs -> Seq(0..MaxToken)] /\ nulled' \in [Tabs -> BOOLEAN]
<1>1. inbox' \in [Tabs -> Seq(0..MaxToken)]
  BY Numbers, PostType DEF ClearTokens
<1>2. nulled' \in [Tabs -> BOOLEAN]
  <2>1. \A u \in Tabs : (nulled[u] \/ (u # t /\ token # 0)) \in BOOLEAN
    OBVIOUS
  <2>2. nulled' = [u \in Tabs |-> nulled[u] \/ (u # t /\ token # 0)]
    BY DEF ClearTokens, Nulling
  <2> QED
    BY <2>1, <2>2, Zenon
<1>3. /\ token' \in 0..MaxToken /\ epoch' \in Nat
      /\ lock' \in [held : BOOLEAN, owner : Tabs \cup {NoTab}, fresh : BOOLEAN]
      /\ access' \in [Tabs -> 0..MaxToken]
  BY Numbers, NothingTypes DEF ClearTokens, TypeOK
<1> QED
  BY <1>1, <1>2, <1>3

(* A lock released is a lock. *)
LEMMA ReleasedType ==
  ASSUME TypeOK, NEW t \in Tabs
  PROVE  Released(t, lock) \in [held : BOOLEAN, owner : Tabs \cup {NoTab}, fresh : BOOLEAN]
BY NothingTypes DEF TypeOK, Released

(* The types of records and numbers, and those of flags and sequences. *)
Shapes ==
  /\ token \in 0..MaxToken /\ epoch \in Nat
  /\ lock \in [held : BOOLEAN, owner : Tabs \cup {NoTab}, fresh : BOOLEAN]
  /\ mutex \in (Tabs \cup {NoTab}) \X {"refresh", "auth"}
  /\ access \in [Tabs -> 0..MaxToken] /\ ref \in [Tabs -> Ref] /\ auth \in [Tabs -> Auth]
  /\ rows \in [Sids -> [cur : 0..MaxToken, prev : 0..MaxToken, grace : BOOLEAN]]
  /\ issued \in 0..MaxToken /\ signIns \in 0..MaxSignIns
Flags ==
  /\ inbox \in [Tabs -> Seq(0..MaxToken)] /\ nulled \in [Tabs -> BOOLEAN]
  /\ out \in BOOLEAN /\ prompt \in Environments

(* They are the types.                                                     *)
LEMMA TypeParts == (TypeOK <=> Shapes /\ Flags) /\ (TypeOK' <=> Shapes' /\ Flags')
BY Zenon DEF TypeOK, Shapes, Flags

(* Every step keeps the shapes. *)
LEMMA ShapesStep == TypeOK /\ HistoryTypes /\ [Next]_vars => Shapes'
<1> SUFFICES ASSUME TypeOK, HistoryTypes, [Next]_vars PROVE Shapes'
  OBVIOUS
<1> USE DEF server, store
<1>0. Shapes
  BY TypeParts
<1> USE Numbers, NothingTypes
<1>1. CASE UNCHANGED vars
  BY <1>0, <1>1 DEF vars, Shapes
<1>2. ASSUME NEW t \in Tabs, Start(t) PROVE Shapes'
  <2>1. ref' \in [Tabs -> Ref]
    BY <1>0, <1>2, Numbers DEF Start, Shapes, HistoryTypes, Ref, Quiet
  <2> QED
    BY <1>0, <1>2, <2>1 DEF Start, Shapes
<1>3. ASSUME NEW t \in Tabs, WriteLock(t) PROVE Shapes'
  BY <1>0, <1>3, SMTT(30) DEF WriteLock, Shapes, Ref, Auth
<1>4. ASSUME NEW t \in Tabs, Verify(t) PROVE Shapes'
  <2>1. ref' \in [Tabs -> Ref]
    <3>1. ref[t] \in Ref /\ token \in 0..MaxToken
      BY <1>0 DEF Shapes
    <3>2. /\ [ref[t] EXCEPT !.pc = "queued", !.tok = IF token # 0 THEN token ELSE ref[t].tok] \in Ref
          /\ [ref[t] EXCEPT !.pc = "wait"] \in Ref
      BY <3>1 DEF Ref
    <3> QED
      <4>1. \/ ref' = [ref EXCEPT ![t] = [ref[t] EXCEPT !.pc = "queued",
                                             !.tok = IF token # 0 THEN token ELSE ref[t].tok]]
            \/ ref' = [ref EXCEPT ![t] = [ref[t] EXCEPT !.pc = "wait"]]
            \/ ref' = [ref EXCEPT ![t] = Quiet]
        BY <1>4 DEF Verify
      <4> QED
        BY <1>0, <3>2, <4>1, NothingTypes DEF Shapes
  <2> QED
    BY <1>0, <1>4, <2>1 DEF Verify, Shapes
<1>5. ASSUME NEW t \in Tabs, Send(t) PROVE Shapes'
  <2>1. ref' \in [Tabs -> Ref]
    BY <1>0, <1>5, NothingTypes DEF Send, Shapes, Ref, LatestToken
  <2>2. lock' \in [held : BOOLEAN, owner : Tabs \cup {NoTab}, fresh : BOOLEAN]
    BY <1>0, <1>5, ReleasedType DEF Send, Shapes
  <2>3. mutex' \in (Tabs \cup {NoTab}) \X {"refresh", "auth"}
    BY <1>0, <1>5 DEF Send, Shapes
  <2> QED
    BY <1>0, <1>5, <2>1, <2>2, <2>3 DEF Send, Shapes
<1>6. ASSUME NEW t \in Tabs, ServerRefresh(t) PROVE Shapes'
  <2>1. /\ UNCHANGED <<signIns, ended, token, epoch, lock, access, auth>> /\ ref[t].pc = "asked"
        /\ Refreshed(t) \/ (Receive(t, Failed) /\ UNCHANGED <<rows, issued, sidOf, lost>>)
    BY <1>6 DEF ServerRefresh
  <2>2. ASSUME NEW v \in -2..MaxToken, Receive(t, v)
        PROVE  ref' \in [Tabs -> Ref] /\ mutex' \in (Tabs \cup {NoTab}) \X {"refresh", "auth"}
    BY <1>0, <2>2, NothingTypes DEF Receive, Shapes, Ref
  <2>3. Failed \in -2..MaxToken /\ Denied \in -2..MaxToken
    BY Numbers DEF Failed, Denied
  <2>4. ref[t].ask \in 0..MaxToken
    BY <1>0 DEF Shapes, Ref
  <2>5. ASSUME MayIssue PROVE issued + 1 \in 0..MaxToken /\ issued + 1 \in -2..MaxToken
    BY <1>0, <2>5, Numbers DEF MayIssue, Shapes
  <2>6. \A s \in Sids : rows[s].cur \in -2..MaxToken
    BY <1>0 DEF Shapes
  <2>7. ref' \in [Tabs -> Ref] /\ mutex' \in (Tabs \cup {NoTab}) \X {"refresh", "auth"}
    <3>1. \E v \in -2..MaxToken : Receive(t, v)
      BY <2>1, <2>3, <2>5, <2>6 DEF Refreshed
    <3> QED
      BY <2>2, <3>1
  <2>8. rows' \in [Sids -> [cur : 0..MaxToken, prev : 0..MaxToken, grace : BOOLEAN]]
        /\ issued' \in 0..MaxToken
    <3>1. CASE UNCHANGED <<rows, issued>>
      BY <1>0, <3>1 DEF Shapes
    <3>2. ASSUME NEW s \in Sids, MayIssue, issued' = issued + 1,
                 rows' = [rows EXCEPT ![s] = [cur |-> issued + 1, prev |-> ref[t].ask, grace |-> TRUE]]
          PROVE  rows' \in [Sids -> [cur : 0..MaxToken, prev : 0..MaxToken, grace : BOOLEAN]]
                 /\ issued' \in 0..MaxToken
      BY <1>0, <2>4, <2>5, <3>2 DEF Shapes
    <3>3. ASSUME NEW s \in Sids, issued' = issued,
                 rows' = [rows EXCEPT ![s] = [cur |-> 0, prev |-> 0, grace |-> FALSE]]
          PROVE  rows' \in [Sids -> [cur : 0..MaxToken, prev : 0..MaxToken, grace : BOOLEAN]]
                 /\ issued' \in 0..MaxToken
      BY <1>0, <3>3, Numbers DEF Shapes
    <3> QED
      BY <2>1, <3>1, <3>2, <3>3 DEF Refreshed
  <2> QED
    BY <1>0, <2>1, <2>7, <2>8 DEF Shapes
<1>7. ASSUME NEW t \in Tabs, Commit(t) PROVE Shapes'
  <2>1. ref' \in [Tabs -> Ref]
    BY <1>0, <1>7, NothingTypes DEF Commit, Shapes
  <2>2. lock' \in [held : BOOLEAN, owner : Tabs \cup {NoTab}, fresh : BOOLEAN]
    BY <1>0, <1>7, ReleasedType DEF Commit, Shapes
  <2>3. ref[t].ans \in 0..MaxToken
    BY <1>0, <1>7 DEF Commit, Shapes, Ref
  <2> QED
    BY <1>0, <1>7, <2>1, <2>2, <2>3 DEF Commit, Shapes
<1>8. ASSUME NEW t \in Tabs, Reject(t) PROVE Shapes'
  <2>1. ref' \in [Tabs -> Ref]
    BY <1>0, <1>8, NothingTypes DEF Reject, Shapes
  <2>2. token' \in 0..MaxToken /\ epoch' \in Nat /\ access' \in [Tabs -> 0..MaxToken]
    <3>1. CASE ClearTokens(t)
      BY <3>1, ClearType
    <3>2. CASE UNCHANGED <<token, epoch>> /\ access' = [access EXCEPT ![t] = 0]
      BY <1>0, <3>2, Numbers DEF Shapes
    <3> QED
      BY <1>8, <3>1, <3>2 DEF Reject
  <2>3. lock' \in [held : BOOLEAN, owner : Tabs \cup {NoTab}, fresh : BOOLEAN]
    BY <1>0, <1>8, ClearType, ReleasedType DEF Reject, Shapes
  <2> QED
    BY <1>0, <1>8, <2>1, <2>2, <2>3 DEF Reject, Shapes
<1>9. ASSUME NEW t \in Tabs, GiveUp(t) PROVE Shapes'
  <2>1. ref' \in [Tabs -> Ref]
    BY <1>0, <1>9, NothingTypes DEF GiveUp, Shapes
  <2>2. lock' \in [held : BOOLEAN, owner : Tabs \cup {NoTab}, fresh : BOOLEAN]
    BY <1>0, <1>9, ReleasedType DEF GiveUp, Shapes
  <2> QED
    BY <1>0, <1>9, <2>1, <2>2 DEF GiveUp, Shapes
<1>10. ASSUME NEW t \in Tabs, WaitTimesOut(t) PROVE Shapes'
  BY <1>0, <1>10 DEF WaitTimesOut, Shapes, Ref, Auth
<1>11. ASSUME NEW t \in Tabs, Heartbeat(t) PROVE Shapes'
  BY <1>0, <1>11 DEF Heartbeat, Shapes, Ref, Auth
<1>12. ASSUME NEW t \in Tabs, SignIn(t) PROVE Shapes'
  <2>1. auth' \in [Tabs -> Auth]
    BY <1>0, <1>12, Numbers DEF SignIn, Shapes, HistoryTypes, Auth, Still
  <2> QED
    BY <1>0, <1>12, <2>1 DEF SignIn, Shapes
<1>13. ASSUME NEW t \in Tabs, ServerSignIn(t) PROVE Shapes'
  <2>1. issued' \in 0..MaxToken /\ issued + 1 \in 0..MaxToken
    BY <1>0, <1>13, Numbers DEF ServerSignIn, MayIssue, Shapes
  <2>2. auth' \in [Tabs -> Auth]
    <3>1. auth[t] \in Auth
      BY <1>0 DEF Shapes
    <3>2. [auth[t] EXCEPT !.pc = "answered", !.tok = issued + 1] \in Auth
      BY <2>1, <3>1 DEF Auth
    <3> QED
      BY <1>0, <1>13, <3>2, NothingTypes DEF ServerSignIn, Shapes
  <2>3. rows' \in [Sids -> [cur : 0..MaxToken, prev : 0..MaxToken, grace : BOOLEAN]]
    <3>1. \A s \in Sids : rows[s] \in [cur : 0..MaxToken, prev : 0..MaxToken, grace : BOOLEAN]
      BY <1>0 DEF Shapes
    <3>2. \A s \in Sids : [rows[s] EXCEPT !.cur = issued + 1]
                            \in [cur : 0..MaxToken, prev : 0..MaxToken, grace : BOOLEAN]
      BY <2>1, <3>1
    <3>3. rows' = [rows EXCEPT ![signIns + 1] = [rows[signIns + 1] EXCEPT !.cur = issued + 1]]
      BY <1>13 DEF ServerSignIn
    <3> QED
      BY <1>0, <3>2, <3>3 DEF Shapes
  <2>4. signIns' \in 0..MaxSignIns
    BY <1>0, <1>13, Numbers DEF ServerSignIn, Shapes
  <2> QED
    BY <1>0, <1>13, <2>1, <2>2, <2>3, <2>4 DEF ServerSignIn, Shapes
<1>14. ASSUME NEW t \in Tabs, CommitSignIn(t) PROVE Shapes'
  <2>1. auth' \in [Tabs -> Auth] /\ auth[t].tok \in 0..MaxToken
    BY <1>0, <1>14, NothingTypes DEF CommitSignIn, Shapes, Auth
  <2>2. /\ token' \in 0..MaxToken /\ epoch' \in Nat /\ access' \in [Tabs -> 0..MaxToken]
    BY <1>0, <1>14, <2>1 DEF CommitSignIn, Shapes
  <2> QED
    BY <1>0, <1>14, <2>1, <2>2, NothingTypes DEF CommitSignIn, Shapes
<1>15. ASSUME NEW t \in Tabs, SignOut(t) PROVE Shapes'
  <2>1. auth' \in [Tabs -> Auth]
    BY <1>0, <1>15, Numbers DEF SignOut, Shapes, Auth, Still
  <2>2. token' \in 0..MaxToken /\ epoch' \in Nat /\ access' \in [Tabs -> 0..MaxToken]
    BY <1>15, ClearType DEF SignOut
  <2>3. lock' \in [held : BOOLEAN, owner : Tabs \cup {NoTab}, fresh : BOOLEAN]
    BY <1>15, ClearType DEF SignOut
  <2> QED
    BY <1>0, <1>15, <2>1, <2>2, <2>3 DEF SignOut, Shapes
<1>16. ASSUME NEW t \in Tabs, SendSignOut(t) PROVE Shapes'
  BY <1>0, <1>16 DEF SendSignOut, Shapes, Ref, Auth
<1>17. ASSUME NEW t \in Tabs, ServerSignOut(t) PROVE Shapes'
  <2>1. auth' \in [Tabs -> Auth]
    BY <1>0, <1>17, NothingTypes DEF ServerSignOut, Shapes
  <2>2. rows' \in [Sids -> [cur : 0..MaxToken, prev : 0..MaxToken, grace : BOOLEAN]]
    <3>1. /\ \A s \in Sids : rows[s] \in [cur : 0..MaxToken, prev : 0..MaxToken, grace : BOOLEAN]
          /\ [cur |-> 0, prev |-> 0, grace |-> FALSE]
               \in [cur : 0..MaxToken, prev : 0..MaxToken, grace : BOOLEAN]
      BY <1>0, Numbers DEF Shapes
    <3> QED
      <4>1. CASE rows' = rows
        BY <1>0, <4>1 DEF Shapes
      <4>2. CASE rows' # rows
        <5>1. PICK K : rows' = [s \in Sids |-> IF s \in K THEN [cur |-> 0, prev |-> 0, grace |-> FALSE]
                                               ELSE rows[s]]
          BY <1>17, <4>2 DEF ServerSignOut
        <5> QED
          BY <3>1, <5>1
      <4> QED
        BY <4>1, <4>2
  <2> QED
    BY <1>0, <1>17, <2>1, <2>2 DEF ServerSignOut, Shapes
<1>18. ASSUME NEW t \in Tabs, HandleToken(t) PROVE Shapes'
  <2>1. ref' \in [Tabs -> Ref]
    BY <1>0, <1>18, NothingTypes DEF HandleToken, Shapes
  <2>2. Head(inbox[t]) \in 0..MaxToken
    BY <1>18, TakenType DEF HandleToken
  <2> QED
    BY <1>0, <1>18, <2>1, <2>2 DEF HandleToken, Shapes
<1>19. ASSUME NEW t \in Tabs, HandleSignedOut(t) PROVE Shapes'
  BY <1>0, <1>19 DEF HandleSignedOut, Shapes, Ref, Auth
<1>20. ASSUME NEW t \in Tabs, HandleNull(t) PROVE Shapes'
  BY <1>0, <1>20 DEF HandleNull, Shapes, Ref, Auth
<1>21. ASSUME NEW t \in Tabs, AccessExpires(t) PROVE Shapes'
  BY <1>0, <1>21 DEF AccessExpires, Shapes, Ref, Auth
<1>22. ASSUME NEW t \in Tabs, Crash(t) PROVE Shapes'
  BY <1>0, <1>22 DEF Crash, Shapes, Ref, Auth
<1>23. CASE LockGoesStale
  BY <1>0, <1>23 DEF LockGoesStale, Shapes
<1>24. ASSUME NEW s \in Sids, GraceEnds(s) PROVE Shapes'
  <2>1. rows' \in [Sids -> [cur : 0..MaxToken, prev : 0..MaxToken, grace : BOOLEAN]]
    <3>1. \A x \in Sids : rows[x] \in [cur : 0..MaxToken, prev : 0..MaxToken, grace : BOOLEAN]
      BY <1>0 DEF Shapes
    <3>2. [rows[s] EXCEPT !.grace = FALSE] \in [cur : 0..MaxToken, prev : 0..MaxToken, grace : BOOLEAN]
      BY <1>24, <3>1
    <3> QED
      BY <1>0, <1>24, <3>2 DEF GraceEnds, Shapes
  <2> QED
    BY <1>0, <1>24, <2>1 DEF GraceEnds, Shapes
<1> QED
  BY <1>1, <1>2, <1>3, <1>4, <1>5, <1>6, <1>7, <1>8, <1>9, <1>10, <1>11, <1>12, <1>13, <1>14, <1>15, <1>16, <1>17, <1>18, <1>19, <1>20, <1>21, <1>22, <1>23, <1>24 DEF Next, Own

(* Every step keeps the flags and the messages. *)
LEMMA FlagsStep == TypeOK /\ [Next]_vars => Flags'
<1> SUFFICES ASSUME TypeOK, [Next]_vars PROVE Flags'
  OBVIOUS
<1>0. Flags /\ Shapes
  BY TypeParts
<1>1. prompt' \in Environments
  BY <1>0, ZenonT(30)
  DEF Next, Own, vars, server, store, Start, WriteLock, Verify, Send, ServerRefresh, Commit, Reject,
      GiveUp, WaitTimesOut, Heartbeat, SignIn, ServerSignIn, CommitSignIn, SignOut, SendSignOut,
      ServerSignOut, HandleToken, HandleSignedOut, HandleNull, AccessExpires, Crash, LockGoesStale,
      GraceEnds, Flags
<1>2. out' \in {out, TRUE, FALSE}
  BY ZenonT(30) DEF Next, Own, vars, server, store, Start, WriteLock, Verify, Send, ServerRefresh, Commit, Reject,
      GiveUp, WaitTimesOut, Heartbeat, SignIn, ServerSignIn, CommitSignIn, SignOut, SendSignOut,
      ServerSignOut, HandleToken, HandleSignedOut, HandleNull, AccessExpires, Crash, LockGoesStale,
      GraceEnds
<1>3. out' \in BOOLEAN
  <2>1. out \in BOOLEAN
    BY <1>0 DEF Flags
  <2> QED
    BY <1>2, <2>1
<1>4. ASSUME UNCHANGED <<inbox, nulled>> PROVE Flags'
  BY <1>0, <1>1, <1>3, <1>4, Zenon DEF Flags
<1>5. ASSUME NEW t \in Tabs, ClearTokens(t) PROVE Flags'
  BY <1>1, <1>3, <1>5, ClearType, Zenon DEF Flags
<1>6. ASSUME NEW t \in Tabs, NEW m \in 0..MaxToken, Post(t, m), UNCHANGED nulled PROVE Flags'
  BY <1>0, <1>1, <1>3, <1>6, PostType, Zenon DEF Flags
<1>7. ASSUME NEW t \in Tabs, nulled' = [nulled EXCEPT ![t] = FALSE], UNCHANGED inbox PROVE Flags'
  <2>1. nulled' \in [Tabs -> BOOLEAN]
    BY <1>0, <1>7 DEF Flags
  <2> QED
    BY <1>0, <1>1, <1>3, <1>7, <2>1, Zenon DEF Flags
<1>8. ASSUME NEW t \in Tabs, Commit(t) PROVE Flags'
  <2>1. ref[t].ans \in 0..MaxToken /\ Post(t, ref[t].ans) /\ UNCHANGED nulled
    BY <1>0, <1>8 DEF Commit, Shapes, Ref
  <2> QED
    BY <1>6, <2>1
<1>9. ASSUME NEW t \in Tabs, Reject(t) PROVE Flags'
  BY <1>4, <1>5, <1>9 DEF Reject
<1>10. ASSUME NEW t \in Tabs, HandleToken(t) PROVE Flags'
  BY <1>0, <1>1, <1>3, <1>10, TakenType, Zenon DEF HandleToken, Flags
<1>11. ASSUME NEW t \in Tabs, HandleSignedOut(t) PROVE Flags'
  <2>1. nulled' \in [Tabs -> BOOLEAN]
    <3>1. \A u \in Tabs : (nulled[u] \/ (u # t /\ token # 0)) \in BOOLEAN
      OBVIOUS
    <3>2. nulled' = [u \in Tabs |-> nulled[u] \/ (u # t /\ token # 0)]
      BY <1>11 DEF HandleSignedOut, Nulling
    <3> QED
      BY <3>1, <3>2, Zenon
  <2> QED
    BY <1>0, <1>1, <1>3, <1>11, <2>1, TakenType, Zenon DEF HandleSignedOut, Flags
<1>12. ASSUME NEW t \in Tabs, Crash(t) PROVE Flags'
  <2>1. nulled' \in [Tabs -> BOOLEAN]
    BY <1>0, <1>12 DEF Flags, Crash
  <2>2. inbox' \in [Tabs -> Seq(0..MaxToken)]
    BY <1>0, <1>12 DEF Flags, Crash
  <2> QED
    BY <1>1, <1>3, <2>1, <2>2, Zenon DEF Flags
<1> QED
  BY <1>4, <1>5, <1>7, <1>8, <1>9, <1>10, <1>11, <1>12
  DEF Next, Own, vars, server, store, Start, WriteLock, Verify, Send, ServerRefresh,
      GiveUp, WaitTimesOut, Heartbeat, SignIn, ServerSignIn, CommitSignIn, SignOut, SendSignOut,
      ServerSignOut, HandleNull, AccessExpires, LockGoesStale, GraceEnds

(* Every step keeps the types. *)
LEMMA TypeStep == TypeOK /\ HistoryTypes /\ [Next]_vars => TypeOK' /\ HistoryTypes'
<1> SUFFICES ASSUME TypeOK, HistoryTypes, [Next]_vars PROVE HistoryTypes'
  BY ShapesStep, FlagsStep, TypeParts
<1>0. Shapes
  BY TypeParts
<1>1. outs' \in Nat /\ crashes' \in Nat
  <2>1. outs' \in {outs, outs + 1}
    BY ZenonT(30) DEF Next, Own, vars, server, store, Start, WriteLock, Verify, Send, ServerRefresh, Commit, Reject,
        GiveUp, WaitTimesOut, Heartbeat, SignIn, ServerSignIn, CommitSignIn, SignOut, SendSignOut,
        ServerSignOut, HandleToken, HandleSignedOut, HandleNull, AccessExpires, Crash, LockGoesStale,
        GraceEnds
  <2>2. crashes' \in {crashes, crashes + 1}
    BY ZenonT(30) DEF Next, Own, vars, server, store, Start, WriteLock, Verify, Send, ServerRefresh, Commit, Reject,
        GiveUp, WaitTimesOut, Heartbeat, SignIn, ServerSignIn, CommitSignIn, SignOut, SendSignOut,
        ServerSignOut, HandleToken, HandleSignedOut, HandleNull, AccessExpires, Crash, LockGoesStale,
        GraceEnds
  <2> QED
    BY <2>1, <2>2 DEF HistoryTypes
<1>2. ended' \subseteq Sids
  BY ZenonT(30) DEF Next, Own, vars, server, store, Start, WriteLock, Verify, Send, ServerRefresh, Commit, Reject,
      GiveUp, WaitTimesOut, Heartbeat, SignIn, ServerSignIn, CommitSignIn, SignOut, SendSignOut,
      ServerSignOut, HandleToken, HandleSignedOut, HandleNull, AccessExpires, Crash, LockGoesStale,
      GraceEnds, HistoryTypes
<1>3. sidOf' \in [Tokens -> Sids \cup {0}]
  <2>1. ASSUME NEW k, NEW s \in Sids, sidOf' = [sidOf EXCEPT ![k] = s] PROVE sidOf' \in [Tokens -> Sids \cup {0}]
    BY <2>1 DEF HistoryTypes
  <2>2. CASE sidOf' = sidOf
    BY <2>2 DEF HistoryTypes
  <2>3. ASSUME NEW t \in Tabs, ServerRefresh(t) PROVE sidOf' \in [Tokens -> Sids \cup {0}]
    BY <2>1, <2>2, <2>3 DEF ServerRefresh, Refreshed
  <2>4. ASSUME NEW t \in Tabs, ServerSignIn(t) PROVE sidOf' \in [Tokens -> Sids \cup {0}]
    <3>1. signIns + 1 \in Sids
      BY <1>0, <2>4, Numbers, SMTT(30) DEF ServerSignIn, Shapes, Sids
    <3> QED
      BY <2>1, <2>4, <3>1 DEF ServerSignIn
  <2> QED
    BY <2>2, <2>3, <2>4, ZenonT(30)
    DEF Next, Own, vars, server, store, Start, WriteLock, Verify, Send, Commit, Reject,
      GiveUp, WaitTimesOut, Heartbeat, SignIn, CommitSignIn, SignOut, SendSignOut,
      ServerSignOut, HandleToken, HandleSignedOut, HandleNull, AccessExpires, Crash, LockGoesStale,
      GraceEnds
<1> QED
  BY <1>1, <1>2, <1>3 DEF HistoryTypes

-----------------------------------------------------------------------------
(* The parts of the invariant that hold in every environment *)

(* What began in this epoch began after the last sign-out: preserved.      *)
LEMMA EpochStep == IInv /\ [Next]_vars => EpochInv'
<1> SUFFICES ASSUME IInv, [Next]_vars PROVE EpochInv'
  OBVIOUS
<1> USE DEF server, store
<1>0. /\ EpochInv /\ epoch \in Nat /\ outs \in Nat
      /\ ref \in [Tabs -> Ref] /\ auth \in [Tabs -> Auth]
      /\ \A t \in Tabs : ref[t].ep \in Nat /\ auth[t].ep \in Nat
      /\ Quiet.pc = "idle" /\ Quiet.ep = 0 /\ Still.pc = "idle" /\ Still.ep = 0
  BY DEF IInv, TypeOK, HistoryTypes, Ref, Auth, Quiet, Still
<1>1. CASE UNCHANGED <<epoch, outs, ref, auth>>
  BY <1>0, <1>1 DEF EpochInv
<1>2. ASSUME NEW t \in Tabs, Start(t) PROVE EpochInv'
  BY <1>0, <1>2 DEF Start, EpochInv, Quiet, Ref
<1>3. ASSUME NEW t \in Tabs, WriteLock(t) PROVE EpochInv'
  BY <1>0, <1>3 DEF WriteLock, EpochInv, Ref, Auth
<1>4. ASSUME NEW t \in Tabs, Verify(t) PROVE EpochInv'
  BY <1>0, <1>4 DEF Verify, EpochInv, Ref, Auth
<1>5. ASSUME NEW t \in Tabs, Send(t) PROVE EpochInv'
  <2>1. /\ UNCHANGED <<epoch, outs, auth>> /\ ref[t].pc # "idle"
        /\ \/ ref' = [ref EXCEPT ![t].pc = "asked", ![t].ask = LatestToken(t)]
           \/ ref' = [ref EXCEPT ![t] = Quiet]
    BY <1>5 DEF Send
  <2> QED
    BY <1>0, <2>1, SMTT(30) DEF EpochInv, Ref
<1>6. ASSUME NEW t \in Tabs, ServerRefresh(t) PROVE EpochInv'
  <2>1. UNCHANGED <<epoch, outs, auth>> /\ ref[t].pc = "asked" /\ \E v : Receive(t, v)
    BY <1>6 DEF ServerRefresh, Refreshed
  <2> QED
    BY <1>0, <2>1 DEF Receive, EpochInv, Ref
<1>7. ASSUME NEW t \in Tabs, Commit(t) PROVE EpochInv'
  BY <1>0, <1>7 DEF Commit, EpochInv, Ref, Auth
<1>8. ASSUME NEW t \in Tabs, Reject(t) PROVE EpochInv'
  BY <1>0, <1>8 DEF Reject, ClearTokens, EpochInv
<1>9. ASSUME NEW t \in Tabs, GiveUp(t) PROVE EpochInv'
  BY <1>0, <1>9 DEF GiveUp, EpochInv, Ref, Auth
<1>10. ASSUME NEW t \in Tabs, WaitTimesOut(t) PROVE EpochInv'
  BY <1>0, <1>10 DEF WaitTimesOut, EpochInv, Ref, Auth
<1>11. ASSUME NEW t \in Tabs, SignIn(t) PROVE EpochInv'
  BY <1>0, <1>11 DEF SignIn, EpochInv, Still, Auth
<1>12. ASSUME NEW t \in Tabs, ServerSignIn(t) PROVE EpochInv'
  <2>1. CASE auth' = [auth EXCEPT ![t].pc = "answered", ![t].tok = issued + 1]
    BY <1>0, <1>12, <2>1 DEF ServerSignIn, EpochInv, Auth
  <2>2. CASE auth' = [auth EXCEPT ![t] = Still]
    BY <1>0, <1>12, <2>2 DEF ServerSignIn, EpochInv
  <2> QED
    BY <1>12, <2>1, <2>2 DEF ServerSignIn
<1>13. ASSUME NEW t \in Tabs, CommitSignIn(t) PROVE EpochInv'
  BY <1>0, <1>13 DEF CommitSignIn, EpochInv, Ref, Auth
<1>14. ASSUME NEW t \in Tabs, SignOut(t) PROVE EpochInv'
  BY <1>0, <1>14 DEF SignOut, ClearTokens, EpochInv, Still, Auth
<1>15. ASSUME NEW t \in Tabs, SendSignOut(t) PROVE EpochInv'
  BY <1>0, <1>15 DEF SendSignOut, EpochInv, Ref, Auth
<1>16. ASSUME NEW t \in Tabs, ServerSignOut(t) PROVE EpochInv'
  BY <1>0, <1>16 DEF ServerSignOut, EpochInv, Ref, Auth
<1>17. ASSUME NEW t \in Tabs, HandleToken(t) PROVE EpochInv'
  <2>1. UNCHANGED <<epoch, outs, auth>> /\ \A u \in Tabs : ref'[u] = ref[u] \/ ref'[u] = Quiet
    BY <1>0, <1>17 DEF HandleToken
  <2> QED
    BY <1>0, <2>1 DEF EpochInv
<1>18. ASSUME NEW t \in Tabs, HandleSignedOut(t) PROVE EpochInv'
  <2>1. UNCHANGED <<epoch, outs, auth>> /\ \A u \in Tabs : ref'[u] = ref[u] \/ ref'[u] = Quiet
    BY <1>0, <1>18 DEF HandleSignedOut
  <2> QED
    BY <1>0, <2>1 DEF EpochInv
<1>19. ASSUME NEW t \in Tabs, Crash(t) PROVE EpochInv'
  BY <1>0, <1>19 DEF Crash, EpochInv, Ref, Auth
<1> QED
  BY <1>1, <1>2, <1>3, <1>4, <1>5, <1>6, <1>7, <1>8, <1>9, <1>10, <1>11, <1>12, <1>13, <1>14, <1>15, <1>16, <1>17, <1>18, <1>19
  DEF Next, Own, vars, server, store, LockGoesStale, GraceEnds, Heartbeat, HandleNull, AccessExpires

(* A tab with an access token has stored tokens to go with it, or the      *)
(* event coming: preserved.                                                *)
LEMMA AccessStep == IInv /\ [Next]_vars => AccessInv'
<1> SUFFICES ASSUME IInv, [Next]_vars PROVE AccessInv'
  OBVIOUS
<1> USE DEF server, store
<1>0. /\ AccessInv /\ access \in [Tabs -> 0..MaxToken] /\ auth \in [Tabs -> Auth]
      /\ nulled \in [Tabs -> BOOLEAN] /\ issued \in Nat /\ Still.pc = "idle"
  BY Numbers DEF IInv, TypeOK, Still
<1>A. ASSUME NEW t \in Tabs, access'[t] = 0, nulled' = Nulling(t), token' = 0,
             \A u \in Tabs \ {t} : access'[u] = access[u],
             \A u \in Tabs : auth'[u].pc = "answered" => auth'[u] = auth[u]
      PROVE  AccessInv'
  BY <1>0, <1>A DEF AccessInv, Nulling
<1>1. CASE UNCHANGED <<token, access, nulled, auth>>
  BY <1>0, <1>1 DEF AccessInv
<1>2. ASSUME NEW t \in Tabs, Commit(t) PROVE AccessInv'
  BY <1>0, <1>2 DEF Commit, AccessInv
<1>3. ASSUME NEW t \in Tabs, Reject(t) PROVE AccessInv'
  <2>1. CASE ClearTokens(t)
    BY <1>0, <1>A, <1>3, <2>1 DEF Reject, ClearTokens
  <2>2. CASE ~ClearTokens(t)
    BY <1>0, <1>3, <2>2 DEF Reject, AccessInv
  <2> QED
    BY <2>1, <2>2
<1>4. ASSUME NEW t \in Tabs, SignIn(t) PROVE AccessInv'
  BY <1>0, <1>4 DEF SignIn, Still, AccessInv
<1>5. ASSUME NEW t \in Tabs, ServerSignIn(t) PROVE AccessInv'
  <2>1. CASE auth' = [auth EXCEPT ![t].pc = "answered", ![t].tok = issued + 1]
    BY <1>0, <1>5, <2>1 DEF ServerSignIn, AccessInv, Auth
  <2>2. CASE auth' = [auth EXCEPT ![t] = Still]
    BY <1>0, <1>5, <2>2 DEF ServerSignIn, AccessInv
  <2> QED
    BY <1>5, <2>1, <2>2 DEF ServerSignIn
<1>6. ASSUME NEW t \in Tabs, CommitSignIn(t) PROVE AccessInv'
  BY <1>0, <1>6 DEF CommitSignIn, AccessInv
<1>7. ASSUME NEW t \in Tabs, SignOut(t) PROVE AccessInv'
  BY <1>0, <1>A, <1>7 DEF SignOut, ClearTokens, Still
<1>8. ASSUME NEW t \in Tabs, SendSignOut(t) PROVE AccessInv'
  BY <1>0, <1>8 DEF SendSignOut, AccessInv
<1>9. ASSUME NEW t \in Tabs, ServerSignOut(t) PROVE AccessInv'
  BY <1>0, <1>9 DEF ServerSignOut, AccessInv
<1>10. ASSUME NEW t \in Tabs, HandleToken(t) PROVE AccessInv'
  BY <1>0, <1>10 DEF HandleToken, AccessInv
<1>11. ASSUME NEW t \in Tabs, HandleSignedOut(t) PROVE AccessInv'
  BY <1>0, <1>A, <1>11 DEF HandleSignedOut
<1>12. ASSUME NEW t \in Tabs, HandleNull(t) PROVE AccessInv'
  BY <1>0, <1>12 DEF HandleNull, AccessInv
<1>13. ASSUME NEW t \in Tabs, AccessExpires(t) PROVE AccessInv'
  BY <1>0, <1>13 DEF AccessExpires, AccessInv
<1>14. ASSUME NEW t \in Tabs, Crash(t) PROVE AccessInv'
  BY <1>0, <1>14 DEF Crash, AccessInv
<1> QED
  BY <1>1, <1>2, <1>3, <1>4, <1>5, <1>6, <1>7, <1>8, <1>9, <1>10, <1>11, <1>12, <1>13, <1>14
  DEF Next, Own, vars, server, store, LockGoesStale, GraceEnds, Heartbeat, Start, WriteLock, Verify, Send, GiveUp, WaitTimesOut, ServerRefresh

(* One request at a time: preserved.                                       *)
LEMMA MutexStep == IInv /\ [Next]_vars => MutexInv'
<1> SUFFICES ASSUME IInv, [Next]_vars PROVE MutexInv'
  OBVIOUS
<1> USE DEF server, store
<1>0. /\ MutexInv /\ ref \in [Tabs -> Ref] /\ auth \in [Tabs -> Auth]
      /\ Still.pc = "idle" /\ Quiet.pc = "idle" /\ NoTab \notin Tabs
  BY Numbers DEF IInv, TypeOK, Still, Quiet
<1>1. CASE UNCHANGED <<mutex, ref, auth>>
  BY <1>0, <1>1 DEF MutexInv
<1>2. ASSUME NEW t \in Tabs, Start(t) PROVE MutexInv'
  BY <1>0, <1>2 DEF Start, MutexInv, Quiet
<1>3. ASSUME NEW t \in Tabs, WriteLock(t) PROVE MutexInv'
  BY <1>0, <1>3 DEF WriteLock, MutexInv, Ref, Auth
<1>4. ASSUME NEW t \in Tabs, Verify(t) PROVE MutexInv'
  BY <1>0, <1>4 DEF Verify, MutexInv, Ref, Auth
<1>5. ASSUME NEW t \in Tabs, Send(t) PROVE MutexInv'
  <2>1. /\ UNCHANGED auth /\ mutex[1] = NoTab
        /\ \A u \in Tabs \ {t} : ref'[u] = ref[u]
        /\ \/ mutex' = <<t, "refresh">> /\ ref'[t].pc = "asked"
           \/ mutex' = mutex /\ ref'[t].pc = "idle"
    BY <1>0, <1>5 DEF Send, Ref
  <2>2. \A u \in Tabs : mutex # <<u, "refresh">> /\ mutex # <<u, "auth">>
    <3>1. \A u \in Tabs : <<u, "refresh">>[1] = u /\ <<u, "auth">>[1] = u
      OBVIOUS
    <3> QED
      BY <1>0, <2>1, <3>1
  <2> QED
    BY <1>0, <2>1, <2>2 DEF MutexInv
<1>6. ASSUME NEW t \in Tabs, ServerRefresh(t) PROVE MutexInv'
  <2>1. UNCHANGED auth /\ ref[t].pc = "asked" /\ \E v : Receive(t, v)
    BY <1>6 DEF ServerRefresh, Refreshed
  <2> QED
    BY <1>0, <2>1 DEF Receive, MutexInv, Ref
<1>7. ASSUME NEW t \in Tabs, Commit(t) PROVE MutexInv'
  BY <1>0, <1>7 DEF Commit, MutexInv, Ref, Auth
<1>8. ASSUME NEW t \in Tabs, Reject(t) PROVE MutexInv'
  BY <1>0, <1>8 DEF Reject, MutexInv, Ref, Auth
<1>9. ASSUME NEW t \in Tabs, GiveUp(t) PROVE MutexInv'
  BY <1>0, <1>9 DEF GiveUp, MutexInv, Ref, Auth
<1>10. ASSUME NEW t \in Tabs, WaitTimesOut(t) PROVE MutexInv'
  BY <1>0, <1>10 DEF WaitTimesOut, MutexInv, Ref, Auth
<1>11. ASSUME NEW t \in Tabs, SignIn(t) PROVE MutexInv'
  BY <1>0, <1>11 DEF SignIn, MutexInv, Still
<1>12. ASSUME NEW t \in Tabs, ServerSignIn(t) PROVE MutexInv'
  <2>1. CASE auth' = [auth EXCEPT ![t].pc = "answered", ![t].tok = issued + 1]
    BY <1>0, <1>12, <2>1 DEF ServerSignIn, MutexInv, Auth
  <2>2. CASE auth' = [auth EXCEPT ![t] = Still]
    BY <1>0, <1>12, <2>2 DEF ServerSignIn, MutexInv
  <2> QED
    BY <1>12, <2>1, <2>2 DEF ServerSignIn
<1>13. ASSUME NEW t \in Tabs, CommitSignIn(t) PROVE MutexInv'
  BY <1>0, <1>13 DEF CommitSignIn, MutexInv, Ref, Auth
<1>14. ASSUME NEW t \in Tabs, SignOut(t) PROVE MutexInv'
  BY <1>0, <1>14 DEF SignOut, MutexInv, Still
<1>15. ASSUME NEW t \in Tabs, SendSignOut(t) PROVE MutexInv'
  BY <1>0, <1>15 DEF SendSignOut, MutexInv, Ref, Auth
<1>16. ASSUME NEW t \in Tabs, ServerSignOut(t) PROVE MutexInv'
  BY <1>0, <1>16 DEF ServerSignOut, MutexInv, Ref, Auth
<1>17. ASSUME NEW t \in Tabs, HandleToken(t) PROVE MutexInv'
  BY <1>0, <1>17 DEF HandleToken, MutexInv
<1>18. ASSUME NEW t \in Tabs, HandleSignedOut(t) PROVE MutexInv'
  BY <1>0, <1>18 DEF HandleSignedOut, MutexInv
<1>19. ASSUME NEW t \in Tabs, Crash(t) PROVE MutexInv'
  <2>1. /\ ref'[t] = Quiet /\ auth'[t] = Still
        /\ \A u \in Tabs \ {t} : ref'[u] = ref[u] /\ auth'[u] = auth[u]
    BY <1>0, <1>19 DEF Crash
  <2>2. mutex[1] # t => mutex' = mutex
    BY <1>19 DEF Crash
  <2>3. \A u \in Tabs : <<u, "refresh">>[1] = u /\ <<u, "auth">>[1] = u
    OBVIOUS
  <2> QED
    BY <1>0, <2>1, <2>2, <2>3 DEF MutexInv
<1> QED
  BY <1>1, <1>2, <1>3, <1>4, <1>5, <1>6, <1>7, <1>8, <1>9, <1>10, <1>11, <1>12, <1>13, <1>14, <1>15, <1>16, <1>17, <1>18, <1>19
  DEF Next, Own, vars, server, store, LockGoesStale, GraceEnds, Heartbeat, HandleNull, AccessExpires

(* What a response to a refresh does: nothing, or the session's token is   *)
(* rotated, or is told again, or the session of an old token is deleted.   *)
Answers(t, v) ==
  /\ ref' = [ref EXCEPT ![t].pc = "answered", ![t].ans = v]
  /\ mutex' = <<NoTab, "refresh">>
Fails(t) == Answers(t, Failed) /\ UNCHANGED <<rows, issued, sidOf, lost>>
Rotates(t, s) ==
  /\ issued < MaxToken /\ rows[s].cur = ref[t].ask
  /\ issued' = issued + 1 /\ sidOf' = [sidOf EXCEPT ![issued + 1] = s]
  /\ rows' = [rows EXCEPT ![s] = [cur |-> issued + 1, prev |-> ref[t].ask, grace |-> TRUE]]
  /\ lost' = lost \cup {ref[t].ask}
  /\ Answers(t, issued + 1) \/ Answers(t, Failed)
Repeats(t, s) ==
  /\ rows[s].prev = ref[t].ask /\ rows[s].cur # ref[t].ask
  /\ Answers(t, rows[s].cur) /\ UNCHANGED <<rows, issued, sidOf, lost>>
Revokes(t, s) ==
  /\ \A x \in Sids : rows[x].cur # ref[t].ask
  /\ rows[s].prev = ref[t].ask
  /\ rows' = [rows EXCEPT ![s] = [cur |-> 0, prev |-> 0, grace |-> FALSE]]
  /\ Answers(t, Denied) /\ UNCHANGED <<issued, sidOf, lost>>
Refuses(t) ==
  /\ \A s \in Sids : rows[s].cur # ref[t].ask /\ rows[s].prev # ref[t].ask
  /\ Answers(t, Denied) /\ UNCHANGED <<rows, issued, sidOf, lost>>

(* These are all the responses.                                            *)
LEMMA Responses ==
  ASSUME TypeOK, NEW t \in Tabs, ServerRefresh(t)
  PROVE  /\ ref[t].pc = "asked" /\ ref[t].ask \in 0..MaxToken
         /\ UNCHANGED <<signIns, ended, token, epoch, lock, access, auth, inbox, nulled, outs, prompt>>
         /\ \/ Fails(t) \/ Refuses(t)
            \/ \E s \in Sids : Rotates(t, s) \/ Repeats(t, s) \/ Revokes(t, s)
<1>1. /\ ref[t].pc = "asked"
      /\ UNCHANGED <<signIns, ended, token, epoch, lock, access, auth, inbox, nulled, outs, prompt>>
      /\ Refreshed(t) \/ (Receive(t, Failed) /\ UNCHANGED <<rows, issued, sidOf, lost>>)
  BY DEF ServerRefresh, store
<1>2. ref[t].ask \in 0..MaxToken
  BY DEF TypeOK, Ref
<1>3. MayIssue => issued < MaxToken
  BY Numbers DEF MayIssue, TypeOK
<1>4. \A v : Receive(t, v) => Answers(t, v)
  BY DEF Receive, Answers
<1>5. CASE Receive(t, Failed) /\ UNCHANGED <<rows, issued, sidOf, lost>>
  BY <1>1, <1>2, <1>4, <1>5 DEF Fails
<1>6. CASE Refreshed(t)
  <2>1. \/ Refuses(t) \/ \E s \in Sids : Rotates(t, s) \/ Repeats(t, s) \/ Revokes(t, s)
    BY <1>3, <1>4, <1>6 DEF Refreshed, Refuses, Rotates, Repeats, Revokes
  <2> QED
    BY <1>1, <1>2, <2>1
<1> QED
  BY <1>1, <1>5, <1>6

(* Every token was issued for one session: preserved.                      *)
LEMMA TokenStep == IInv /\ [Next]_vars => TokenInv'
<1> SUFFICES ASSUME IInv, [Next]_vars PROVE TokenInv'
  OBVIOUS
<1> USE DEF server, store
<1>0. /\ TypeOK /\ TokenInv /\ ref \in [Tabs -> Ref] /\ issued \in 0..MaxToken /\ signIns \in 0..MaxSignIns
      /\ sidOf \in [Tokens -> Sids \cup {0}] /\ Quiet.pc = "idle"
      /\ \A s \in Sids : rows[s].cur \in 0..MaxToken /\ rows[s].prev \in 0..MaxToken
      /\ rows \in [Sids -> [cur : 0..MaxToken, prev : 0..MaxToken, grace : BOOLEAN]]
      /\ MaxToken \in Nat /\ MaxSignIns \in Nat /\ Tokens = 1..MaxToken /\ Sids = 1..MaxSignIns
  BY Numbers DEF IInv, TypeOK, HistoryTypes, Quiet, Tokens, Sids
<1>01. /\ issued \in Nat /\ signIns \in Nat /\ sidOf \in [Tokens -> Sids \cup {0}]
       /\ \A s \in Sids : s \in Nat /\ s # 0 /\ rows[s].cur \in 0..MaxToken /\ rows[s].prev \in 0..MaxToken
       /\ MaxToken \in Nat /\ Tokens = 1..MaxToken /\ TokenInv
  BY <1>0
<1> DEFINE S == \A k \in Tokens : sidOf[k] # 0 => k <= issued /\ sidOf[k] <= signIns
           R == \A s \in Sids : /\ rows[s].cur # 0 => sidOf[rows[s].cur] = s
                                /\ rows[s].prev # 0 => sidOf[rows[s].prev] = s
           W == \A t \in Tabs : /\ ref[t].pc \in {"write", "verify", "queued"} => ref[t].tok # 0
                                /\ ref[t].pc = "asked" => ref[t].ask # 0
                                /\ ref[t].pc = "answered" => ref[t].ans # ref[t].ask
<1>1. W'
  <2>1. CASE UNCHANGED ref
    BY <1>0, <2>1 DEF TokenInv
  <2>2. ASSUME NEW t \in Tabs, \A u \in Tabs \ {t} : ref'[u] = ref[u],
               ref'[t].pc \in {"write", "verify", "queued"} => ref'[t].tok # 0,
               ref'[t].pc = "asked" => ref'[t].ask # 0,
               ref'[t].pc = "answered" => ref'[t].ans # ref'[t].ask
        PROVE  W'
    BY <1>0, <2>2 DEF TokenInv
  <2>3. ASSUME NEW t \in Tabs, Start(t) PROVE W'
    BY <1>0, <2>2, <2>3 DEF Start, Quiet
  <2>4. ASSUME NEW t \in Tabs, WriteLock(t) PROVE W'
    BY <1>0, <2>2, <2>4 DEF WriteLock, TokenInv
  <2>5. ASSUME NEW t \in Tabs, Verify(t) PROVE W'
    BY <1>0, <2>2, <2>5 DEF Verify, TokenInv
  <2>6. ASSUME NEW t \in Tabs, Send(t) PROVE W'
    <3>1. CASE ref' = [ref EXCEPT ![t].pc = "asked", ![t].ask = LatestToken(t)]
      <4>1. ref'[t].pc = "asked" /\ ref'[t].ask = LatestToken(t)
            /\ \A u \in Tabs \ {t} : ref'[u] = ref[u]
        BY <1>0, <3>1 DEF Ref
      <4>2. LatestToken(t) # 0
        BY <1>0, <2>6 DEF Send, LatestToken, TokenInv
      <4> QED
        BY <2>2, <4>1, <4>2
    <3>2. CASE ref' = [ref EXCEPT ![t] = Quiet]
      BY <1>0, <2>2, <3>2
    <3> QED
      BY <2>6, <3>1, <3>2 DEF Send
  <2>7. ASSUME NEW t \in Tabs, Commit(t) PROVE W'
    BY <1>0, <2>2, <2>7 DEF Commit
  <2>8. ASSUME NEW t \in Tabs, Reject(t) PROVE W'
    BY <1>0, <2>2, <2>8 DEF Reject
  <2>9. ASSUME NEW t \in Tabs, GiveUp(t) PROVE W'
    BY <1>0, <2>2, <2>9 DEF GiveUp
  <2>10. ASSUME NEW t \in Tabs, WaitTimesOut(t) PROVE W'
    BY <1>0, <2>2, <2>10 DEF WaitTimesOut
  <2>11. ASSUME NEW t \in Tabs, HandleToken(t) PROVE W'
    BY <1>0, <2>2, <2>11 DEF HandleToken, TokenInv
  <2>12. ASSUME NEW t \in Tabs, HandleSignedOut(t) PROVE W'
    BY <1>0, <2>2, <2>12 DEF HandleSignedOut, TokenInv
  <2>13. ASSUME NEW t \in Tabs, Crash(t) PROVE W'
    BY <1>0, <2>2, <2>13 DEF Crash
  <2>14. ASSUME NEW t \in Tabs, ServerRefresh(t) PROVE W'
    <3>1. ref[t].pc = "asked" /\ ref[t].ask \in 0..MaxToken /\ ref[t].ask # 0
      BY <1>0, <2>14, Responses DEF TokenInv
    <3>2. \A s \in Sids : Rotates(t, s) => ref[t].ask # issued + 1
      <4>1. ASSUME NEW s \in Sids, Rotates(t, s) PROVE ref[t].ask <= issued
        BY <1>01, <3>1, <4>1 DEF Rotates, TokenInv
      <4> QED
        BY <1>01, <3>1, <4>1
    <3>3. \E v : v # ref[t].ask /\ Answers(t, v)
      BY <1>0, <2>14, <3>1, <3>2, Responses, SMTT(30)
      DEF Fails, Refuses, Rotates, Repeats, Revokes, Failed, Denied
    <3>4. /\ ref'[t].pc = "answered" /\ ref'[t].ans # ref'[t].ask
          /\ \A u \in Tabs \ {t} : ref'[u] = ref[u]
      BY <1>0, <3>3 DEF Answers, Ref
    <3> QED
      BY <2>2, <3>4
  <2> QED
    BY <2>1, <2>3, <2>4, <2>5, <2>6, <2>7, <2>8, <2>9, <2>10, <2>11, <2>12, <2>13, <2>14
    DEF Next, Own, vars, Heartbeat, SignIn, ServerSignIn, CommitSignIn, SignOut, SendSignOut,
        ServerSignOut, HandleNull, AccessExpires, LockGoesStale, GraceEnds
<1>2. S' /\ R'
  <2>1. CASE UNCHANGED <<issued, signIns, sidOf, rows>>
    BY <1>0, <2>1 DEF TokenInv
  <2>2. ASSUME NEW t \in Tabs, NEW s \in Sids, ref[t].pc = "asked", Rotates(t, s), UNCHANGED signIns
        PROVE  S' /\ R'
    <3>1. issued + 1 \in Tokens
      BY <1>01, <2>2 DEF Rotates
    <3>2. /\ sidOf'[issued + 1] = s /\ \A k \in Tokens \ {issued + 1} : sidOf'[k] = sidOf[k]
          /\ rows'[s].cur = issued + 1 /\ rows'[s].prev = rows[s].cur
          /\ \A x \in Sids \ {s} : rows'[x] = rows[x]
          /\ issued' = issued + 1
      BY <1>0, <2>2, <3>1 DEF Rotates
    <3>3. \A x \in Sids : /\ rows[x].cur \in Tokens => rows[x].cur # issued + 1
                          /\ rows[x].prev \in Tokens => rows[x].prev # issued + 1
      BY <1>01 DEF TokenInv
    <3>4. s <= signIns
      <4>1. rows[s].cur \in Tokens /\ sidOf[rows[s].cur] = s
        BY <1>01, <2>2 DEF Rotates, TokenInv
      <4> QED
        BY <1>01, <4>1 DEF TokenInv
    <3>5. S'
      BY <1>01, <2>2, <3>1, <3>2, <3>4 DEF TokenInv
    <3>6. R'
      BY <1>01, <2>2, <3>1, <3>2, <3>3 DEF TokenInv
    <3> QED
      BY <3>5, <3>6
  <2>3. ASSUME NEW t \in Tabs, ServerRefresh(t) PROVE S' /\ R'
    <3>1. ASSUME NEW s \in Sids, Revokes(t, s), UNCHANGED signIns PROVE S' /\ R'
      BY <1>0, <3>1 DEF Revokes, TokenInv
    <3> QED
      BY <1>0, <2>1, <2>2, <2>3, <3>1, Responses DEF Fails, Refuses, Repeats
  <2>4. ASSUME NEW t \in Tabs, ServerSignIn(t) PROVE S' /\ R'
    <3>1. issued + 1 \in Tokens /\ signIns + 1 \in Sids
      BY <1>0, <2>4, Numbers DEF ServerSignIn, MayIssue
    <3>2. /\ sidOf'[issued + 1] = signIns + 1 /\ \A k \in Tokens \ {issued + 1} : sidOf'[k] = sidOf[k]
          /\ rows'[signIns + 1].cur = issued + 1 /\ rows'[signIns + 1].prev = rows[signIns + 1].prev
          /\ \A x \in Sids \ {signIns + 1} : rows'[x] = rows[x]
          /\ issued' = issued + 1 /\ signIns' = signIns + 1
      BY <1>0, <2>4, <3>1 DEF ServerSignIn
    <3>3. \A x \in Sids : /\ rows[x].cur \in Tokens => rows[x].cur # issued + 1
                          /\ rows[x].prev \in Tokens => rows[x].prev # issued + 1
      BY <1>01 DEF TokenInv
    <3>4. S'
      <4>1. ASSUME NEW k \in Tokens, k # issued + 1, sidOf[k] # 0
            PROVE  k \in Nat /\ sidOf[k] \in Nat /\ k <= issued /\ sidOf[k] <= signIns
        BY <1>01, <4>1 DEF TokenInv
      <4>2. ASSUME NEW k \in Tokens, k # issued + 1, sidOf'[k] # 0
            PROVE  k <= issued + 1 /\ sidOf'[k] <= signIns + 1
        <5>1. sidOf'[k] = sidOf[k]
          BY <3>2, <4>2
        <5> QED
          BY <1>01, <4>1, <4>2, <5>1
      <4> QED
        BY <1>01, <3>2, <4>2
    <3>5. ASSUME NEW x \in Sids, x # signIns + 1
          PROVE  /\ rows'[x].cur # 0 => sidOf'[rows'[x].cur] = x
                 /\ rows'[x].prev # 0 => sidOf'[rows'[x].prev] = x
      <4>1. rows'[x] = rows[x]
        BY <3>2, <3>5
      <4>2. /\ rows[x].cur # 0 => rows[x].cur \in Tokens \ {issued + 1} /\ sidOf[rows[x].cur] = x
            /\ rows[x].prev # 0 => rows[x].prev \in Tokens \ {issued + 1} /\ sidOf[rows[x].prev] = x
        BY <1>01, <3>3 DEF TokenInv
      <4> QED
        BY <3>2, <4>1, <4>2
    <3>6. rows'[signIns + 1].prev # 0 => sidOf'[rows'[signIns + 1].prev] = signIns + 1
      BY <1>01, <3>1, <3>2, <3>3 DEF TokenInv
    <3> QED
      BY <3>1, <3>2, <3>4, <3>5, <3>6
  <2>5. ASSUME NEW t \in Tabs, ServerSignOut(t) PROVE S' /\ R'
    <3>1. UNCHANGED <<issued, signIns, sidOf>>
          /\ \A x \in Sids : rows'[x] = rows[x] \/ (rows'[x].cur = 0 /\ rows'[x].prev = 0)
      BY <1>0, <2>5 DEF ServerSignOut
    <3> QED
      BY <1>0, <3>1 DEF TokenInv
  <2>6. ASSUME NEW s \in Sids, GraceEnds(s) PROVE S' /\ R'
    <3>1. UNCHANGED <<issued, signIns, sidOf>>
          /\ \A x \in Sids : rows'[x].cur = rows[x].cur /\ rows'[x].prev = rows[x].prev
      BY <1>0, <2>6 DEF GraceEnds
    <3> QED
      BY <1>0, <3>1 DEF TokenInv
  <2> QED
    BY <2>1, <2>3, <2>4, <2>5, <2>6, ZenonT(30)
    DEF Next, Own, vars, Start, WriteLock, Verify, Send, Commit, Reject, GiveUp, WaitTimesOut,
        Heartbeat, SignIn, CommitSignIn, SignOut, SendSignOut, HandleToken, HandleSignedOut,
        HandleNull, AccessExpires, Crash, LockGoesStale
<1> QED
  BY <1>1, <1>2 DEF TokenInv

-----------------------------------------------------------------------------
(* A prompt environment: messages *)

(* Posting a message says nothing else.                                    *)
LEMMA PostSays ==
  ASSUME TypeOK, NEW t \in Tabs, NEW m \in 0..MaxToken, Post(t, m), NEW k, Said(k)'
  PROVE  Said(k) \/ k = m
<1> PICK u \in Tabs : \E i \in DOMAIN inbox'[u] : inbox'[u][i] = k
  BY DEF Said
<1> PICK i \in DOMAIN inbox'[u] : inbox'[u][i] = k
  OBVIOUS
<1>1. inbox[u] \in Seq(0..MaxToken)
  BY DEF TypeOK
<1>2. CASE inbox'[u] = inbox[u]
  BY <1>2 DEF Said
<1>3. CASE inbox'[u] = Append(inbox[u], m)
  <2>1. CASE i \in DOMAIN inbox[u]
    <3>1. inbox[u][i] = k
      BY <1>1, <1>3, <2>1
    <3> QED
      BY <2>1, <3>1 DEF Said
  <2>2. CASE i \notin DOMAIN inbox[u]
    BY <1>1, <1>3, <2>2
  <2> QED
    BY <2>1, <2>2
<1> QED
  BY <1>2, <1>3 DEF Post

(* A message taken was said, and the rest says nothing else.               *)
LEMMA TakeSays ==
  ASSUME TypeOK, NEW t \in Tabs, inbox[t] # <<>>, inbox' = [inbox EXCEPT ![t] = Tail(@)]
  PROVE  /\ Said(Head(inbox[t])) /\ Head(inbox[t]) \in 0..MaxToken
         /\ \A k : Said(k)' => Said(k)
<1>1. inbox[t] \in Seq(0..MaxToken) /\ inbox \in [Tabs -> Seq(0..MaxToken)]
  BY DEF TypeOK
<1>2. 1 \in DOMAIN inbox[t] /\ Head(inbox[t]) = inbox[t][1]
  BY <1>1
<1>3. ASSUME NEW k, Said(k)' PROVE Said(k)
  <2> PICK u \in Tabs : \E i \in DOMAIN inbox'[u] : inbox'[u][i] = k
    BY <1>3 DEF Said
  <2> PICK i \in DOMAIN inbox'[u] : inbox'[u][i] = k
    OBVIOUS
  <2>1. CASE u # t
    BY <1>1, <2>1 DEF Said
  <2>2. CASE u = t
    <3>1. inbox'[t] = Tail(inbox[t])
      BY <1>1
    <3>2. i + 1 \in DOMAIN inbox[t] /\ inbox[t][i + 1] = k
      BY <1>1, <2>2, <3>1, HeadTailProperties
    <3> QED
      BY <3>2 DEF Said
  <2> QED
    BY <2>1, <2>2
<1> QED
  BY <1>1, <1>2, <1>3, TakenType DEF Said

(* When everything is settled nothing is on its way, and no answer waits.  *)
LEMMA SettledSilent == Settled => (\A k : ~Said(k)) /\ \A t \in Tabs : ref[t].pc # "answered"
BY DEF Settled, Said

-----------------------------------------------------------------------------
(* A prompt environment: steps that add nothing to what may be sent *)

(* A refresh goes on with the token it has or the stored one, or is over.  *)
RefLess(t) ==
  \/ ref'[t] = ref[t]
  \/ ref'[t].pc \in {"idle", "wait"}
  \/ /\ ref'[t].pc \in {"write", "verify", "queued"}
     /\ \/ token # 0 /\ ref'[t].tok = token
        \/ /\ ref[t].pc \in {"write", "verify", "queued"}
           /\ ref'[t].ep = ref[t].ep /\ ref'[t].tok = ref[t].tok
AuthLess(t) == auth'[t].pc = "answered" => auth'[t] = auth[t]

(* Then no refresh comes to wait for an answer or to have another token to *)
(* send.                                                                   *)
LEMMA RefLessKinds ==
  ASSUME NEW t \in Tabs, RefLess(t), epoch' = epoch
  PROVE  /\ Pending(t)' => Pending(t) /\ ref'[t] = ref[t]
         /\ Sending(t)' => \/ token # 0 /\ ref'[t].tok = token
                           \/ Sending(t) /\ ref'[t].tok = ref[t].tok
BY DEF RefLess, Pending, Sending

(* A step that adds nothing preserves the invariant.                       *)
LEMMA LessKeeps ==
  ASSUME IInv, prompt, UNCHANGED <<rows, sidOf, ended, lost, token, epoch>>,
         \A t \in Tabs : RefLess(t) /\ AuthLess(t), \A k : Said(k)' => Said(k)
  PROVE  PromptInv'
<1>0. PromptInv
  BY DEF IInv
<1>1. \A t \in Tabs : /\ Pending(t)' => Pending(t) /\ ref'[t] = ref[t]
                      /\ Sending(t)' => \/ token # 0 /\ ref'[t].tok = token
                                        \/ Sending(t) /\ ref'[t].tok = ref[t].tok
  BY RefLessKinds
<1>2. AloneInv'
  BY <1>0, <1>1 DEF PromptInv, AloneInv, AuthLess
<1>3. MessageInv'
  BY <1>0 DEF PromptInv, MessageInv
<1>4. \A k \in Tokens : Current(k)' => Current(k)
  BY <1>1 DEF Current
<1>5. OneInv'
  BY <1>0, <1>4 DEF PromptInv, OneInv
<1>6. AskInv'
  BY <1>0, <1>1 DEF PromptInv, AskInv, Pending
<1>7. \A k : Honoured(k)' <=> Honoured(k)
  BY DEF Honoured
<1>8. \A k \in Tokens : Kept(k)' => Kept(k)
  BY <1>1 DEF Kept, Pending
<1>9. HonourInv'
  BY <1>0, <1>1, <1>7, <1>8 DEF PromptInv, HonourInv, Pending, AuthLess
<1> QED
  BY <1>2, <1>3, <1>5, <1>6, <1>9 DEF PromptInv

-----------------------------------------------------------------------------
(* A prompt environment: what is stored or said changes *)

(* Clearing the tokens, at a sign-out or a refusal, preserves the          *)
(* invariant: nothing that is under way is of the new epoch.               *)
LEMMA ClearKeeps ==
  ASSUME IInv, prompt, NEW t \in Tabs, ClearTokens(t), UNCHANGED <<rows, sidOf, ended, lost>>,
         \A u \in Tabs : (ref'[u] = ref[u] \/ ref'[u].pc = "idle") /\ AuthLess(u)
  PROVE  PromptInv'
<1>0. PromptInv /\ TypeOK /\ EpochInv /\ epoch \in Nat /\ epoch' = epoch + 1 /\ token' = 0
      /\ 0 \notin Tokens /\ Tokens \subseteq 0..MaxToken /\ 0 \in 0..MaxToken
      /\ \A u \in Tabs : ref[u].ep \in Nat /\ auth[u].ep \in Nat
  <2>1. PromptInv /\ TypeOK /\ EpochInv
    BY DEF IInv
  <2>2. epoch \in Nat /\ ref \in [Tabs -> Ref] /\ auth \in [Tabs -> Auth]
    BY <2>1 DEF TypeOK
  <2>3. \A u \in Tabs : ref[u].ep \in Nat /\ auth[u].ep \in Nat
    BY <2>2 DEF Ref, Auth
  <2> QED
    BY <2>1, <2>2, <2>3, Numbers DEF ClearTokens, Tokens
<1>1. \A k : Said(k)' => Said(k) \/ k = 0
  BY <1>0, PostSays DEF ClearTokens
<1>2. \A u \in Tabs : /\ Pending(u)' => Pending(u) /\ ref'[u] = ref[u]
                      /\ ~Sending(u)'
                      /\ ref[u].ep # epoch' /\ auth[u].ep # epoch'
  BY <1>0 DEF Pending, Sending, EpochInv
<1>3. AloneInv'
  BY <1>0, <1>1, <1>2 DEF PromptInv, AloneInv, AuthLess
<1>4. MessageInv'
  BY <1>0, <1>1 DEF PromptInv, MessageInv
<1>5. OneInv'
  BY <1>0, <1>1, <1>2 DEF PromptInv, OneInv, Current, MessageInv
<1>6. AskInv'
  BY <1>0, <1>2 DEF AskInv
<1>7. \A k : Honoured(k)' <=> Honoured(k)
  BY DEF Honoured
<1>8. \A k \in Tokens : Kept(k)' => Kept(k)
  BY <1>0, <1>1, <1>2 DEF Kept, Pending
<1>9. HonourInv'
  BY <1>0, <1>2, <1>7, <1>8 DEF PromptInv, HonourInv, Pending, AuthLess
<1> QED
  BY <1>3, <1>4, <1>5, <1>6, <1>9 DEF PromptInv

(* A token that another tab tells is stored: it is the only one around.    *)
LEMMA HeardKeeps ==
  ASSUME IInv, prompt, NEW t \in Tabs, HandleToken(t)
  PROVE  PromptInv'
<1>0. PromptInv /\ TypeOK /\ ref \in [Tabs -> Ref] /\ 0 \notin Tokens
      /\ UNCHANGED <<rows, sidOf, ended, lost, epoch, auth>> /\ Quiet.pc = "idle"
      /\ Tokens = (0..MaxToken) \ {0} /\ Tokens \subseteq 0..MaxToken
  <2>1. PromptInv /\ TypeOK
    BY DEF IInv
  <2>2. ref \in [Tabs -> Ref]
    BY <2>1 DEF TypeOK
  <2> QED
    BY <2>1, <2>2, Numbers DEF HandleToken, server, Tokens, Quiet
<1> DEFINE m == Head(inbox[t])
<1>1. m \in Tokens /\ Said(m) /\ token' = m /\ \A k : Said(k)' => Said(k)
  BY <1>0, TakeSays DEF HandleToken
<1> HIDE DEF m
<1>2. \A u \in Tabs : ref'[u] = ref[u] \/ ref'[u] = Quiet
  BY <1>0 DEF HandleToken
<1>3. \A u \in Tabs : ~Pending(u) /\ ~Pending(u)' /\ auth[u].pc # "answered"
  BY <1>0, <1>1, <1>2 DEF PromptInv, AloneInv, Pending
<1>4. \A k \in Tokens : Said(k) => k = m
  BY <1>0, <1>1 DEF PromptInv, MessageInv
<1>5. \A u \in Tabs : Sending(u)' => Sending(u) /\ ref'[u].tok = ref[u].tok
  BY <1>0, <1>2 DEF Sending
<1>6. AloneInv'
  BY <1>0, <1>3 DEF AloneInv
<1>7. MessageInv'
  BY <1>1, <1>4 DEF MessageInv
<1>8. OneInv'
  <2> SUFFICES ASSUME Said(0)' PROVE \A k, l \in Tokens : Current(k)' /\ Current(l)' => k = l
    BY <1>0, <1>1 DEF OneInv
  <2>1. \A k \in Tokens : Current(k)' => Current(k)
    BY <1>1, <1>5 DEF Current
  <2> QED
    BY <1>0, <1>1, <2>1 DEF PromptInv, OneInv
<1>9. AskInv'
  BY <1>3 DEF AskInv, Pending
<1>10. \A k \in Tokens : Kept(k)' => Kept(k)
  BY <1>0, <1>1, <1>3, <1>5 DEF Kept, Pending
<1>11. HonourInv'
  BY <1>0, <1>3, <1>10 DEF PromptInv, HonourInv, Honoured, Pending
<1> QED
  BY <1>6, <1>7, <1>8, <1>9, <1>11 DEF PromptInv

(* A sign-out that another tab tells removes what is stored: what can be   *)
(* sent then is the one token around.                                      *)
LEMMA GoneKeeps ==
  ASSUME IInv, prompt, NEW t \in Tabs, HandleSignedOut(t)
  PROVE  PromptInv'
<1>0. PromptInv /\ TypeOK /\ ref \in [Tabs -> Ref] /\ 0 \notin Tokens /\ 0 \in 0..MaxToken
      /\ UNCHANGED <<rows, sidOf, ended, lost, epoch, auth>> /\ Quiet.pc = "idle" /\ token' = 0
      /\ Tokens \subseteq 0..MaxToken
  <2>1. PromptInv /\ TypeOK
    BY DEF IInv
  <2>2. ref \in [Tabs -> Ref]
    BY <2>1 DEF TypeOK
  <2> QED
    BY <2>1, <2>2, Numbers DEF HandleSignedOut, server, Tokens, Quiet
<1>1. Said(0) /\ \A k : Said(k)' => Said(k)
  BY <1>0, TakeSays DEF HandleSignedOut
<1>2. \A u \in Tabs : ref'[u] = ref[u] \/ ref'[u] = Quiet
  BY <1>0 DEF HandleSignedOut
<1>3. \A u \in Tabs : Pending(u)' => Pending(u) /\ ref'[u] = ref[u]
  BY <1>0, <1>2 DEF Pending
<1>5. \A u \in Tabs : Sending(u)' => Sending(u) /\ ref'[u].tok = ref[u].tok
  BY <1>0, <1>2 DEF Sending
<1>6. AloneInv'
  BY <1>0, <1>1, <1>3 DEF PromptInv, AloneInv
<1>7. MessageInv'
  BY <1>0, <1>1 DEF PromptInv, MessageInv
<1>8. OneInv'
  <2>1. \A k \in Tokens : Current(k)' => Current(k)
    BY <1>0, <1>1, <1>5 DEF Current
  <2> QED
    BY <1>0, <1>1, <2>1 DEF PromptInv, OneInv
<1>9. AskInv'
  <2>1. ASSUME NEW u \in Tabs, ref'[u].pc = "asked" PROVE \A x \in Tabs : ~Sending(x)
    <3>1. Pending(u) /\ ref[u].pc = "asked"
      BY <1>3, <2>1 DEF Pending
    <3>2. ref[u].ep # epoch
      BY <1>0, <1>1, <3>1 DEF PromptInv, AloneInv
    <3> QED
      BY <1>0, <3>1, <3>2 DEF PromptInv, AskInv
  <2> QED
    BY <1>0, <1>5, <2>1 DEF AskInv
<1>10. \A k \in Tokens : Kept(k)' => Kept(k)
  BY <1>0, <1>1, <1>3, <1>5 DEF Kept, Pending
<1>11. HonourInv'
  BY <1>0, <1>3, <1>10 DEF PromptInv, HonourInv, Honoured, Pending
<1> QED
  BY <1>6, <1>7, <1>8, <1>9, <1>11 DEF PromptInv

-----------------------------------------------------------------------------
(* A prompt environment: a refresh is sent and answered *)

(* What is sent is the only token around; nothing else is under way.       *)
LEMMA SendKeeps ==
  ASSUME IInv, prompt, NEW t \in Tabs, Send(t), epoch = ref[t].ep
  PROVE  PromptInv'
<1>0. /\ PromptInv /\ TypeOK /\ MutexInv /\ TokenInv
      /\ UNCHANGED <<rows, sidOf, ended, lost, token, epoch, inbox, auth>>
      /\ Settled /\ mutex[1] = NoTab /\ ref[t].pc = "queued"
  BY DEF IInv, Send, server
<1>1. /\ NoTab \notin Tabs /\ 0 \notin Tokens /\ Tokens = (0..MaxToken) \ {0} /\ Tokens \subseteq 0..MaxToken
      /\ ref \in [Tabs -> Ref] /\ token \in 0..MaxToken
      /\ \A u \in Tabs : ref[u].tok \in 0..MaxToken
  <2>1. ref \in [Tabs -> Ref] /\ token \in 0..MaxToken
    BY <1>0 DEF TypeOK
  <2> QED
    BY <2>1, Numbers DEF Ref, Tokens
<1>2. /\ ref'[t].pc = "asked" /\ ref'[t].ask = LatestToken(t) /\ ref'[t].ep = ref[t].ep
      /\ \A u \in Tabs \ {t} : ref'[u] = ref[u]
  BY <1>1 DEF Send, Ref
<1>3. /\ \A k : ~Said(k) /\ ~Said(k)'
      /\ \A u \in Tabs : ~Pending(u) /\ auth[u].pc # "answered"
  <2>1. \A u \in Tabs : <<u, "refresh">>[1] = u /\ <<u, "auth">>[1] = u
    OBVIOUS
  <2>2. \A u \in Tabs : ref[u].pc # "asked" /\ auth[u].pc # "answered"
    BY <1>0, <1>1, <2>1 DEF MutexInv
  <2>3. \A k : Said(k)' <=> Said(k)
    BY <1>0 DEF Said
  <2> QED
    BY <1>0, <2>2, <2>3, SettledSilent DEF Pending
<1>4. \A u \in Tabs : /\ Pending(u)' <=> u = t
                      /\ Sending(u)' => Sending(u) /\ ref'[u].tok = ref[u].tok
  BY <1>0, <1>2, <1>3 DEF Pending, Sending
<1>5. AloneInv'
  BY <1>0, <1>3, <1>4 DEF AloneInv
<1>6. MessageInv'
  BY <1>3 DEF MessageInv
<1>7. OneInv'
  <2>1. \A k \in Tokens : Current(k)' => Current(k)
    BY <1>0, <1>3, <1>4 DEF Current
  <2> QED
    BY <1>0, <1>3, <2>1 DEF PromptInv, OneInv
<1>8. ref[t].tok \in Tokens /\ Sending(t)
  BY <1>0, <1>1 DEF TokenInv, Sending
<1>9. AskInv'
  <2>1. \A u \in Tabs : ref'[u].pc = "asked" => u = t
    BY <1>4 DEF Pending
  <2>2. token \in {0, LatestToken(t)} /\ (token = 0 => LatestToken(t) = ref[t].tok)
    BY DEF LatestToken
  <2>3. ASSUME token = 0, NEW u \in Tabs, Sending(u) PROVE ref[u].tok = ref[t].tok
    <3>1. ref[u].tok \in Tokens
      BY <1>0, <1>1, <2>3 DEF TokenInv, Sending
    <3>2. Current(ref[u].tok) /\ Current(ref[t].tok)
      BY <1>8, <2>3 DEF Current
    <3> QED
      BY <1>0, <1>8, <2>3, <3>1, <3>2 DEF PromptInv, OneInv
  <2> QED
    BY <1>0, <1>2, <1>4, <2>1, <2>2, <2>3 DEF AskInv
<1>10. ASSUME NEW k \in Tokens, Kept(k)' PROVE Kept(k)
  <2>1. CASE \E u \in Tabs : Pending(u)' /\ (ref'[u].pc = "asked" /\ ref'[u].ask = k)
    <3>1. k = LatestToken(t)
      BY <1>2, <1>4, <2>1
    <3> QED
      BY <1>8, <3>1 DEF Kept, LatestToken
  <2>2. CASE ~\E u \in Tabs : Pending(u)' /\ (ref'[u].pc = "asked" /\ ref'[u].ask = k)
    <3>1. ~\E u \in Tabs : ref'[u].pc = "answered"
      BY <1>2, <1>4 DEF Pending
    <3> QED
      BY <1>0, <1>3, <1>4, <1>10, <2>2, <3>1 DEF Kept, Pending
  <2> QED
    BY <2>1, <2>2
<1>11. HonourInv'
  <2>1. \A k : Honoured(k)' <=> Honoured(k)
    BY <1>0 DEF Honoured
  <2>2. \A u \in Tabs : ref'[u].pc # "answered"
    BY <1>2, <1>4 DEF Pending
  <2> QED
    BY <1>0, <1>3, <1>10, <2>1, <2>2 DEF PromptInv, HonourInv
<1> QED
  BY <1>5, <1>6, <1>7, <1>9, <1>11 DEF PromptInv

(* While a refresh waits for its answer, the token it asked with is the    *)
(* only one that may be sent.                                              *)
LEMMA OnlyAsked ==
  ASSUME IInv, prompt, NEW t \in Tabs, ref[t].pc = "asked", NEW k \in Tokens, Kept(k)
  PROVE  k = ref[t].ask
<1>0. PromptInv /\ 0 \notin Tokens /\ Tokens \subseteq 0..MaxToken /\ 0 \in 0..MaxToken
  BY Numbers DEF IInv, Tokens
<1>1. /\ \A u \in Tabs : Pending(u) => u = t
      /\ \A x \in 0..MaxToken : Said(x) => x = 0 /\ ref[t].ep # epoch
  BY <1>0 DEF PromptInv, AloneInv, Pending
<1>2. /\ token \in {0, ref[t].ask}
      /\ ref[t].ep # epoch => token = 0 /\ \A u \in Tabs : ~Sending(u)
      /\ token = 0 => \A u \in Tabs : Sending(u) => ref[u].tok = ref[t].ask
  BY <1>0 DEF PromptInv, AskInv
<1> QED
  BY <1>0, <1>1, <1>2 DEF Kept, Pending

(* An answer leaves the invariant, if what it tells and what may still be  *)
(* sent is honoured after it, and a refusal has one of its two reasons.    *)
LEMMA AnswerKeeps ==
  ASSUME IInv, prompt, NEW t \in Tabs, ref[t].pc = "asked", NEW v \in -2..MaxToken, Answers(t, v),
         UNCHANGED <<ended, token, epoch, auth, inbox>>,
         \A k \in Tokens : Kept(k) \/ k = v => Honoured(k)',
         v = Denied => sidOf'[ref[t].ask] \in ended \/ ref[t].ask \in lost'
  PROVE  PromptInv'
<1>0. PromptInv /\ TypeOK /\ TokenInv /\ ref \in [Tabs -> Ref]
  <2>1. PromptInv /\ TypeOK /\ TokenInv
    BY DEF IInv
  <2> QED
    BY <2>1 DEF TypeOK
<1>1. /\ ref'[t].pc = "answered" /\ ref'[t].ans = v /\ ref'[t].ep = ref[t].ep /\ ref'[t].ask = ref[t].ask
      /\ \A u \in Tabs \ {t} : ref'[u] = ref[u]
  BY <1>0 DEF Answers, Ref
<1>2. /\ \A u \in Tabs : Pending(u) => u = t
      /\ \A u \in Tabs : auth[u].pc # "answered"
  BY <1>0 DEF PromptInv, AloneInv, Pending
<1>3. \A u \in Tabs : /\ Pending(u)' <=> u = t
                      /\ Sending(u)' => Sending(u) /\ ref'[u].tok = ref[u].tok
                      /\ ref'[u].pc # "asked"
                      /\ ref'[u].pc = "answered" => u = t
  BY <1>1, <1>2 DEF Pending, Sending
<1>4. \A k : Said(k)' <=> Said(k)
  BY DEF Said
<1>5. AloneInv'
  <2>1. Pending(t)
    BY DEF Pending
  <2> QED
    BY <1>0, <1>1, <1>2, <1>3, <1>4, <2>1 DEF PromptInv, AloneInv
<1>6. MessageInv'
  BY <1>0, <1>4 DEF PromptInv, MessageInv
<1>7. OneInv'
  BY <1>0, <1>3, <1>4 DEF PromptInv, OneInv, Current
<1>8. AskInv'
  BY <1>3 DEF AskInv
<1>9. \A k \in Tokens : Kept(k)' => Kept(k) \/ k = v
  BY <1>1, <1>3, <1>4 DEF Kept
<1>10. HonourInv'
  BY <1>0, <1>1, <1>2, <1>3, <1>9 DEF HonourInv, TokenInv
<1> QED
  BY <1>5, <1>6, <1>7, <1>8, <1>10 DEF PromptInv

(* Every answer of the server preserves the invariant: a token that is     *)
(* asked with is refused only if its session was signed out, or if it was  *)
(* rotated and the token that replaced it was lost.                        *)
LEMMA ServerKeeps ==
  ASSUME IInv, prompt, NEW t \in Tabs, ServerRefresh(t)
  PROVE  PromptInv'
<1>0. PromptInv /\ TypeOK /\ TokenInv /\ HistoryTypes
  BY DEF IInv
<1>1. /\ ref[t].pc = "asked"
      /\ UNCHANGED <<ended, token, epoch, auth, inbox>>
      /\ \/ Fails(t) \/ Refuses(t)
         \/ \E s \in Sids : Rotates(t, s) \/ Repeats(t, s) \/ Revokes(t, s)
  BY <1>0, Responses
<1>2. /\ Tokens = 1..MaxToken /\ MaxToken \in Nat /\ 0 \notin Sids
      /\ Failed = -2 /\ Denied = -1 /\ issued \in 0..MaxToken
      /\ rows \in [Sids -> [cur : 0..MaxToken, prev : 0..MaxToken, grace : BOOLEAN]]
      /\ sidOf \in [Tokens -> Sids \cup {0}]
  BY <1>0, Numbers DEF Tokens, Failed, Denied, TypeOK, HistoryTypes
<1>3. ref[t].ask \in Tokens
  <2>1. ref[t].ask \in 0..MaxToken /\ ref[t].ask # 0
    BY <1>0, <1>1, Responses DEF TokenInv
  <2> QED
    BY <1>2, <2>1
<1>4. Kept(ref[t].ask) /\ Honoured(ref[t].ask)
  <2>1. Kept(ref[t].ask)
    BY <1>1 DEF Kept
  <2> QED
    BY <1>0, <1>3, <2>1 DEF PromptInv, HonourInv
<1>5. \A k \in Tokens : Kept(k) => k = ref[t].ask
  BY <1>1, OnlyAsked
<1>6. \A k \in Tokens : Kept(k) => Honoured(k)
  BY <1>0 DEF PromptInv, HonourInv
<1>7. CASE Fails(t)
  <2>1. UNCHANGED <<rows, sidOf, lost>> /\ Answers(t, -2) /\ -2 \in -2..MaxToken
    BY <1>2, <1>7 DEF Fails
  <2>2. \A k \in Tokens : Kept(k) \/ k = -2 => Honoured(k)'
    BY <1>1, <1>2, <1>6, <2>1 DEF Honoured
  <2> QED
    BY <1>1, <1>2, <2>1, <2>2, AnswerKeeps
<1>8. CASE Refuses(t)
  <2>1. UNCHANGED <<rows, sidOf, lost>> /\ Answers(t, -1) /\ -1 \in -2..MaxToken
    BY <1>2, <1>8 DEF Refuses
  <2>2. \A k \in Tokens : Kept(k) \/ k = -1 => Honoured(k)'
    BY <1>1, <1>2, <1>6, <2>1 DEF Honoured
  <2>3. sidOf[ref[t].ask] \in ended \/ ref[t].ask \in lost
    BY <1>4, <1>8 DEF Honoured, Refuses
  <2> QED
    BY <1>1, <2>1, <2>2, <2>3, AnswerKeeps
<1>9. ASSUME NEW s \in Sids, Repeats(t, s) PROVE PromptInv'
  <2>1. UNCHANGED <<rows, sidOf, lost>> /\ Answers(t, rows[s].cur)
    BY <1>9 DEF Repeats
  <2>2. rows[s].cur \in 0..MaxToken /\ rows[s].cur \in -2..MaxToken /\ rows[s].cur # Denied
    BY <1>2
  <2>3. rows[s].cur \in Tokens => Honoured(rows[s].cur)
    BY <1>0, <1>2 DEF TokenInv, Honoured
  <2>4. \A k \in Tokens : Kept(k) \/ k = rows[s].cur => Honoured(k)'
    BY <1>1, <1>6, <2>1, <2>3 DEF Honoured
  <2> QED
    BY <1>1, <2>1, <2>2, <2>4, AnswerKeeps
<1>10. ASSUME NEW s \in Sids, Rotates(t, s) PROVE PromptInv'
  <2>1. /\ issued + 1 \in Tokens /\ rows[s].cur = ref[t].ask /\ sidOf[ref[t].ask] = s
        /\ ref[t].ask # issued + 1
    <3>1. /\ issued < MaxToken /\ rows[s].cur = ref[t].ask
      BY <1>10 DEF Rotates
    <3>2. sidOf[ref[t].ask] = s
      BY <1>0, <1>2, <1>3, <3>1 DEF TokenInv
    <3>3. ref[t].ask <= issued
      BY <1>0, <1>2, <1>3, <3>2 DEF TokenInv
    <3> QED
      BY <1>2, <1>3, <3>1, <3>2, <3>3
  <2>2. /\ sidOf'[issued + 1] = s /\ sidOf'[ref[t].ask] = s
        /\ rows'[s].cur = issued + 1 /\ ref[t].ask \in lost'
    <3>1. rows'[s] = [cur |-> issued + 1, prev |-> ref[t].ask, grace |-> TRUE]
      BY <1>2, <1>10 DEF Rotates
    <3>2. sidOf'[issued + 1] = s /\ sidOf'[ref[t].ask] = s
      BY <1>2, <1>3, <1>10, <2>1 DEF Rotates
    <3>3. ref[t].ask \in lost'
      BY <1>10 DEF Rotates
    <3> QED
      BY <3>1, <3>2, <3>3
  <2>3. \A k \in Tokens : Kept(k) \/ k = issued + 1 => Honoured(k)'
    <3>1. \A k \in Tokens : k = ref[t].ask => Honoured(k)'
      BY <2>2 DEF Honoured
    <3>2. \A k : k = issued + 1 => Honoured(k)'
      BY <2>2 DEF Honoured
    <3> QED
      BY <1>5, <3>1, <3>2
  <2>4. \A k \in Tokens : Kept(k) \/ k = -2 => Honoured(k)'
    BY <1>2, <2>3
  <2>5. CASE Answers(t, issued + 1)
    <3>1. issued + 1 \in -2..MaxToken /\ issued + 1 # Denied
      BY <1>2, <2>1
    <3> QED
      BY <1>1, <2>3, <2>5, <3>1, AnswerKeeps
  <2>6. CASE Answers(t, Failed)
    <3>1. -2 \in -2..MaxToken /\ -2 # Denied
      BY <1>2
    <3> QED
      BY <1>1, <1>2, <2>4, <2>6, <3>1, AnswerKeeps
  <2> QED
    BY <1>10, <2>5, <2>6 DEF Rotates
<1>11. ASSUME NEW s \in Sids, Revokes(t, s) PROVE PromptInv'
  <2>1. UNCHANGED <<sidOf, lost>> /\ Answers(t, -1) /\ -1 \in -2..MaxToken
    BY <1>2, <1>11 DEF Revokes
  <2>2. sidOf[ref[t].ask] = s
    BY <1>0, <1>2, <1>3, <1>11 DEF Revokes, TokenInv
  <2>3. s \in ended \/ ref[t].ask \in lost
    BY <1>4, <1>11, <2>2 DEF Honoured, Revokes
  <2>4. \A k \in Tokens : Kept(k) \/ k = -1 => Honoured(k)'
    BY <1>1, <1>2, <1>5, <2>1, <2>2, <2>3 DEF Honoured
  <2> QED
    BY <1>1, <2>1, <2>2, <2>3, <2>4, AnswerKeeps
<1> QED
  BY <1>1, <1>7, <1>8, <1>9, <1>10, <1>11

(* What is committed is honoured, and is the only token around.            *)
LEMMA CommitKeeps ==
  ASSUME IInv, prompt, NEW t \in Tabs, Commit(t)
  PROVE  PromptInv'
<1> DEFINE a == ref[t].ans
<1>0. /\ PromptInv /\ TypeOK /\ UNCHANGED <<rows, sidOf, ended, epoch, auth>>
      /\ lost' = lost \ {ref[t].ask} /\ TokenInv
      /\ ref[t].pc = "answered" /\ epoch = ref[t].ep /\ token' = a /\ Post(t, a)
      /\ ref' = [ref EXCEPT ![t] = Quiet]
  BY DEF IInv, Commit, EpochIsCurrent, server
<1>1. a \in Tokens /\ a \in 0..MaxToken /\ 0 \notin Tokens /\ Tokens \subseteq 0..MaxToken
      /\ ref \in [Tabs -> Ref] /\ 0 \in 0..MaxToken /\ Quiet.pc = "idle"
  <2>1. ref \in [Tabs -> Ref]
    BY <1>0 DEF TypeOK
  <2>2. a \in -2..MaxToken /\ a > 0
    BY <2>1 DEF Ref, Commit
  <2> QED
    BY <2>1, <2>2, Numbers DEF Tokens, Quiet
<1>2. Kept(a) /\ Honoured(a)
  <2>1. Kept(a)
    BY <1>0 DEF Kept
  <2> QED
    BY <1>0, <1>1, <2>1 DEF PromptInv, HonourInv
<1> HIDE DEF a
<1>3. /\ \A u \in Tabs : Pending(u) => u = t
      /\ \A k \in 0..MaxToken : ~Said(k)
      /\ \A u \in Tabs : auth[u].pc # "answered"
  BY <1>0 DEF PromptInv, AloneInv, Pending
<1>4. /\ \A k \in 0..MaxToken : Said(k)' => k = a
      /\ \A u \in Tabs : ~Pending(u)'
  <2>1. \A k \in 0..MaxToken : Said(k)' => k = a
    BY <1>0, <1>1, <1>3, PostSays
  <2>2. ref'[t].pc = "idle" /\ \A u \in Tabs \ {t} : ref'[u] = ref[u]
    BY <1>0, <1>1
  <2> QED
    BY <1>3, <2>1, <2>2 DEF Pending
<1>5. AloneInv'
  BY <1>0, <1>3, <1>4 DEF AloneInv
<1>6. MessageInv'
  BY <1>0, <1>1, <1>4 DEF MessageInv
<1>7. OneInv'
  BY <1>0, <1>1, <1>4 DEF OneInv
<1>8. AskInv'
  BY <1>4 DEF AskInv, Pending
<1>9. \A k \in Tokens : Kept(k)' => k = a
  BY <1>0, <1>1, <1>4 DEF Kept, Pending
<1>10. HonourInv'
  <2>1. a # ref[t].ask
    BY <1>0 DEF a, TokenInv
  <2>2. \A k \in Tokens : k = a => Honoured(k)'
    BY <1>0, <1>2, <2>1 DEF Honoured
  <2> QED
    BY <1>0, <1>3, <1>4, <1>9, <2>1, <2>2 DEF HonourInv, Pending
<1> QED
  BY <1>5, <1>6, <1>7, <1>8, <1>10 DEF PromptInv

-----------------------------------------------------------------------------
(* A prompt environment: sign-ins, sign-outs and the grace period *)

(* If only the rows change, and what may be sent stays honoured, the       *)
(* invariant stays.                                                        *)
LEMMA RowsKeep ==
  ASSUME IInv, prompt, UNCHANGED <<token, epoch, inbox, ref>>,
         \A k \in Tokens : Kept(k) => Honoured(k)',
         \A u \in Tabs : auth'[u].pc = "answered" =>
           /\ \A x \in Tabs : ~Pending(x)
           /\ auth'[u] = auth[u] \/ \A k \in 0..MaxToken : ~Said(k)
           /\ sidOf'[auth'[u].tok] \in Sids /\ rows'[sidOf'[auth'[u].tok]].cur = auth'[u].tok,
         \A k \in Tokens : sidOf[k] \in ended => sidOf'[k] \in ended', lost' = lost
  PROVE  PromptInv'
<1>0. PromptInv /\ TypeOK /\ TokenInv /\ HistoryTypes /\ ref \in [Tabs -> Ref]
  <2>1. PromptInv /\ TypeOK /\ TokenInv /\ HistoryTypes
    BY DEF IInv
  <2> QED
    BY <2>1 DEF TypeOK
<1>1. /\ \A k : (Said(k)' <=> Said(k)) /\ (Current(k)' <=> Current(k)) /\ (Kept(k)' <=> Kept(k))
      /\ \A u \in Tabs : (Pending(u)' <=> Pending(u)) /\ (Sending(u)' <=> Sending(u))
  BY DEF Said, Current, Kept, Pending, Sending
<1>2. AloneInv'
  BY <1>0, <1>1 DEF PromptInv, AloneInv
<1>3. MessageInv' /\ OneInv'
  BY <1>0, <1>1 DEF PromptInv, MessageInv, OneInv
<1>4. AskInv'
  BY <1>0, <1>1 DEF PromptInv, AskInv
<1>5. HonourInv'
  <2>1. \A u \in Tabs : ref[u].ask # 0 => ref[u].ask \in Tokens
    <3>1. \A u \in Tabs : ref[u].ask \in 0..MaxToken
      BY <1>0 DEF Ref
    <3> QED
      BY <3>1, Numbers DEF Tokens
  <2> QED
    BY <1>0, <1>1, <2>1 DEF PromptInv, HonourInv
<1> QED
  BY <1>2, <1>3, <1>4, <1>5 DEF PromptInv

(* A session is created while nothing else is under way.                   *)
LEMMA CreatedKeeps ==
  ASSUME IInv, prompt, NEW t \in Tabs, ServerSignIn(t)
  PROVE  PromptInv'
<1>0. /\ PromptInv /\ TypeOK /\ TokenInv /\ HistoryTypes /\ MutexInv
      /\ UNCHANGED <<token, epoch, inbox, ref, ended, lost>> /\ Settled /\ auth[t].pc = "asked"
  BY DEF IInv, ServerSignIn, store
<1>1. /\ Tokens = 1..MaxToken /\ Sids = 1..MaxSignIns /\ MaxToken \in Nat /\ MaxSignIns \in Nat
      /\ issued \in 0..MaxToken /\ signIns \in 0..MaxSignIns /\ auth \in [Tabs -> Auth]
      /\ rows \in [Sids -> [cur : 0..MaxToken, prev : 0..MaxToken, grace : BOOLEAN]]
      /\ sidOf \in [Tokens -> Sids \cup {0}]
  BY <1>0, Numbers DEF Tokens, Sids, TypeOK, HistoryTypes
<1>2. issued + 1 \in Tokens /\ signIns + 1 \in Sids
  BY <1>1, Numbers DEF ServerSignIn, MayIssue
<1>3. /\ sidOf'[issued + 1] = signIns + 1 /\ \A k \in Tokens \ {issued + 1} : sidOf'[k] = sidOf[k]
      /\ rows'[signIns + 1].cur = issued + 1 /\ \A x \in Sids \ {signIns + 1} : rows'[x] = rows[x]
  BY <1>1, <1>2 DEF ServerSignIn
<1>4. \A k \in Tokens : sidOf[k] \in Sids => k # issued + 1 /\ sidOf[k] # signIns + 1
  <2>1. ASSUME NEW k \in Tokens, sidOf[k] \in Sids PROVE k <= issued /\ sidOf[k] <= signIns /\ sidOf[k] \in Nat
    BY <1>0, <1>1, <2>1 DEF TokenInv
  <2> QED
    BY <1>1, <2>1
<1>5. \A k \in Tokens : Kept(k) => Honoured(k)'
  <2> SUFFICES ASSUME NEW k \in Tokens, Kept(k) PROVE Honoured(k)'
    OBVIOUS
  <2>1. Honoured(k)
    BY <1>0 DEF PromptInv, HonourInv
  <2>2. sidOf'[k] = sidOf[k] /\ rows'[sidOf[k]] = rows[sidOf[k]] /\ UNCHANGED <<ended, lost>>
    BY <1>0, <1>3, <1>4, <2>1 DEF Honoured
  <2> QED
    BY <2>1, <2>2 DEF Honoured
<1>6. \A u \in Tabs : auth[u].pc \in {"asked", "answered"} => u = t
  <2>1. mutex = <<t, "auth">>
    BY <1>0 DEF MutexInv
  <2>2. \A u \in Tabs : <<u, "auth">>[1] = u /\ <<t, "auth">>[1] = t
    OBVIOUS
  <2> QED
    BY <1>0, <2>1, <2>2 DEF MutexInv
<1>7. \A x \in Tabs : ~Pending(x)
  <2>1. mutex = <<t, "auth">>
    BY <1>0 DEF MutexInv
  <2>2. \A u \in Tabs : <<t, "auth">> # <<u, "refresh">>
    OBVIOUS
  <2>3. \A u \in Tabs : ref[u].pc # "asked"
    BY <1>0, <2>1, <2>2 DEF MutexInv
  <2> QED
    BY <1>0, <2>3, SettledSilent DEF Pending
<1>8. \A u \in Tabs : auth'[u].pc = "answered" => auth'[u].tok = issued + 1
  <2>1. \/ auth' = [auth EXCEPT ![t].pc = "answered", ![t].tok = issued + 1]
        \/ auth' = [auth EXCEPT ![t] = Still]
    BY DEF ServerSignIn
  <2>2. Still.pc = "idle"
    BY DEF Still
  <2> QED
    BY <1>1, <1>6, <2>1, <2>2, ZenonT(30) DEF Auth
<1>9. \A k \in Tokens : sidOf[k] \in ended => sidOf'[k] \in ended'
  BY <1>0, <1>3, <1>4 DEF HistoryTypes
<1>10. \A k \in 0..MaxToken : ~Said(k)
  BY <1>0, SettledSilent
<1> QED
  BY <1>0, <1>2, <1>3, <1>5, <1>7, <1>8, <1>9, <1>10, RowsKeep

(* The answer to a sign-in is committed: its token is the only one around. *)
LEMMA SignedInKeeps ==
  ASSUME IInv, prompt, NEW t \in Tabs, CommitSignIn(t), epoch = auth[t].ep
  PROVE  PromptInv'
<1> DEFINE a == auth[t].tok
<1>0. /\ PromptInv /\ TypeOK /\ AccessInv /\ MutexInv
      /\ UNCHANGED <<rows, sidOf, ended, lost, ref, inbox>>
      /\ auth[t].pc = "answered" /\ epoch' = epoch + 1 /\ token' = a
      /\ auth' = [auth EXCEPT ![t] = Still]
  BY DEF IInv, CommitSignIn, server, TypeOK
<1>1. a \in Tokens /\ 0 \notin Tokens /\ Tokens \subseteq 0..MaxToken
      /\ auth \in [Tabs -> Auth] /\ 0 \in 0..MaxToken /\ Still.pc = "idle"
  <2>1. auth \in [Tabs -> Auth]
    BY <1>0 DEF TypeOK
  <2>2. a \in 0..MaxToken /\ a # 0
    BY <1>0, <2>1 DEF Auth, AccessInv
  <2> QED
    BY <2>1, <2>2, Numbers DEF Tokens, Still
<1>2. \A k \in Tokens : k = a => Honoured(k)
  BY <1>0 DEF PromptInv, HonourInv, Honoured
<1> HIDE DEF a
<1>3. /\ \A u \in Tabs : ~Pending(u) /\ ~Pending(u)'
      /\ \A k \in 0..MaxToken : ~Said(k) /\ ~Said(k)'
  <2>1. \A k : Said(k)' <=> Said(k)
    BY <1>0 DEF Said
  <2>2. \A u \in Tabs : Pending(u)' <=> Pending(u)
    BY <1>0 DEF Pending
  <2> QED
    BY <1>0, <2>1, <2>2 DEF PromptInv, AloneInv
<1>4. \A u \in Tabs : auth'[u].pc # "answered"
  <2>1. mutex = <<t, "auth">>
    BY <1>0 DEF MutexInv
  <2>2. \A u \in Tabs : <<u, "auth">>[1] = u /\ <<t, "auth">>[1] = t
    OBVIOUS
  <2>3. \A u \in Tabs : auth[u].pc = "answered" => u = t
    BY <1>0, <2>1, <2>2 DEF MutexInv
  <2> QED
    BY <1>0, <1>1, <2>3
<1>5. AloneInv'
  BY <1>3, <1>4 DEF AloneInv
<1>6. MessageInv' /\ OneInv'
  BY <1>0, <1>1, <1>3 DEF MessageInv, OneInv
<1>7. AskInv'
  BY <1>3 DEF AskInv, Pending
<1>8. \A k \in Tokens : Kept(k)' => k = a
  BY <1>0, <1>1, <1>3 DEF Kept, Pending
<1>9. HonourInv'
  <2>1. \A k : Honoured(k)' <=> Honoured(k)
    BY <1>0 DEF Honoured
  <2> QED
    BY <1>2, <1>3, <1>4, <1>8, <2>1 DEF HonourInv, Pending
<1> QED
  BY <1>5, <1>6, <1>7, <1>9 DEF PromptInv

(* A session that a sign-out deletes is ended.                             *)
LEMMA SignedOutKeeps ==
  ASSUME IInv, prompt, NEW t \in Tabs, ServerSignOut(t)
  PROVE  PromptInv'
<1>0. /\ PromptInv /\ TypeOK /\ MutexInv /\ UNCHANGED <<token, epoch, inbox, ref, sidOf, lost>>
      /\ auth[t].pc = "revoking" /\ auth' = [auth EXCEPT ![t] = Still]
  BY DEF IInv, ServerSignOut, store
<1>1. /\ \A s \in Sids : rows'[s] = rows[s] \/ s \in ended'
      /\ ended \subseteq ended'
  BY DEF ServerSignOut
<1>2. \A k \in Tokens : Kept(k) => Honoured(k)'
  <2> SUFFICES ASSUME NEW k \in Tokens, Kept(k) PROVE Honoured(k)'
    OBVIOUS
  <2>1. Honoured(k)
    BY <1>0 DEF PromptInv, HonourInv
  <2> QED
    BY <1>0, <1>1, <2>1 DEF Honoured
<1>3. \A u \in Tabs : auth'[u].pc # "answered"
  <2>1. mutex = <<t, "auth">>
    BY <1>0 DEF MutexInv
  <2>2. \A u \in Tabs : <<u, "auth">>[1] = u /\ <<t, "auth">>[1] = t
    OBVIOUS
  <2>3. \A u \in Tabs : auth[u].pc = "answered" => u = t
    BY <1>0, <2>1, <2>2 DEF MutexInv
  <2>4. auth \in [Tabs -> Auth] /\ Still.pc = "idle"
    BY <1>0 DEF TypeOK, Still
  <2> QED
    BY <1>0, <2>3, <2>4
<1>4. \A k \in Tokens : sidOf[k] \in ended => sidOf'[k] \in ended'
  BY <1>0, <1>1
<1> QED
  BY <1>0, <1>2, <1>3, <1>4, RowsKeep

(* When a grace period ends, the tokens that may be sent stay honoured:    *)
(* the previous one is among them only if the present one is lost.         *)
LEMMA GraceKeeps ==
  ASSUME IInv, prompt, NEW s \in Sids, GraceEnds(s)
  PROVE  PromptInv'
<1>0. /\ PromptInv /\ TypeOK /\ UNCHANGED <<token, epoch, inbox, ref, sidOf, ended, lost, auth>>
  BY DEF IInv, GraceEnds, store
<1>1. \A x \in Sids : rows'[x].cur = rows[x].cur
  BY <1>0 DEF TypeOK, GraceEnds
<1>2. \A k \in Tokens : Kept(k) => Honoured(k)'
  BY <1>0, <1>1 DEF PromptInv, HonourInv, Honoured
<1>3. \A u \in Tabs : auth'[u].pc = "answered" =>
        /\ auth'[u] = auth[u] /\ \A x \in Tabs : ~Pending(x)
        /\ sidOf'[auth'[u].tok] \in Sids /\ rows'[sidOf'[auth'[u].tok]].cur = auth'[u].tok
  BY <1>0, <1>1 DEF PromptInv, AloneInv, HonourInv
<1> QED
  BY <1>0, <1>2, <1>3, RowsKeep

-----------------------------------------------------------------------------
(* A prompt environment: all steps *)

(* Every step of a prompt environment preserves its invariant.             *)
LEMMA PromptStep == IInv /\ [Next]_vars => (prompt => PromptInv)'
<1> SUFFICES ASSUME IInv, [Next]_vars, prompt' PROVE PromptInv'
  OBVIOUS
<1> USE DEF server, store
<1>0. /\ TypeOK /\ ref \in [Tabs -> Ref] /\ auth \in [Tabs -> Auth]
      /\ Quiet.pc = "idle" /\ Still.pc = "idle"
  <2>1. TypeOK
    BY DEF IInv
  <2> QED
    BY <2>1 DEF TypeOK, Quiet, Still
<1>1. prompt
  BY ZenonT(30) DEF Next, Own, vars, Start, WriteLock, Verify, Send, ServerRefresh, Commit, Reject, GiveUp,
      WaitTimesOut, Heartbeat, SignIn, ServerSignIn, CommitSignIn, SignOut, SendSignOut,
      ServerSignOut, HandleToken, HandleSignedOut, HandleNull, AccessExpires, Crash, LockGoesStale,
      GraceEnds
<1>2. ASSUME NEW t \in Tabs, UNCHANGED <<rows, sidOf, ended, lost, token, epoch, inbox>>,
             RefLess(t), AuthLess(t), \A u \in Tabs \ {t} : ref'[u] = ref[u] /\ auth'[u] = auth[u]
      PROVE  PromptInv'
  <2>1. \A k : Said(k)' => Said(k)
    BY <1>2 DEF Said
  <2>2. \A u \in Tabs : RefLess(u) /\ AuthLess(u)
    BY <1>2 DEF RefLess, AuthLess
  <2> QED
    BY <1>1, <1>2, <2>1, <2>2, LessKeeps
<1>3. CASE UNCHANGED <<rows, sidOf, ended, lost, token, epoch, inbox, ref, auth>>
  <2>1. \A k : Said(k)' => Said(k)
    BY <1>3 DEF Said
  <2>2. \A u \in Tabs : RefLess(u) /\ AuthLess(u)
    BY <1>3 DEF RefLess, AuthLess
  <2> QED
    BY <1>1, <1>3, <2>1, <2>2, LessKeeps
<1>4. ASSUME NEW t \in Tabs, Start(t) PROVE PromptInv'
  <2>1. ref'[t].tok = token /\ token # 0 /\ ref'[t].pc \in {"wait", "write"}
    BY <1>0, <1>4 DEF Start, Quiet
  <2> QED
    BY <1>0, <1>2, <1>4, <2>1 DEF Start, RefLess, AuthLess
<1>5. ASSUME NEW t \in Tabs, WriteLock(t) PROVE PromptInv'
  <2>1. /\ ref[t].pc = "write" /\ ref'[t].pc = "verify"
        /\ ref'[t].tok = ref[t].tok /\ ref'[t].ep = ref[t].ep
    BY <1>0, <1>5 DEF WriteLock, Ref
  <2> QED
    BY <1>0, <1>2, <1>5, <2>1 DEF WriteLock, RefLess, AuthLess
<1>6. ASSUME NEW t \in Tabs, Verify(t) PROVE PromptInv'
  <2>1. ref[t] \in Ref /\ ref[t].pc = "verify" /\ UNCHANGED auth
        /\ \A u \in Tabs \ {t} : ref'[u] = ref[u]
    BY <1>0, <1>6 DEF Verify
  <2>2. CASE lock.held /\ lock.owner = t
    <3>1. ref'[t] = [ref[t] EXCEPT !.pc = "queued", !.tok = IF token # 0 THEN token ELSE ref[t].tok]
      BY <1>0, <1>6, <2>2 DEF Verify
    <3>2. /\ ref'[t].pc = "queued" /\ ref'[t].ep = ref[t].ep
          /\ ref'[t].tok = IF token # 0 THEN token ELSE ref[t].tok
      BY <2>1, <3>1 DEF Ref
    <3> QED
      BY <1>2, <1>6, <2>1, <3>2 DEF Verify, RefLess, AuthLess
  <2>3. CASE ~(lock.held /\ lock.owner = t)
    <3>1. ref'[t] = [ref[t] EXCEPT !.pc = "wait"] \/ ref'[t] = Quiet
      BY <1>0, <1>6, <2>3 DEF Verify
    <3>2. ref'[t].pc \in {"wait", "idle"}
      BY <1>0, <2>1, <3>1 DEF Ref
    <3> QED
      BY <1>2, <1>6, <2>1, <3>2 DEF Verify, RefLess, AuthLess
  <2> QED
    BY <2>2, <2>3
<1>7. ASSUME NEW t \in Tabs, Send(t) PROVE PromptInv'
  <2>1. CASE epoch = ref[t].ep
    BY <1>1, <1>7, <2>1, SendKeeps
  <2>2. CASE epoch # ref[t].ep
    BY <1>0, <1>2, <1>7, <2>2 DEF Send, RefLess, AuthLess
  <2> QED
    BY <2>1, <2>2
<1>8. ASSUME NEW t \in Tabs, Reject(t) PROVE PromptInv'
  <2>1. /\ UNCHANGED <<rows, sidOf, ended, lost, auth>>
        /\ ref'[t].pc = "idle" /\ \A u \in Tabs \ {t} : ref'[u] = ref[u]
    BY <1>0, <1>8 DEF Reject
  <2>2. CASE ClearTokens(t)
    BY <1>1, <2>1, <2>2, ClearKeeps DEF AuthLess
  <2>3. CASE ~ClearTokens(t)
    BY <1>2, <1>8, <2>1, <2>3 DEF Reject, RefLess, AuthLess
  <2> QED
    BY <2>2, <2>3
<1>9. ASSUME NEW t \in Tabs, GiveUp(t) \/ WaitTimesOut(t) PROVE PromptInv'
  BY <1>0, <1>2, <1>9 DEF GiveUp, WaitTimesOut, RefLess, AuthLess
<1>10. ASSUME NEW t \in Tabs, SignIn(t) \/ SendSignOut(t) PROVE PromptInv'
  <2>1. auth'[t].pc # "answered" /\ \A u \in Tabs \ {t} : auth'[u] = auth[u]
    BY <1>0, <1>10 DEF SignIn, SendSignOut, Still, Auth
  <2> QED
    BY <1>0, <1>2, <1>10, <2>1 DEF SignIn, SendSignOut, RefLess, AuthLess
<1>11. ASSUME NEW t \in Tabs, CommitSignIn(t) PROVE PromptInv'
  <2>1. CASE epoch = auth[t].ep
    BY <1>1, <1>11, <2>1, SignedInKeeps
  <2>2. CASE epoch # auth[t].ep
    BY <1>0, <1>2, <1>11, <2>2 DEF CommitSignIn, RefLess, AuthLess
  <2> QED
    BY <2>1, <2>2
<1>12. ASSUME NEW t \in Tabs, SignOut(t) PROVE PromptInv'
  <2>1. /\ UNCHANGED <<rows, sidOf, ended, lost, ref>> /\ ClearTokens(t)
        /\ auth'[t].pc = "signout" /\ \A u \in Tabs \ {t} : auth'[u] = auth[u]
    BY <1>0, <1>12 DEF SignOut, Still
  <2> QED
    BY <1>1, <2>1, ClearKeeps DEF AuthLess
<1>13. ASSUME NEW t \in Tabs, Crash(t) PROVE PromptInv'
  <2>1. /\ UNCHANGED <<rows, sidOf, ended, lost, token, epoch>>
        /\ \A u \in Tabs : ref'[u] = IF u = t THEN Quiet ELSE ref[u]
        /\ \A u \in Tabs : auth'[u] = IF u = t THEN Still ELSE auth[u]
    BY <1>0, <1>13 DEF Crash
  <2>2. \A k : Said(k)' => Said(k)
    <3>1. inbox \in [Tabs -> Seq(0..MaxToken)]
      BY <1>0 DEF TypeOK
    <3>2. \A u \in Tabs : inbox'[u] = inbox[u] \/ inbox'[u] = <<>>
      BY <1>13, <3>1 DEF Crash
    <3> QED
      BY <3>2 DEF Said
  <2>3. \A u \in Tabs : RefLess(u) /\ AuthLess(u)
    BY <1>0, <2>1 DEF RefLess, AuthLess
  <2> QED
    BY <1>1, <2>1, <2>2, <2>3, LessKeeps
<1>14. ASSUME NEW t \in Tabs,
              \/ ServerRefresh(t) \/ Commit(t) \/ ServerSignIn(t) \/ ServerSignOut(t)
              \/ HandleToken(t) \/ HandleSignedOut(t)
       PROVE  PromptInv'
  BY <1>1, <1>14, ServerKeeps, CommitKeeps, CreatedKeeps, SignedOutKeeps, HeardKeeps, GoneKeeps
<1>15. ASSUME NEW s \in Sids, GraceEnds(s) PROVE PromptInv'
  BY <1>1, <1>15, GraceKeeps
<1> QED
  BY <1>3, <1>4, <1>5, <1>6, <1>7, <1>8, <1>9, <1>10, <1>11, <1>12, <1>13, <1>14, <1>15
  DEF Next, Own, vars, Heartbeat, HandleNull, AccessExpires, LockGoesStale

-----------------------------------------------------------------------------
(* Theorems *)

(* The inductive invariant holds in every reachable state, for any number  *)
(* of tabs, tokens, sign-ins, sign-outs and messages.                      *)
THEOREM TabsInvariance == Spec => []IInv
<1>1. IInv /\ [Next]_vars => IInv'
  <2> SUFFICES ASSUME IInv, [Next]_vars PROVE IInv'
    OBVIOUS
  <2>1. TypeOK' /\ HistoryTypes'
    BY TypeStep DEF IInv
  <2>2. EpochInv' /\ AccessInv' /\ MutexInv' /\ TokenInv'
    BY EpochStep, AccessStep, MutexStep, TokenStep
  <2>3. (prompt => PromptInv)'
    BY PromptStep
  <2> QED
    BY <2>1, <2>2, <2>3 DEF IInv
<1> QED
  BY <1>1, InitHolds, PTL DEF Spec

(* The storage, the locks, the tabs and the server keep their types.       *)
THEOREM TabTypes == Spec => []TypeOK
BY TabsInvariance, PTL DEF IInv

(* If no request leaves while an answer or a message is still to be        *)
(* handled, a refresh is refused only if its session was signed out, or if *)
(* no tab ever stored the token that replaced the one it presents: whoever *)
(* leads, whichever tab dies, and however late the next request.           *)
THEOREM RefreshesAreHonoured == Spec => []RefusedForAReason
<1>1. IInv => RefusedForAReason
  BY DEF IInv, PromptInv, HonourInv, RefusedForAReason
<1> QED
  BY <1>1, TabsInvariance, PTL

(* A tab has no access token left when nothing is stored, nothing is under *)
(* way and every event has been handled.                                   *)
THEOREM NoTabIsLeftSignedIn == Spec => []QuietTabsAgree
<1>1. IInv => QuietTabsAgree
  BY DEF IInv, AccessInv, QuietTabsAgree
<1> QED
  BY <1>1, TabsInvariance, PTL

(* What a refresh or a sign-in brings back is committed only if no tab has *)
(* signed out since it began.                                              *)
THEOREM SignOutsAreRespected == Spec => NoAnswerRestoresSession
<1>1. IInv /\ [Next]_vars =>
        [\A t \in Tabs :
           /\ Commit(t) => ref[t].seen = outs
           /\ CommitSignIn(t) /\ epoch' # epoch => auth[t].seen = outs]_vars
  BY DEF IInv, EpochInv, Commit, CommitSignIn, EpochIsCurrent
<1> QED
  BY <1>1, TabsInvariance, PTL DEF Spec, NoAnswerRestoresSession
=============================================================================
