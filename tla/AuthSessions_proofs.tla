------------------------- MODULE AuthSessions_proofs -------------------------
(***************************************************************************)
(* Proofs about AuthSessions: IInv is inductive, and what it says of every *)
(* interleaving of the requests follows for any number of requests,        *)
(* sessions and tokens and any lengths of the grace period and the TTL.    *)
(***************************************************************************)
EXTENDS AuthSessions, FiniteSetTheorems, TLAPS

(* A request that has signed a token and has not written it.               *)
Pending(r) == req[r].pc \in {"swap", "create"}

(* Tokens not signed yet are nowhere.                                      *)
SignedInv ==
  /\ \A t \in Tokens : t > signed => sidOf[t] = -1 /\ heir[t].to = 0
  /\ \A t \in held : t <= signed
  /\ \A s \in Sids : rows[s].cur <= signed /\ rows[s].prev <= signed
  /\ \A r \in Reqs : req[r].tok <= signed /\ req[r].new <= signed

(* A row is the end of its session's line of tokens, and remembers the     *)
(* last link of it.                                                        *)
RowsInv ==
  \A s \in Sids :
    /\ rows[s].cur # 0 => heir[rows[s].cur].to = 0 /\ sidOf[rows[s].cur] = s
    /\ rows[s].prev # 0 => /\ rows[s].cur # 0
                           /\ heir[rows[s].prev].to = rows[s].cur
                           /\ heir[rows[s].prev].at = rows[s].rotatedAt
                           /\ sidOf[rows[s].prev] = s

(* A token that is signed and not written is known to its request alone.   *)
Fresh(r) ==
  /\ req[r].new # 0 /\ req[r].sid \in Sids
  /\ heir[req[r].new].to = 0 /\ sidOf[req[r].new] = req[r].sid
  /\ req[r].new \notin held \cup closed
  /\ \A s \in Sids : rows[s].cur # req[r].new /\ rows[s].prev # req[r].new
  /\ \A p \in Reqs : /\ req[p].tok # req[r].new
                     /\ req[p].pc = "answer" => req[p].new # req[r].new
                     /\ Pending(p) /\ p # r => req[p].new # req[r].new
FreshInv == \A r \in Reqs : Pending(r) => Fresh(r)

(* What a request at each place knows.                                     *)
Knows(r) ==
  /\ req[r].pc \in {"current", "previous", "swap", "revoke", "hook"} => req[r].tok # 0
  /\ req[r].pc \in {"revoke", "hook"} => req[r].sid \in Sids
  /\ req[r].pc \in {"expired", "winner"} => req[r].op \in {"ticket", "winner"}
  /\ req[r].op \in {"ticket", "winner"} => req[r].sid \in Tickets /\ req[r].tok = 0
  /\ req[r].pc = "create" =>
       /\ req[r].tok = 0
       /\ req[r].sid \notin Tickets =>
            \A t \in Tokens : sidOf[t] = req[r].sid => t = req[r].new
  /\ req[r].pc = "answer" =>
       /\ req[r].new # 0
       /\ req[r].tok # 0 => heir[req[r].tok].to = req[r].new
AskInv == \A r \in Reqs : Knows(r)

(* A token once given up stays given up, and gets no further.              *)
LateInv ==
  \A r \in Reqs :
    /\ req[r].late => req[r].tok # 0 /\ GivenUp(req[r].tok)
    /\ req[r].pc \in {"swap", "answer"} => ~req[r].late

(* A token whose line has ended is in no row, and its session has no row   *)
(* and is not being created, unless a ticket gives the id.                 *)
EndedFor(t) ==
  /\ t <= signed /\ sidOf[t] \in Sids
  /\ \A s \in Sids : rows[s].cur # t /\ rows[s].prev # t
  /\ sidOf[t] \notin Tickets =>
       /\ rows[sidOf[t]].cur = 0
       /\ \A r \in Reqs : req[r].pc = "create" => req[r].sid # sidOf[t]
ClosedInv == \A t \in closed : EndedFor(t)

ToldInv == \A a \in told : a[2] # 0 /\ a[2] = heir[a[1]].to

IInv == /\ TypeOK /\ SignedInv /\ RowsInv /\ FreshInv /\ AskInv
        /\ LateInv /\ ClosedInv /\ ToldInv

-----------------------------------------------------------------------------
(* The initial state and the types *)

(* Tokens are the numbers up to MaxToken but 0, which stands for none.     *)
LEMMA TokenNumbers ==
  /\ 0 \in 0..MaxToken /\ Tokens \subseteq Nat
  /\ \A t \in Tokens : t \in 0..MaxToken /\ t # 0
  /\ \A t \in 0..MaxToken : t # 0 => t \in Tokens
BY SessionAssumption DEF Tokens

(* The empty row and the idle request.                                     *)
LEMMA NoneOfIt ==
  /\ NoRow \in Row /\ NoRow.cur = 0 /\ NoRow.prev = 0
  /\ Idle \in Req /\ Idle.pc = "idle" /\ Idle.op = "none" /\ Idle.tok = 0 /\ Idle.new = 0
  /\ ~Idle.late
BY SessionAssumption DEF NoRow, Row, Idle, Req, Ops, Pcs

(* A request that is about to answer.                                      *)
LEMMA AnsweringShape ==
  ASSUME NEW q \in Req, NEW t \in 0..MaxToken
  PROVE  LET a == Answering(q, t)
         IN  /\ a \in Req /\ a.pc = "answer" /\ a.op = "none"
             /\ a.tok = q.tok /\ a.new = t /\ a.late = q.late
BY SessionAssumption DEF Answering, Idle, Req, Ops, Pcs

(* The initial state satisfies the inductive invariant.                    *)
LEMMA InitHolds == Init => IInv
<1> SUFFICES ASSUME Init PROVE IInv
  OBVIOUS
<1>1. TypeOK
  BY NoneOfIt, SessionAssumption DEF Init, TypeOK, Tokens
<1>2. SignedInv /\ RowsInv
  BY NoneOfIt DEF Init, SignedInv, RowsInv, Tokens
<1>3. FreshInv /\ AskInv /\ LateInv
  BY NoneOfIt DEF Init, FreshInv, Pending, AskInv, Knows, LateInv
<1>4. ClosedInv /\ ToldInv
  BY DEF Init, ClosedInv, ToldInv
<1> QED
  BY <1>1, <1>2, <1>3, <1>4 DEF IInv

(* createSessionWithLimit writes the new row and drops others at most.     *)
LEMMA WithSessionShape ==
  ASSUME TypeOK, NEW s \in Sids, NEW row \in Row, NEW at \in Nat
  PROVE  LET R == WithSession(s, row, at)
         IN  /\ R \in [Sids -> Row]
             /\ R[s] = row
             /\ \A x \in Sids \ {s} : R[x] = rows[x] \/ R[x] = NoRow
<1> DEFINE C == [Cleaned(rows, at) EXCEPT ![s] = row]
<1>1. rows \in [Sids -> Row] /\ NoRow \in Row
  BY SessionAssumption DEF TypeOK, Row, NoRow
<1>2. /\ C \in [Sids -> Row] /\ C[s] = row
      /\ \A x \in Sids \ {s} : C[x] = rows[x] \/ C[x] = NoRow
  BY <1>1 DEF Cleaned
<1>3. CASE MaxSessions = 0
  BY <1>1, <1>3 DEF WithSession
<1>4. CASE MaxSessions # 0
  <2>1. WithSession(s, row, at) = Pruned(C, s)
    BY <1>4 DEF WithSession
  <2>2. /\ Pruned(C, s) \in [Sids -> Row]
        /\ \A x \in Sids : Pruned(C, s)[x] = C[x] \/ Pruned(C, s)[x] = NoRow
    BY <1>1, <1>2 DEF Pruned
  <2>3. Ahead(C, s, s) = {}
    BY DEF Ahead
  <2>4. Cardinality(Ahead(C, s, s)) = 0
    BY <2>3, FS_EmptySet
  <2>5. ~(Cardinality(Ahead(C, s, s)) >= MaxSessions)
    BY <2>4, <1>4, SessionAssumption
  <2>6. Pruned(C, s)[s] = C[s]
    BY <2>5 DEF Pruned
  <2> HIDE DEF C
  <2> QED
    BY <1>2, <2>1, <2>2, <2>6
<1> QED
  BY <1>3, <1>4

(* Signing adds one token.                                                 *)
LEMMA SignTypes ==
  ASSUME TypeOK, NEW s \in Sids, Sign(s)
  PROVE  /\ signed' \in 0..MaxToken /\ signed + 1 \in Tokens
         /\ sidOf' \in [Tokens -> Sids \cup {-1}] /\ expOf' \in [Tokens -> Nat]
BY SessionAssumption DEF TypeOK, Sign, Tokens

(* A sign-in has the id of its ticket, or one that no token carries.       *)
LEMMA SidsForShape ==
  ASSUME AskInv, NEW r \in Reqs, NEW s \in SidsFor(req[r])
  PROVE  s \in Sids /\ (s \in Tickets \/ s \in UnusedSids)
BY SessionAssumption DEF AskInv, Knows, SidsFor, UnusedSids

(* What becomes of an exchange that finds no session to answer with, and   *)
(* of a sign-in whose insert fails.                                        *)
LEMMA ReuseShapes ==
  ASSUME NEW q \in Req
  PROVE  /\ NotReused(q) = Idle \/ NotReused(q) = [q EXCEPT !.pc = "sign"]
         /\ NotReused(q) \in Req /\ [q EXCEPT !.pc = "expired"] \in Req
         /\ \/ Winner(q) = Idle
            \/ /\ Winner(q).op = "winner" /\ Winner(q).pc = "winner" /\ Winner(q).new = 0
               /\ Winner(q).tok = q.tok /\ Winner(q).sid = q.sid /\ Winner(q).late = q.late
               /\ q.op = "ticket"
         /\ Winner(q) \in Req
<1>1. [q EXCEPT !.pc = "sign"] \in Req /\ [q EXCEPT !.pc = "expired"] \in Req
  BY DEF Req, Pcs
<1>2. CASE q.op = "ticket"
  <2>1. Winner(q) = [q EXCEPT !.op = "winner", !.pc = "winner", !.new = 0, !.at = 0]
    BY <1>2 DEF Winner
  <2>a. 0 \in 0..MaxToken /\ 0 \in Nat
    BY TokenNumbers
  <2>2. Winner(q) \in Req
    BY <2>1, <2>a DEF Req, Ops, Pcs
  <2>3. /\ Winner(q).op = "winner" /\ Winner(q).pc = "winner" /\ Winner(q).new = 0
        /\ Winner(q).tok = q.tok /\ Winner(q).sid = q.sid /\ Winner(q).late = q.late
    BY <2>1 DEF Req
  <2> QED
    BY <1>1, <1>2, <2>2, <2>3 DEF NotReused
<1>3. CASE q.op # "ticket"
  BY <1>1, <1>3, NoneOfIt DEF NotReused, Winner
<1> QED
  BY <1>2, <1>3

(* Every step keeps the types.                                             *)
LEMMA TypeStep == IInv /\ [Next]_vars => TypeOK'
<1> SUFFICES ASSUME IInv, [Next]_vars PROVE TypeOK'
  OBVIOUS
<1>0. TypeOK /\ FreshInv /\ AskInv
  BY DEF IInv
<1>1. NoRow \in Row /\ Idle \in Req
  BY NoneOfIt
<1>2. ASSUME NEW r \in Reqs, NEW q \in Req, Become(r, q) PROVE TypeOK'
  BY <1>0, <1>2 DEF TypeOK, Become
<1>a. ASSUME NEW r \in Reqs, NEW q \in Req, q.sid \in Sids, Reuse(r, q) PROVE TypeOK'
  <2>1. rows[q.sid].cur \in 0..MaxToken
    BY <1>0, <1>a DEF TypeOK, Row
  <2>2. /\ NotReused(q) \in Req /\ [q EXCEPT !.pc = "expired"] \in Req
        /\ Answering(q, rows[q.sid].cur) \in Req
    BY <2>1, ReuseShapes, AnsweringShape
  <2> QED
    BY <1>2, <1>a, <2>2 DEF Reuse
<1>b. ASSUME NEW r \in Reqs, NEW s \in Tickets, Exchange(r, s) PROVE TypeOK'
  <2> DEFINE q == [Idle EXCEPT !.op = "ticket", !.sid = s]
  <2>1. q \in Req /\ q.sid \in Sids
    BY SessionAssumption, TokenNumbers DEF Idle, Req, Ops, Pcs
  <2>2. Reuse(r, q)
    BY <1>b DEF Exchange
  <2> HIDE DEF q
  <2> QED
    BY <1>a, <2>1, <2>2
<1>c. ASSUME NEW r \in Reqs, ReuseWinner(r) PROVE TypeOK'
  <2>1. req[r] \in Req /\ req[r].sid \in Sids
    BY <1>0, <1>c, SessionAssumption DEF TypeOK, ReuseWinner, AskInv, Knows
  <2> QED
    BY <1>a, <1>c, <2>1 DEF ReuseWinner
<1>d. ASSUME NEW r \in Reqs, DeleteExpired(r) PROVE TypeOK'
  <2>1. req[r] \in Req /\ req[r].sid \in Sids
    BY <1>0, <1>d, SessionAssumption DEF TypeOK, DeleteExpired, AskInv, Knows
  <2>2. rows' \in [Sids -> Row] /\ closed' \subseteq Tokens
    BY <1>0, <1>1, <1>d, <2>1 DEF TypeOK, DeleteExpired, WithoutSession, Deleting, Ended
  <2>3. NotReused(req[r]) \in Req
    BY <2>1, ReuseShapes
  <2>4. req' \in [Reqs -> Req]
    BY <1>0, <1>d, <2>3 DEF TypeOK, DeleteExpired
  <2> QED
    BY <1>0, <1>d, <2>2, <2>4 DEF TypeOK, DeleteExpired
<1>e. ASSUME NEW r \in Reqs, CreateFails(r) PROVE TypeOK'
  <2>1. req[r] \in Req
    BY <1>0 DEF TypeOK
  <2> QED
    BY <1>2, <1>e, <2>1, ReuseShapes DEF CreateFails
<1>3. ASSUME NEW r \in Reqs, SignIn(r) PROVE TypeOK'
  <2>1. PICK s \in SidsFor(req[r]) :
          /\ Sign(s)
          /\ req' = [req EXCEPT ![r] =
                      [Idle EXCEPT !.op = IF req[r].op = "ticket" THEN "ticket" ELSE "signin",
                                   !.pc = "create", !.sid = s, !.new = signed + 1, !.at = now]]
    BY <1>3 DEF SignIn
  <2>2. s \in Sids
    BY <1>0, SidsForShape
  <2> DEFINE q == [Idle EXCEPT !.op = IF req[r].op = "ticket" THEN "ticket" ELSE "signin",
                               !.pc = "create", !.sid = s, !.new = signed + 1, !.at = now]
  <2>a. signed + 1 \in 0..MaxToken
    BY <1>0, <2>1, <2>2, SignTypes, SessionAssumption DEF Tokens
  <2>b. q \in Req
    BY <1>0, <1>1, <2>2, <2>a DEF TypeOK, Req, Ops, Pcs
  <2> HIDE DEF q
  <2>c. req' = [req EXCEPT ![r] = q]
    BY <2>1 DEF q
  <2>3. req' \in [Reqs -> Req]
    BY <1>0, <2>b, <2>c DEF TypeOK
  <2> QED
    BY <1>0, <1>3, <2>1, <2>2, <2>3, SignTypes DEF TypeOK, SignIn
<1>4. ASSUME NEW r \in Reqs, Create(r) PROVE TypeOK'
  <2> DEFINE q   == req[r]
             row == [NoRow EXCEPT !.cur = q.new, !.expiresAt = expOf[q.new], !.createdAt = q.at]
  <2>1. q \in Req /\ q.pc = "create" /\ q.new \in Tokens /\ q.sid \in Sids /\ q.at \in Nat
    BY <1>0, <1>4 DEF TypeOK, Create, FreshInv, Fresh, Pending, Req, Tokens
  <2>2. row \in Row
    BY <1>0, <1>1, <2>1, SessionAssumption DEF TypeOK, Req, Row, NoRow, Tokens
  <2> HIDE DEF row
  <2>3. rows' = WithSession(q.sid, row, q.at) /\ closed' = Deleting(rows')
    BY <1>4 DEF Create, row
  <2>4. rows' \in [Sids -> Row]
    BY <1>0, <2>1, <2>2, <2>3, WithSessionShape
  <2>a. Winner(q) \in Req /\ Answering(q, q.new) \in Req
    BY <2>1, TokenNumbers, ReuseShapes, AnsweringShape
  <2>5. req' \in [Reqs -> Req]
    BY <1>0, <1>4, <2>a DEF TypeOK, Create
  <2>6. closed' \subseteq Tokens
    BY <1>0, <2>3 DEF TypeOK, Deleting, Ended
  <2> QED
    BY <1>0, <1>4, <2>4, <2>5, <2>6 DEF TypeOK, Create
<1>5. ASSUME NEW r \in Reqs, NEW op \in {"refresh", "signout"}, NEW t \in held, Ask(r, op, t)
      PROVE  TypeOK'
  <2> DEFINE q == [Idle EXCEPT !.op = op, !.pc = "current", !.tok = t, !.late = GivenUp(t)]
  <2>a. t \in 0..MaxToken /\ GivenUp(t) \in BOOLEAN
    BY <1>0, SessionAssumption DEF TypeOK, Tokens, GivenUp
  <2>b. q \in Req
    BY <1>1, <2>a DEF Req, Ops, Pcs
  <2>c. req' = [req EXCEPT ![r] = q]
    BY <1>5 DEF Ask
  <2> HIDE DEF q
  <2>1. req' \in [Reqs -> Req]
    BY <1>0, <2>b, <2>c DEF TypeOK
  <2> QED
    BY <1>0, <1>5, <2>1 DEF TypeOK, Ask
<1>6. ASSUME NEW r \in Reqs, LookupCurrent(r) PROVE TypeOK'
  <2>1. req[r] \in Req
    BY <1>0 DEF TypeOK
  <2>2. CASE \E s \in Sids : /\ Sign(s)
                             /\ req' = [req EXCEPT ![r].pc = "swap", ![r].sid = s,
                                                   ![r].new = signed + 1]
                             /\ UNCHANGED <<now, rows, held, heir, closed, told>>
    <3>1. PICK s \in Sids : /\ Sign(s)
                            /\ req' = [req EXCEPT ![r].pc = "swap", ![r].sid = s,
                                                   ![r].new = signed + 1]
                            /\ UNCHANGED <<now, rows, held, heir, closed, told>>
      BY <2>2
    <3> DEFINE q == [req[r] EXCEPT !.pc = "swap", !.sid = s, !.new = signed + 1]
    <3>a. signed + 1 \in 0..MaxToken
      BY <1>0, <3>1, SignTypes, SessionAssumption DEF Tokens
    <3>b. q \in Req
      BY <2>1, <3>a DEF Req, Pcs
    <3>c. req' = [req EXCEPT ![r] = q]
      BY <1>0, <3>1 DEF TypeOK
    <3> HIDE DEF q
    <3>2. req' \in [Reqs -> Req]
      BY <1>0, <3>b, <3>c DEF TypeOK
    <3> QED
      BY <1>0, <3>1, <3>2, SignTypes DEF TypeOK
  <2>3. CASE Become(r, [req[r] EXCEPT !.pc = "previous"])
    <3>1. [req[r] EXCEPT !.pc = "previous"] \in Req
      BY <2>1 DEF Req, Pcs
    <3> QED
      BY <1>2, <2>3, <3>1
  <2>4. CASE \E s \in Sids : Become(r, [req[r] EXCEPT !.pc = "hook", !.sid = s])
    <3>1. \A s \in Sids : [req[r] EXCEPT !.pc = "hook", !.sid = s] \in Req
      BY <2>1 DEF Req, Pcs
    <3> QED
      BY <1>2, <2>4, <3>1
  <2> QED
    BY <1>1, <1>2, <1>6, <2>2, <2>3, <2>4 DEF LookupCurrent
<1>7. ASSUME NEW r \in Reqs, LookupPrevious(r) PROVE TypeOK'
  <2>1. req[r] \in Req
    BY <1>0 DEF TypeOK
  <2>2. \A s \in Sids :
          /\ Answering(req[r], rows[s].cur) \in Req
          /\ [req[r] EXCEPT !.pc = "revoke", !.sid = s] \in Req
          /\ [req[r] EXCEPT !.pc = "hook", !.sid = s] \in Req
    <3>1. \A s \in Sids : rows[s].cur \in 0..MaxToken
      BY <1>0 DEF TypeOK, Row
    <3>2. \A s \in Sids : Answering(req[r], rows[s].cur) \in Req
      BY <2>1, <3>1, AnsweringShape
    <3> QED
      BY <2>1, <3>2 DEF Req, Pcs
  <2> QED
    BY <1>1, <1>2, <1>7, <2>2 DEF LookupPrevious
<1>8. ASSUME NEW r \in Reqs, SwapWins(r) PROVE TypeOK'
  <2>1. /\ req[r] \in Req /\ req[r].tok \in Tokens /\ req[r].new \in Tokens
        /\ req[r].sid \in Sids
    BY <1>0, <1>8 DEF TypeOK, SwapWins, FreshInv, Fresh, AskInv, Knows, Pending,
                          Req, Tokens
  <2>a. /\ rows[req[r].sid] \in Row /\ expOf[req[r].new] \in Nat /\ now \in Nat
        /\ req[r].tok \in 0..MaxToken /\ req[r].new \in 0..MaxToken
    BY <1>0, <2>1, TokenNumbers DEF TypeOK
  <2>2. Rotated(req[r].sid, req[r]) \in Row
    BY <2>a DEF Rotated, Row
  <2>3. rows' \in [Sids -> Row]
    BY <1>0, <1>8, <2>1, <2>2 DEF TypeOK, SwapWins
  <2>4. heir' \in [Tokens -> [to : 0..MaxToken, at : Nat]]
    BY <1>0, <1>8, <2>1, <2>a DEF TypeOK, SwapWins
  <2>b. Answering(req[r], req[r].new) \in Req
    BY <2>1, <2>a, AnsweringShape
  <2>5. req' \in [Reqs -> Req]
    BY <1>0, <1>8, <2>b DEF TypeOK, SwapWins
  <2> QED
    BY <1>0, <1>8, <2>3, <2>4, <2>5 DEF TypeOK, SwapWins
<1>9. ASSUME NEW r \in Reqs, SwapLoses(r) PROVE TypeOK'
  <2>1. req[r] \in Req
    BY <1>0 DEF TypeOK
  <2>2. LookAgain(req[r]) \in Req
    BY <2>1, TokenNumbers DEF LookAgain, Req, Ops, Pcs
  <2> QED
    BY <1>2, <1>9, <2>2 DEF SwapLoses
<1>10. ASSUME NEW r \in Reqs, Answer(r) PROVE TypeOK'
  <2>a. /\ req[r].new \in 0..MaxToken /\ req[r].tok \in 0..MaxToken
        /\ req[r].new # 0
    BY <1>0, <1>10 DEF TypeOK, Answer, AskInv, Knows, Req
  <2>1. req[r].new \in Tokens /\ (req[r].tok # 0 => req[r].tok \in Tokens)
    BY <2>a, SessionAssumption DEF Tokens
  <2>2. held' \subseteq Tokens /\ told' \subseteq Tokens \X Tokens
    BY <1>0, <1>10, <2>1 DEF TypeOK, Answer
  <2> QED
    BY <1>0, <1>1, <1>10, <2>2 DEF TypeOK, Answer
<1>11. ASSUME NEW r \in Reqs, DeleteSession(r) PROVE TypeOK'
  <2>1. req[r].sid \in Sids
    BY <1>0, <1>11 DEF DeleteSession, AskInv, Knows
  <2>2. rows' \in [Sids -> Row] /\ closed' \subseteq Tokens
    BY <1>0, <1>1, <1>11, <2>1 DEF TypeOK, DeleteSession, WithoutSession, Deleting, Ended
  <2> QED
    BY <1>0, <1>1, <1>11, <2>2 DEF TypeOK, DeleteSession
<1>12. ASSUME NEW r \in Reqs, DeleteAll(r) PROVE TypeOK'
  <2>1. req' \in [Reqs -> Req]
    BY <1>0, <1>12, SMTT(30) DEF TypeOK, DeleteAll, Req, Pcs
  <2> QED
    BY <1>0, <1>1, <1>12, <2>1 DEF TypeOK, DeleteAll, Deleting, Ended
<1>13. ASSUME NEW s \in Sids, DeleteOne(s) PROVE TypeOK'
  BY <1>0, <1>1, <1>13 DEF TypeOK, DeleteOne, Ended
<1>14. CASE CleanExpired
  BY <1>0, <1>1, <1>14 DEF TypeOK, CleanExpired, Deleting, Ended
<1>15. ASSUME NEW r \in Reqs, Die(r) PROVE TypeOK'
  BY <1>1, <1>2, <1>15 DEF Die
<1>16. CASE Tick
  BY <1>0, <1>16, SessionAssumption DEF TypeOK, Tick
<1>17. CASE UNCHANGED vars
  BY <1>0, <1>17 DEF TypeOK, vars
<1> QED
  BY <1>b, <1>c, <1>d, <1>e, <1>3, <1>4, <1>5, <1>6, <1>7, <1>8, <1>9, <1>10, <1>11, <1>12,
     <1>13, <1>14, <1>15, <1>16, <1>17 DEF Next

-----------------------------------------------------------------------------
(* The steps *)

(* A request that moves on, writes nothing and has signed nothing.         *)
LEMMA MoveStep ==
  ASSUME IInv, NEW r \in Reqs, NEW q \in Req,
         req' = [req EXCEPT ![r] = q],
         UNCHANGED <<now, rows, signed, sidOf, expOf, held, heir, closed, told>>,
         TypeOK',
         q.pc \notin {"swap", "create"}, q.tok <= signed, q.new <= signed,
         \A p \in Reqs : Pending(p) /\ p # r =>
           q.tok # req[p].new /\ (q.pc = "answer" => q.new # req[p].new),
         q.pc \in {"current", "previous", "revoke", "hook"} => q.tok # 0,
         q.pc \in {"revoke", "hook"} => q.sid \in Sids,
         q.pc \in {"expired", "winner"} => q.op \in {"ticket", "winner"},
         q.op \in {"ticket", "winner"} => q.sid \in Tickets /\ q.tok = 0,
         q.pc = "answer" => q.new # 0 /\ (q.tok # 0 => heir[q.tok].to = q.new) /\ ~q.late,
         q.late => q.tok # 0 /\ GivenUp(q.tok)
  PROVE  IInv'
<1>1. req'[r] = q /\ \A p \in Reqs : p # r => req'[p] = req[p]
  BY DEF IInv, TypeOK
<1>2. \A p \in Reqs : Pending(p)' => Pending(p) /\ p # r
  BY <1>1 DEF Pending
<1>3. SignedInv'
  BY <1>1 DEF IInv, SignedInv
<1>4. RowsInv' /\ ToldInv'
  BY DEF IInv, RowsInv, ToldInv
<1>5. FreshInv'
  <2> SUFFICES ASSUME NEW p \in Reqs, Pending(p)' PROVE Fresh(p)'
    BY DEF FreshInv
  <2>1. Pending(p) /\ p # r /\ req'[p] = req[p] /\ Fresh(p)
    BY <1>1, <1>2 DEF IInv, FreshInv
  <2>2. \A o \in Reqs : /\ req'[o].tok # req[p].new
                        /\ req'[o].pc = "answer" => req'[o].new # req[p].new
                        /\ Pending(o)' /\ o # p => req'[o].new # req[p].new
    BY <1>1, <1>2, <2>1 DEF Fresh
  <2> QED
    BY <2>1, <2>2 DEF Fresh
<1>6. AskInv'
  <2> SUFFICES ASSUME NEW p \in Reqs PROVE Knows(p)'
    BY DEF AskInv
  <2>1. CASE p = r
    BY <1>1, <2>1 DEF Knows
  <2>2. CASE p # r
    BY <1>1, <2>2 DEF IInv, AskInv, Knows
  <2> QED
    BY <2>1, <2>2
<1>7. LateInv'
  BY <1>1 DEF IInv, LateInv, GivenUp
<1>8. ClosedInv'
  BY <1>1 DEF IInv, ClosedInv, EndedFor
<1> QED
  BY <1>3, <1>4, <1>5, <1>6, <1>7, <1>8 DEF IInv

(* A request that signs a token: for a new session, or for one whose       *)
(* current token it presented.                                             *)
LEMMA SignStep ==
  ASSUME IInv, NEW r \in Reqs, NEW q \in Req, NEW s \in Sids,
         Sign(s), req' = [req EXCEPT ![r] = q],
         UNCHANGED <<now, rows, held, heir, closed, told>>,
         TypeOK',
         q.pc \in {"swap", "create"}, q.new = signed + 1, q.sid = s, ~q.late,
         q.tok <= signed, \A p \in Reqs : Pending(p) => q.tok # req[p].new,
         q.pc = "swap" => q.tok # 0,
         q.pc = "create" => q.tok = 0 /\ (s \in Tickets \/ s \in UnusedSids),
         q.op \in {"ticket", "winner"} => s \in Tickets /\ q.tok = 0,
         s \notin Tickets => \A p \in Reqs : req[p].pc = "create" => req[p].sid # s
  PROVE  IInv'
<1> DEFINE n == signed + 1
<1>1. req'[r] = q /\ \A p \in Reqs : p # r => req'[p] = req[p]
  BY DEF IInv, TypeOK
<1>2. signed \in Nat /\ n \in Tokens /\ n # 0 /\ signed' = n
  BY SignTypes, TokenNumbers, SessionAssumption DEF IInv, TypeOK, Sign
<1>3. /\ sidOf[n] = -1 /\ heir[n].to = 0 /\ n \notin held \cup closed
      /\ \A x \in Sids : rows[x].cur # n /\ rows[x].prev # n
      /\ \A p \in Reqs : req[p].tok # n /\ req[p].new # n
  <2>1. \A x \in Sids : rows[x].cur \in 0..MaxToken /\ rows[x].prev \in 0..MaxToken
    BY DEF IInv, TypeOK, Row
  <2>2. \A p \in Reqs : req[p].tok \in 0..MaxToken /\ req[p].new \in 0..MaxToken
    BY DEF IInv, TypeOK, Req
  <2>3. n \notin closed
    BY <1>2 DEF IInv, ClosedInv, EndedFor
  <2> QED
    BY <1>2, <2>1, <2>2, <2>3, SessionAssumption DEF IInv, SignedInv
<1>4. sidOf'[n] = s /\ \A x \in Tokens : x # n => sidOf'[x] = sidOf[x]
  BY <1>2 DEF IInv, TypeOK, Sign
<1>5. SignedInv'
  <2>1. \A x \in Sids : rows[x].cur \in Nat /\ rows[x].prev \in Nat
    BY SessionAssumption DEF IInv, TypeOK, Row
  <2>2. \A p \in Reqs : req[p].tok \in Nat /\ req[p].new \in Nat
    BY SessionAssumption DEF IInv, TypeOK, Req
  <2>3. q.tok \in Nat /\ \A x \in Tokens : x \in Nat
    BY TokenNumbers, SessionAssumption DEF Req
  <2>4. held \subseteq Tokens
    BY DEF IInv, TypeOK
  <2> HIDE DEF n
  <2> QED
    BY <1>1, <1>2, <1>4, <2>1, <2>2, <2>3, <2>4 DEF IInv, SignedInv, n
<1> HIDE DEF n
<1>6. RowsInv' /\ ToldInv'
  <2>1. \A x \in Sids : /\ rows[x].cur # 0 => sidOf'[rows[x].cur] = sidOf[rows[x].cur]
                        /\ rows[x].prev # 0 => sidOf'[rows[x].prev] = sidOf[rows[x].prev]
    BY <1>3, <1>4, TokenNumbers DEF IInv, TypeOK, Row
  <2> QED
    BY <2>1 DEF IInv, RowsInv, ToldInv
<1>7. FreshInv'
  <2> SUFFICES ASSUME NEW p \in Reqs, Pending(p)' PROVE Fresh(p)'
    BY DEF FreshInv
  <2>1. CASE p = r
    <3>1. q.tok # n
      BY <1>2, TokenNumbers, SessionAssumption DEF Req, n
    <3> QED
      BY <1>1, <1>2, <1>3, <1>4, <2>1, <3>1 DEF Fresh, Pending, n
  <2>2. CASE p # r
    <3>1. Pending(p) /\ req'[p] = req[p] /\ req[p].new \in Tokens /\ req[p].new # n /\ Fresh(p)
      BY <1>1, <1>3, <2>2, TokenNumbers DEF Pending, IInv, FreshInv, Fresh, TypeOK, Req
    <3>2. sidOf'[req[p].new] = sidOf[req[p].new]
      BY <1>4, <3>1
    <3>3. \A o \in Reqs : /\ req'[o].tok # req[p].new
                          /\ req'[o].pc = "answer" => req'[o].new # req[p].new
                          /\ Pending(o)' /\ o # p => req'[o].new # req[p].new
      BY <1>1, <3>1 DEF Pending, Fresh, n
    <3> QED
      BY <3>1, <3>2, <3>3 DEF Fresh
  <2> QED
    BY <2>1, <2>2
<1>8. AskInv'
  <2> SUFFICES ASSUME NEW p \in Reqs PROVE Knows(p)'
    BY DEF AskInv
  <2>1. CASE p = r
    <3>1. q.pc = "create" /\ s \notin Tickets =>
            \A x \in Tokens : sidOf'[x] = q.sid => x = q.new
      BY <1>4 DEF UnusedSids, n
    <3> QED
      BY <1>1, <2>1, <3>1 DEF Knows
  <2>2. CASE p # r
    <3>1. req'[p] = req[p] /\ Knows(p)
      BY <1>1, <2>2 DEF IInv, AskInv
    <3>2. req[p].pc = "create" /\ req[p].sid \notin Tickets =>
            \A x \in Tokens : sidOf'[x] = req[p].sid => x = req[p].new
      BY <1>4, <3>1 DEF Knows
    <3> QED
      BY <3>1, <3>2 DEF Knows
  <2> QED
    BY <2>1, <2>2
<1>9. LateInv'
  BY <1>1 DEF IInv, LateInv, GivenUp
<1>10. ClosedInv'
  <2> SUFFICES ASSUME NEW t \in closed PROVE EndedFor(t)'
    BY DEF ClosedInv
  <2>1. EndedFor(t) /\ t \in Tokens /\ t \in Nat /\ t # n
    BY <1>3, TokenNumbers DEF IInv, TypeOK, ClosedInv
  <2>2. sidOf'[t] = sidOf[t] /\ t <= signed'
    BY <1>2, <1>4, <2>1 DEF EndedFor, n
  <2>3. q.pc = "create" /\ s \notin Tickets => s # sidOf[t]
    BY <2>1 DEF UnusedSids
  <2> QED
    BY <1>1, <2>1, <2>2, <2>3 DEF EndedFor
<1> QED
  BY <1>5, <1>6, <1>7, <1>8, <1>9, <1>10 DEF IInv

(* A token whose line a deletion ends has been written.                    *)
LEMMA EndedTokens ==
  ASSUME IInv, NEW s \in Sids, NEW t \in Ended(s)
  PROVE  /\ t \in Tokens /\ t <= signed /\ sidOf[t] = s
         /\ \A r \in Reqs : Pending(r) => t # req[r].new
         /\ s \notin Tickets => \A r \in Reqs : req[r].pc = "create" => req[r].sid # s
<1>1. t \in Tokens /\ sidOf[t] = s /\ (t = rows[s].cur \/ heir[t].to # 0)
  BY DEF Ended
<1>2. t <= signed
  <2>1. t \in Nat /\ signed \in Nat
    BY <1>1, TokenNumbers, SessionAssumption DEF IInv, TypeOK
  <2> QED
    BY <1>1, <2>1 DEF IInv, SignedInv
<1>3. \A r \in Reqs : Pending(r) => t # req[r].new
  BY <1>1 DEF IInv, FreshInv, Fresh
<1>4. ASSUME s \notin Tickets, NEW r \in Reqs, req[r].pc = "create" PROVE req[r].sid # s
  BY <1>1, <1>3, <1>4 DEF IInv, AskInv, Knows, Pending
<1> QED
  BY <1>1, <1>2, <1>3, <1>4

(* What the deletions have in common: rows go, and the lines that end are  *)
(* lines of sessions that have no row any more.                            *)
Drops ==
  /\ UNCHANGED <<now, signed, sidOf, expOf, held, heir, told>>
  /\ \A s \in Sids : rows'[s] = rows[s] \/ rows'[s] = NoRow
  /\ \A p \in Reqs : \/ req'[p] = req[p] \/ req'[p] = Idle
                     \/ req'[p] = [req[p] EXCEPT !.pc = "sign"]
  /\ closed \subseteq closed'
  /\ \A t \in closed' \ closed : \E s \in Sids : t \in Ended(s) /\ rows'[s].cur = 0
  /\ \A s \in Sids : rows[s].cur # 0 /\ rows'[s].cur = 0 => Ended(s) \subseteq closed'

(* Such a step keeps the invariant.                                        *)
LEMMA DropStep ==
  ASSUME IInv, TypeOK', Drops
  PROVE  IInv'
<1>0. /\ UNCHANGED <<now, signed, sidOf, expOf, held, heir, told>>
      /\ \A s \in Sids : rows'[s] = rows[s] \/ rows'[s] = NoRow
      /\ closed \subseteq closed'
  BY DEF Drops
<1>1. \A p \in Reqs :
        /\ req[p] \in Req
        /\ req'[p] = req[p] \/ req'[p].pc \in {"idle", "sign"}
        /\ req'[p].tok = req[p].tok \/ req'[p].tok = 0
        /\ req'[p].new = req[p].new \/ req'[p].new = 0
        /\ req'[p].late => req[p].late /\ req'[p].tok = req[p].tok
        /\ \/ req'[p].op = "none"
           \/ req'[p].op = req[p].op /\ req'[p].sid = req[p].sid /\ req'[p].tok = req[p].tok
  BY NoneOfIt DEF Drops, IInv, TypeOK, Req
<1>2. \A p \in Reqs : Pending(p)' => Pending(p) /\ req'[p] = req[p]
  BY <1>1 DEF Pending
<1>3. SignedInv'
  <2>1. signed \in Nat
    BY SessionAssumption DEF IInv, TypeOK
  <2>2. \A s \in Sids : rows'[s].cur <= signed /\ rows'[s].prev <= signed
    BY <1>0, <2>1, NoneOfIt DEF IInv, SignedInv
  <2>3. \A p \in Reqs : req'[p].tok <= signed /\ req'[p].new <= signed
    BY <1>1, <2>1 DEF IInv, SignedInv
  <2> QED
    BY <1>0, <2>2, <2>3 DEF IInv, SignedInv
<1>4. RowsInv' /\ ToldInv'
  BY <1>0, NoneOfIt DEF IInv, RowsInv, ToldInv
<1>5. ASSUME NEW t \in closed', t \notin closed
      PROVE  \E s \in Sids : t \in Ended(s) /\ rows'[s].cur = 0
  BY <1>5 DEF Drops
<1>6. FreshInv'
  <2> SUFFICES ASSUME NEW p \in Reqs, Pending(p)' PROVE Fresh(p)'
    BY DEF FreshInv
  <2>1. Pending(p) /\ req'[p] = req[p] /\ Fresh(p)
    BY <1>2 DEF IInv, FreshInv
  <2>2. \A x \in Sids : rows'[x].cur # req[p].new /\ rows'[x].prev # req[p].new
    BY <1>0, <2>1, NoneOfIt DEF Fresh
  <2>3. \A o \in Reqs : /\ req'[o].tok # req[p].new
                        /\ req'[o].pc = "answer" => req'[o].new # req[p].new
                        /\ Pending(o)' /\ o # p => req'[o].new # req[p].new
    BY <1>1, <1>2, <2>1 DEF Fresh
  <2>4. req[p].new \notin closed'
    BY <1>5, <2>1, EndedTokens DEF Fresh
  <2> QED
    BY <1>0, <2>1, <2>2, <2>3, <2>4 DEF Fresh
<1>7. AskInv'
  <2> SUFFICES ASSUME NEW p \in Reqs PROVE Knows(p)'
    BY DEF AskInv
  <2>1. Knows(p)
    BY DEF IInv, AskInv
  <2> QED
    BY <1>0, <1>1, <2>1 DEF Knows
<1>8. LateInv'
  BY <1>0, <1>1 DEF IInv, LateInv, GivenUp
<1>9. ClosedInv'
  <2> SUFFICES ASSUME NEW t \in closed' PROVE EndedFor(t)'
    BY DEF ClosedInv
  <2>1. \A p \in Reqs : req'[p].pc = "create" => req[p].pc = "create" /\ req'[p] = req[p]
    BY <1>1
  <2>2. CASE t \in closed
    <3>1. EndedFor(t) /\ t # 0
      BY <2>2, TokenNumbers DEF IInv, TypeOK, ClosedInv
    <3> QED
      BY <1>0, <2>1, <3>1, NoneOfIt DEF EndedFor
  <2>3. CASE t \notin closed
    <3>1. PICK s \in Sids : t \in Ended(s) /\ rows'[s].cur = 0
      BY <1>5, <2>3
    <3>2. /\ t \in Tokens /\ t # 0 /\ t <= signed /\ sidOf[t] = s
          /\ s \notin Tickets => \A p \in Reqs : req[p].pc = "create" => req[p].sid # s
      BY <3>1, EndedTokens, TokenNumbers
    <3>3. ASSUME NEW x \in Sids PROVE rows'[x].cur # t /\ rows'[x].prev # t
      <4>1. CASE x = s
        BY <1>4, <3>1, <3>2, <4>1 DEF RowsInv
      <4>2. CASE x # s
        BY <1>0, <1>4, <3>2, <4>2 DEF RowsInv
      <4> QED
        BY <4>1, <4>2
    <3> QED
      BY <1>0, <2>1, <3>1, <3>2, <3>3 DEF EndedFor
  <2> QED
    BY <2>2, <2>3
<1> QED
  BY <1>3, <1>4, <1>6, <1>7, <1>8, <1>9 DEF IInv

(* The batch that inserts a session and prunes others.                     *)
LEMMA CreateStep ==
  ASSUME IInv, TypeOK', NEW r \in Reqs, Create(r)
  PROVE  /\ IInv'
         /\ rows'[req[r].sid].cur = req[r].new
         /\ \A x \in Sids \ {req[r].sid} : rows'[x] = rows[x] \/ rows'[x] = NoRow
<1> DEFINE q   == req[r]
           row == [NoRow EXCEPT !.cur = q.new, !.expiresAt = expOf[q.new], !.createdAt = q.at]
<1>1. /\ q \in Req /\ q.pc = "create" /\ q.new \in Tokens /\ q.sid \in Sids /\ q.at \in Nat
      /\ Pending(r) /\ q.tok = 0 /\ ~q.late
  BY TokenNumbers DEF IInv, TypeOK, Create, FreshInv, Fresh, AskInv, Knows, LateInv, Pending, Req
<1>2. row \in Row /\ row.cur = q.new /\ row.prev = 0
  BY <1>1, TokenNumbers DEF IInv, TypeOK, Row, NoRow
<1>3. rows' = WithSession(q.sid, row, q.at)
  BY DEF Create
<1> HIDE DEF row
<1>4. rows'[q.sid] = row /\ \A x \in Sids \ {q.sid} : rows'[x] = rows[x] \/ rows'[x] = NoRow
  BY <1>1, <1>2, <1>3, WithSessionShape DEF IInv
<1>5. /\ req'[r] \in {Answering(q, q.new), Winner(q)}
      /\ \A p \in Reqs : p # r => req'[p] = req[p]
      /\ closed' = Deleting(rows')
      /\ UNCHANGED <<now, signed, sidOf, expOf, held, heir, told>>
  BY DEF IInv, TypeOK, Create
<1>6. /\ req'[r].pc \in {"answer", "winner", "idle"} /\ req'[r].tok = 0 /\ ~req'[r].late
      /\ req'[r].new \in {0, q.new} /\ (req'[r].pc = "answer" => req'[r].new = q.new)
      /\ req'[r].pc = "winner" => req'[r].op = "winner"
      /\ req'[r].op \in {"ticket", "winner"} => q.op = "ticket" /\ req'[r].sid = q.sid
  <2>1. q.new \in 0..MaxToken
    BY <1>1, TokenNumbers
  <2>2. CASE req'[r] = Answering(q, q.new)
    BY <1>1, <2>1, <2>2, AnsweringShape
  <2>3. CASE req'[r] = Winner(q)
    <3>1. \/ Winner(q) = Idle
          \/ /\ Winner(q).op = "winner" /\ Winner(q).pc = "winner" /\ Winner(q).new = 0
             /\ Winner(q).tok = q.tok /\ Winner(q).sid = q.sid /\ Winner(q).late = q.late
             /\ q.op = "ticket"
      BY <1>1, ReuseShapes
    <3> QED
      BY <1>1, <2>3, <3>1, NoneOfIt
  <2> QED
    BY <1>5, <2>2, <2>3
<1> HIDE DEF q
<1>7. /\ q.new # 0 /\ heir[q.new].to = 0 /\ sidOf[q.new] = q.sid
      /\ q.new <= signed /\ 0 <= signed /\ q.new \notin closed
      /\ \A p \in Reqs : Pending(p) /\ p # r => req[p].new # q.new
  BY <1>1, SessionAssumption DEF IInv, FreshInv, Fresh, SignedInv, TypeOK, q
<1>8. NoRow.cur = 0 /\ NoRow.prev = 0
  BY NoneOfIt
<1>9. signed \in Nat
  BY SessionAssumption DEF IInv, TypeOK
<1>a. ASSUME NEW t \in closed', t \notin closed
      PROVE  \E s \in Sids : t \in Ended(s) /\ (rows'[s].cur = 0 \/ s = q.sid)
  <2>1. PICK s \in Sids : t \in Ended(s) /\ rows'[s].cur # rows[s].cur
    BY <1>5, <1>a DEF Deleting, Live
  <2> QED
    BY <1>4, <1>8, <2>1
<1>10. SignedInv'
  <2>1. \A s \in Sids : rows'[s].cur <= signed /\ rows'[s].prev <= signed
    BY <1>1, <1>2, <1>4, <1>7, <1>8, <1>9 DEF IInv, SignedInv
  <2>2. \A p \in Reqs : req'[p].tok <= signed /\ req'[p].new <= signed
    BY <1>5, <1>6, <1>7 DEF IInv, SignedInv
  <2> QED
    BY <1>5, <2>1, <2>2 DEF IInv, SignedInv
<1>11. RowsInv' /\ ToldInv'
  BY <1>2, <1>4, <1>5, <1>7, <1>8 DEF IInv, RowsInv, ToldInv
<1>12. FreshInv'
  <2> SUFFICES ASSUME NEW p \in Reqs, Pending(p)' PROVE Fresh(p)'
    BY DEF FreshInv
  <2>1. Pending(p) /\ p # r /\ req'[p] = req[p] /\ req[p].new # q.new /\ Fresh(p)
    BY <1>5, <1>6, <1>7 DEF Pending, IInv, FreshInv
  <2>2. \A x \in Sids : rows'[x].cur # req[p].new /\ rows'[x].prev # req[p].new
    BY <1>2, <1>4, <1>8, <2>1 DEF Fresh
  <2>3. \A o \in Reqs : /\ req'[o].tok # req[p].new
                        /\ req'[o].pc = "answer" => req'[o].new # req[p].new
                        /\ Pending(o)' /\ o # p => req'[o].new # req[p].new
    <3>1. ASSUME NEW o \in Reqs, o # r
          PROVE  req'[o] = req[o] /\ (Pending(o)' => Pending(o))
      BY <1>5, <3>1 DEF Pending
    <3>2. /\ req'[r].tok # req[p].new
          /\ req'[r].pc = "answer" => req'[r].new # req[p].new
          /\ ~Pending(r)'
      BY <1>6, <2>1 DEF Fresh, Pending
    <3> QED
      BY <2>1, <3>1, <3>2 DEF Fresh
  <2>4. req[p].new \notin closed'
    BY <1>a, <2>1, EndedTokens DEF Fresh
  <2> QED
    BY <1>5, <2>1, <2>2, <2>3, <2>4 DEF Fresh
<1>13. AskInv'
  <2> SUFFICES ASSUME NEW p \in Reqs PROVE Knows(p)'
    BY DEF AskInv
  <2>1. Knows(p)
    BY DEF IInv, AskInv
  <2>2. CASE p = r
    BY <1>6, <1>7, <2>1, <2>2 DEF Knows, q
  <2>3. CASE p # r
    BY <1>5, <2>1, <2>3 DEF Knows
  <2> QED
    BY <2>2, <2>3
<1>14. LateInv'
  <2>1. closed \subseteq closed'
    BY <1>5 DEF Deleting
  <2> QED
    BY <1>5, <1>6, <2>1 DEF IInv, LateInv, GivenUp
<1>15. ClosedInv'
  <2> SUFFICES ASSUME NEW t \in closed' PROVE EndedFor(t)'
    BY DEF ClosedInv
  <2>1. ASSUME NEW p \in Reqs, req'[p].pc = "create"
        PROVE  req[p].pc = "create" /\ req'[p] = req[p]
    BY <1>5, <1>6, <2>1
  <2>2. t # 0
    BY TokenNumbers DEF TypeOK
  <2>3. CASE t \in closed
    <3>1. EndedFor(t) /\ t # q.new
      BY <1>7, <2>3 DEF IInv, ClosedInv
    <3>2. \A x \in Sids : rows'[x].cur # t /\ rows'[x].prev # t
      BY <1>2, <1>4, <1>8, <2>2, <3>1 DEF EndedFor
    <3>3. sidOf[t] \notin Tickets => sidOf[t] # q.sid
      BY <1>1, <3>1 DEF EndedFor, q
    <3> QED
      BY <1>4, <1>5, <1>8, <2>1, <3>1, <3>2, <3>3 DEF EndedFor
  <2>4. CASE t \notin closed
    <3>1. PICK s \in Sids : t \in Ended(s) /\ (rows'[s].cur = 0 \/ s = q.sid)
      BY <1>a, <2>4
    <3>2. PICK y \in Sids : y = s /\ t \in Ended(s) /\ rows'[s].cur # rows[s].cur
      <4>1. PICK y \in Sids : t \in Ended(y) /\ rows'[y].cur # rows[y].cur
        BY <1>5, <2>4 DEF Deleting, Live
      <4>2. y = s
        BY <3>1, <4>1 DEF Ended
      <4> QED
        BY <4>1, <4>2
    <3>3. /\ t \in Tokens /\ t <= signed /\ sidOf[t] = s /\ t # q.new
          /\ s \notin Tickets => \A p \in Reqs : req[p].pc = "create" => req[p].sid # s
      BY <1>1, <3>1, EndedTokens DEF q
    <3>4. ASSUME NEW x \in Sids PROVE rows'[x].cur # t /\ rows'[x].prev # t
      <4>1. CASE x = s
        BY <1>2, <1>4, <1>8, <2>2, <3>2, <3>3, <4>1
      <4>2. CASE x # s
        BY <1>2, <1>4, <1>11, <2>2, <3>3, <1>5, <4>2 DEF RowsInv
      <4> QED
        BY <4>1, <4>2
    <3>5. s \notin Tickets => s # q.sid
      BY <1>1, <3>3 DEF q
    <3> QED
      BY <1>5, <2>1, <3>1, <3>3, <3>4, <3>5 DEF EndedFor
  <2> QED
    BY <2>3, <2>4
<1> QED
  BY <1>2, <1>4, <1>10, <1>11, <1>12, <1>13, <1>14, <1>15 DEF IInv, q

(* The swap: the row moves on to a token that nobody else knows.           *)
LEMMA SwapWinsStep ==
  ASSUME IInv, TypeOK', NEW r \in Reqs, SwapWins(r)
  PROVE  IInv'
<1> DEFINE s == req[r].sid
           t == req[r].tok
           n == req[r].new
<1>1. /\ s \in Sids /\ t \in Tokens /\ n \in Tokens /\ t # n /\ t # 0 /\ n # 0
      /\ Pending(r) /\ ~req[r].late
  BY TokenNumbers DEF IInv, TypeOK, SwapWins, FreshInv, Fresh, AskInv, Knows,
                       LateInv, Pending, Req
<1>2. rows[s].cur = t /\ heir[t].to = 0 /\ sidOf[t] = s /\ t \notin closed
  BY <1>1 DEF SwapWins, StillCurrent, IInv, RowsInv, ClosedInv, EndedFor
<1>3. /\ heir[n].to = 0 /\ sidOf[n] = s /\ n \notin held \cup closed /\ n <= signed /\ t <= signed
      /\ \A x \in Sids : rows[x].cur # n /\ rows[x].prev # n
      /\ \A p \in Reqs : /\ req[p].tok # n
                         /\ req[p].pc = "answer" => req[p].new # n
                         /\ Pending(p) /\ p # r => req[p].new # n
  BY <1>1 DEF IInv, FreshInv, Fresh, SignedInv
<1>4. /\ rows'[s].cur = n /\ rows'[s].prev = t /\ rows'[s].rotatedAt = now
      /\ \A x \in Sids : x # s => rows'[x] = rows[x]
  BY <1>1 DEF SwapWins, Rotated, IInv, TypeOK, Row
<1>5. /\ heir'[t].to = n /\ heir'[t].at = now
      /\ \A x \in Tokens : x # t => heir'[x] = heir[x]
  BY <1>1 DEF SwapWins, IInv, TypeOK
<1>6. /\ req'[r].pc = "answer" /\ req'[r].tok = t /\ req'[r].new = n /\ ~req'[r].late
      /\ req'[r].op = "none"
      /\ \A p \in Reqs : p # r => req'[p] = req[p]
  <2>1. req[r] \in Req /\ n \in 0..MaxToken /\ req' = [req EXCEPT ![r] = Answering(req[r], n)]
    BY <1>1, TokenNumbers DEF SwapWins, IInv, TypeOK
  <2>2. req'[r] = Answering(req[r], n) /\ \A p \in Reqs : p # r => req'[p] = req[p]
    BY <2>1 DEF IInv, TypeOK
  <2>3. LET a == Answering(req[r], n)
        IN  a.pc = "answer" /\ a.op = "none" /\ a.tok = t /\ a.new = n /\ a.late = req[r].late
    <3> HIDE DEF n
    <3> QED
      BY <2>1, AnsweringShape
  <2> QED
    BY <1>1, <2>2, <2>3
<1>7. /\ now' = now /\ signed' = signed /\ sidOf' = sidOf /\ held' = held
      /\ closed' = closed /\ told' = told
  BY DEF SwapWins
<1> HIDE DEF s, t, n
<1>8. \A x \in Sids : x # s => rows[x].cur # t /\ rows[x].prev # t
  BY <1>1, <1>2 DEF IInv, RowsInv
<1>9. SignedInv'
  <2>1. \A x \in Sids : rows'[x].cur <= signed /\ rows'[x].prev <= signed
    BY <1>3, <1>4 DEF IInv, SignedInv
  <2>2. \A p \in Reqs : req'[p].tok <= signed /\ req'[p].new <= signed
    BY <1>3, <1>6 DEF IInv, SignedInv
  <2>3. \A x \in Tokens : x > signed => sidOf[x] = -1 /\ heir'[x].to = 0
    <3>1. signed \in Nat /\ t \in Nat
      BY <1>1, TokenNumbers, SessionAssumption DEF IInv, TypeOK
    <3> SUFFICES ASSUME NEW x \in Tokens, x > signed PROVE sidOf[x] = -1 /\ heir'[x].to = 0
      OBVIOUS
    <3>2. x # t
      BY <1>3, <3>1, TokenNumbers
    <3> QED
      BY <1>5, <3>2 DEF IInv, SignedInv
  <2> QED
    BY <1>7, <2>1, <2>2, <2>3 DEF IInv, SignedInv
<1>10. RowsInv'
  <2> SUFFICES ASSUME NEW x \in Sids
               PROVE  /\ rows'[x].cur # 0 => /\ heir'[rows'[x].cur].to = 0
                                             /\ sidOf'[rows'[x].cur] = x
                      /\ rows'[x].prev # 0 => /\ rows'[x].cur # 0
                                              /\ heir'[rows'[x].prev].to = rows'[x].cur
                                              /\ heir'[rows'[x].prev].at = rows'[x].rotatedAt
                                              /\ sidOf'[rows'[x].prev] = x
    BY DEF RowsInv
  <2>1. CASE x = s
    BY <1>1, <1>2, <1>3, <1>4, <1>5, <1>7, <2>1
  <2>2. CASE x # s
    <3>1. /\ rows[x].cur # 0 => rows[x].cur \in Tokens
          /\ rows[x].prev # 0 => rows[x].prev \in Tokens
      BY TokenNumbers DEF IInv, TypeOK, Row
    <3>2. /\ rows[x].cur # 0 => heir'[rows[x].cur] = heir[rows[x].cur]
          /\ rows[x].prev # 0 => heir'[rows[x].prev] = heir[rows[x].prev]
      BY <1>5, <1>8, <2>2, <3>1
    <3> QED
      BY <1>4, <1>7, <2>2, <3>2 DEF IInv, RowsInv
  <2> QED
    BY <2>1, <2>2
<1>11. FreshInv'
  <2> SUFFICES ASSUME NEW p \in Reqs, Pending(p)' PROVE Fresh(p)'
    BY DEF FreshInv
  <2>1. Pending(p) /\ p # r /\ req'[p] = req[p] /\ req[p].new # n
    BY <1>3, <1>6 DEF Pending
  <2>a. Fresh(p)
    BY <2>1 DEF IInv, FreshInv
  <2>2. req[p].new \in Tokens /\ req[p].new # t
    BY <2>1, TokenNumbers DEF IInv, TypeOK, FreshInv, Fresh, Req, t
  <2>3. heir'[req[p].new].to = 0
    BY <1>5, <2>1, <2>2 DEF IInv, FreshInv, Fresh
  <2>4. \A x \in Sids : rows'[x].cur # req[p].new /\ rows'[x].prev # req[p].new
    BY <1>4, <2>1, <2>2 DEF IInv, FreshInv, Fresh
  <2>5. ASSUME NEW o \in Reqs
        PROVE  /\ req'[o].tok # req[p].new
               /\ req'[o].pc = "answer" => req'[o].new # req[p].new
               /\ Pending(o)' /\ o # p => req'[o].new # req[p].new
    <3>1. CASE o = r
      BY <1>6, <2>1, <2>2, <3>1
    <3>2. CASE o # r
      <4>1. req'[o] = req[o] /\ (Pending(o)' => Pending(o))
        BY <1>6, <3>2 DEF Pending
      <4> QED
        BY <2>1, <4>1 DEF IInv, FreshInv, Fresh
    <3> QED
      BY <3>1, <3>2
  <2> QED
    BY <1>7, <2>1, <2>a, <2>3, <2>4, <2>5 DEF Fresh
<1>12. AskInv'
  <2> SUFFICES ASSUME NEW o \in Reqs PROVE Knows(o)'
    BY DEF AskInv
  <2>1. CASE o = r
    BY <1>1, <1>5, <1>6, <2>1 DEF Knows
  <2>2. CASE o # r
    <3>1. req'[o] = req[o] /\ Knows(o)
      BY <1>6, <2>2 DEF IInv, AskInv
    <3>2. req[o].pc = "answer" /\ req[o].tok # 0 => heir'[req[o].tok].to = req[o].new
      <4>1. req[o].tok # 0 => req[o].tok \in Tokens
        BY TokenNumbers DEF IInv, TypeOK, Req
      <4>2. req[o].pc = "answer" => req[o].tok # t
        BY <1>1, <1>2, <3>1 DEF Knows
      <4> QED
        BY <1>5, <3>1, <4>1, <4>2 DEF Knows
    <3> QED
      BY <1>7, <3>1, <3>2 DEF Knows
  <2> QED
    BY <2>1, <2>2
<1>13. LateInv'
  <2> SUFFICES ASSUME NEW o \in Reqs, o # r, req'[o] = req[o], req[o].late
               PROVE  GivenUp(req[o].tok)'
    BY <1>6 DEF IInv, LateInv
  <2>1. req[o].tok \in Tokens /\ GivenUp(req[o].tok)
    BY TokenNumbers DEF IInv, LateInv, TypeOK, Req
  <2>2. req[o].tok # t
    BY <1>2, <2>1 DEF GivenUp
  <2> QED
    BY <1>5, <1>7, <2>1, <2>2 DEF GivenUp
<1>14. ClosedInv'
  <2> SUFFICES ASSUME NEW x \in closed PROVE EndedFor(x)'
    BY <1>7 DEF ClosedInv
  <2>1. EndedFor(x) /\ x # n /\ x # t
    BY <1>2, <1>3 DEF IInv, ClosedInv
  <2>2. \A y \in Sids : rows'[y].cur # x /\ rows'[y].prev # x
    BY <1>4, <2>1 DEF EndedFor
  <2>3. sidOf[x] \notin Tickets => sidOf[x] # s
    BY <1>1, <1>2, <2>1 DEF EndedFor
  <2>4. \A p \in Reqs : req'[p].pc = "create" => req'[p] = req[p]
    BY <1>6
  <2> QED
    BY <1>4, <1>7, <2>1, <2>2, <2>3, <2>4 DEF EndedFor
<1>15. ToldInv'
  <2> SUFFICES ASSUME NEW a \in told PROVE a[2] # 0 /\ a[2] = heir'[a[1]].to
    BY <1>7 DEF ToldInv
  <2>1. a[1] \in Tokens /\ a[2] # 0 /\ a[2] = heir[a[1]].to
    BY DEF IInv, TypeOK, ToldInv
  <2>2. a[1] # t
    BY <1>2, <2>1
  <2> QED
    BY <1>5, <2>1, <2>2
<1> QED
  BY <1>9, <1>10, <1>11, <1>12, <1>13, <1>14, <1>15 DEF IInv

(* The answer: the token reaches its client.                               *)
LEMMA AnswerStep ==
  ASSUME IInv, TypeOK', NEW r \in Reqs, Answer(r)
  PROVE  IInv'
<1>1. /\ req'[r] = Idle /\ \A p \in Reqs : p # r => req'[p] = req[p]
      /\ now' = now /\ rows' = rows /\ signed' = signed /\ sidOf' = sidOf
      /\ heir' = heir /\ closed' = closed /\ held' = held \cup {req[r].new}
  BY DEF Answer, IInv, TypeOK
<1>2. Idle.pc = "idle" /\ Idle.tok = 0 /\ Idle.new = 0 /\ ~Idle.late
  BY DEF Idle
<1>3. \A p \in Reqs : Pending(p)' => Pending(p) /\ p # r
  BY <1>1, <1>2 DEF Pending
<1>4. req[r].pc = "answer" /\ req[r].new # 0
  BY DEF Answer, IInv, AskInv, Knows
<1>5. SignedInv'
  <2>1. signed \in Nat
    BY SessionAssumption DEF IInv, TypeOK
  <2>2. \A p \in Reqs : req'[p].tok <= signed /\ req'[p].new <= signed
    BY <1>1, <1>2, <2>1 DEF IInv, SignedInv
  <2> QED
    BY <1>1, <2>2 DEF IInv, SignedInv
<1>6. RowsInv'
  BY <1>1 DEF IInv, RowsInv
<1>7. FreshInv'
  <2> SUFFICES ASSUME NEW p \in Reqs, Pending(p)' PROVE Fresh(p)'
    BY DEF FreshInv
  <2>1. Pending(p) /\ p # r /\ req'[p] = req[p] /\ Fresh(p)
    BY <1>1, <1>3 DEF IInv, FreshInv
  <2>2. req[p].new \notin held' /\ req[p].new # 0
    BY <1>1, <1>4, <2>1 DEF IInv, FreshInv, Fresh
  <2>3. ASSUME NEW o \in Reqs
        PROVE  /\ req'[o].tok # req[p].new
               /\ req'[o].pc = "answer" => req'[o].new # req[p].new
               /\ Pending(o)' /\ o # p => req'[o].new # req[p].new
    <3>1. CASE o = r
      BY <1>1, <1>2, <2>2, <3>1
    <3>2. CASE o # r
      BY <1>1, <1>3, <2>1, <3>2 DEF Fresh
    <3> QED
      BY <3>1, <3>2
  <2> QED
    BY <1>1, <2>1, <2>2, <2>3 DEF Fresh
<1>8. AskInv' /\ LateInv' /\ ClosedInv'
  <2>1. ASSUME NEW p \in Reqs PROVE req'[p] = req[p] \/ req'[p] = Idle
    BY <1>1
  <2>2. AskInv'
    <3> SUFFICES ASSUME NEW p \in Reqs PROVE Knows(p)'
      BY DEF AskInv
    <3>1. Knows(p)
      BY DEF IInv, AskInv
    <3> QED
      BY <1>1, <2>1, <3>1, NoneOfIt DEF Knows
  <2>3. LateInv'
    BY <1>1, <1>2, <2>1 DEF IInv, LateInv, GivenUp
  <2>4. ClosedInv'
    BY <1>1, <1>2, <2>1 DEF IInv, ClosedInv, EndedFor
  <2> QED
    BY <2>2, <2>3, <2>4
<1>9. ToldInv'
  <2> SUFFICES ASSUME NEW a \in told' PROVE a[2] # 0 /\ a[2] = heir[a[1]].to
    BY <1>1 DEF ToldInv
  <2>1. CASE a \in told
    BY <2>1 DEF IInv, ToldInv
  <2>2. CASE a \notin told
    <3>1. req[r].tok # 0 /\ a = <<req[r].tok, req[r].new>>
      BY <2>2 DEF Answer
    <3> QED
      BY <1>4, <3>1 DEF IInv, AskInv, Knows
  <2> QED
    BY <2>1, <2>2
<1> QED
  BY <1>5, <1>6, <1>7, <1>8, <1>9 DEF IInv

(* Time only makes more tokens given up.                                   *)
LEMMA TickStep ==
  ASSUME IInv, TypeOK', Tick
  PROVE  IInv'
<1>1. /\ now' \in Nat /\ now' > now
      /\ rows' = rows /\ signed' = signed /\ sidOf' = sidOf /\ expOf' = expOf
      /\ req' = req /\ held' = held /\ heir' = heir /\ closed' = closed /\ told' = told
  BY SessionAssumption DEF Tick
<1>2. SignedInv' /\ RowsInv' /\ ToldInv'
  BY <1>1 DEF IInv, SignedInv, RowsInv, ToldInv
<1>3. FreshInv' /\ AskInv' /\ ClosedInv'
  BY <1>1 DEF IInv, FreshInv, Fresh, Pending, AskInv, Knows, ClosedInv, EndedFor
<1>4. LateInv'
  <2> SUFFICES ASSUME NEW r \in Reqs, req[r].late PROVE GivenUp(req[r].tok)'
    BY <1>1 DEF IInv, LateInv
  <2>1. req[r].tok \in Tokens /\ GivenUp(req[r].tok)
    BY TokenNumbers DEF IInv, LateInv, TypeOK, Req
  <2>2. now \in Nat /\ heir[req[r].tok].at \in Nat
    BY <2>1 DEF IInv, TypeOK
  <2>3. now - heir[req[r].tok].at > GracePeriod =>
          now' - heir[req[r].tok].at > GracePeriod
    BY <1>1, <2>2, SessionAssumption
  <2> QED
    BY <1>1, <2>1, <2>3 DEF GivenUp
<1> QED
  BY <1>2, <1>3, <1>4 DEF IInv

(* A request that ends without a word: the isolate or connection dies.     *)
LEMMA IdleStep ==
  ASSUME IInv, TypeOK', NEW r \in Reqs, Become(r, Idle)
  PROVE  IInv'
<1>1. /\ Idle \in Req /\ Idle.pc = "idle" /\ Idle.op = "none" /\ Idle.tok = 0
      /\ Idle.new = 0 /\ ~Idle.late
  BY NoneOfIt
<1>2. signed >= 0
  BY SessionAssumption DEF IInv, TypeOK
<1>3. \A p \in Reqs : Pending(p) => 0 # req[p].new
  BY DEF IInv, FreshInv, Fresh
<1>4. /\ req' = [req EXCEPT ![r] = Idle]
      /\ UNCHANGED <<now, rows, signed, sidOf, expOf, held, heir, closed, told>>
  BY DEF Become
<1> QED
  BY <1>1, <1>2, <1>3, <1>4, MoveStep

(* createSessionAndTokens signs the token of a session to be.              *)
LEMMA SignInStep ==
  ASSUME IInv, TypeOK', NEW r \in Reqs, SignIn(r)
  PROVE  IInv'
<1>1. PICK s \in SidsFor(req[r]) :
        /\ Sign(s)
        /\ req' = [req EXCEPT ![r] =
                     [Idle EXCEPT !.op = IF req[r].op = "ticket" THEN "ticket" ELSE "signin",
                                  !.pc = "create", !.sid = s, !.new = signed + 1, !.at = now]]
  BY DEF SignIn
<1> DEFINE q == [Idle EXCEPT !.op = IF req[r].op = "ticket" THEN "ticket" ELSE "signin",
                             !.pc = "create", !.sid = s, !.new = signed + 1, !.at = now]
<1>2. s \in Sids /\ (s \in Tickets \/ s \in UnusedSids)
  BY SidsForShape DEF IInv
<1>3. /\ q.pc = "create" /\ q.new = signed + 1 /\ q.sid = s /\ ~q.late /\ q.tok = 0
      /\ q.op \in {"ticket", "winner"} => req[r].op = "ticket"
  BY DEF Idle
<1>4. req' = [req EXCEPT ![r] = q]
  BY <1>1
<1> HIDE DEF q
<1>5. q \in Req
  <2>1. req'[r] = q
    BY <1>4 DEF IInv, TypeOK
  <2> QED
    BY <2>1 DEF TypeOK
<1>6. \A p \in Reqs : Pending(p) => q.tok # req[p].new
  BY <1>3 DEF IInv, FreshInv, Fresh
<1>7. ASSUME s \notin Tickets, NEW p \in Reqs, req[p].pc = "create" PROVE req[p].sid # s
  <2>1. req[p].new \in Tokens /\ sidOf[req[p].new] = req[p].sid
    BY <1>7, TokenNumbers DEF IInv, FreshInv, Fresh, Pending, TypeOK, Req
  <2> QED
    BY <1>2, <1>7, <2>1 DEF UnusedSids
<1>8. q.tok <= signed
  BY <1>3, SessionAssumption DEF IInv, TypeOK
<1>9. UNCHANGED <<now, rows, held, heir, closed, told>>
  BY DEF SignIn
<1>10. /\ q.pc \in {"swap", "create"} /\ (q.pc = "swap" => q.tok # 0)
       /\ (q.pc = "create" => q.tok = 0 /\ (s \in Tickets \/ s \in UnusedSids))
  BY <1>2, <1>3
<1>11. Sign(s) /\ q.new = signed + 1 /\ q.sid = s /\ ~q.late
  BY <1>1, <1>3
<1>12. q.op \in {"ticket", "winner"} => s \in Tickets /\ q.tok = 0
  BY <1>1, <1>3 DEF SidsFor, IInv, AskInv, Knows
<1>13. s \notin Tickets => \A p \in Reqs : req[p].pc = "create" => req[p].sid # s
  BY <1>7
<1> QED
  BY <1>2, <1>4, <1>5, <1>6, <1>8, <1>9, <1>10, <1>11, <1>12, <1>13, SignStep

(* reuseExistingSession: a row's token is answered, or the request goes on *)
(* with the same id.                                                       *)
LEMMA ReuseStep ==
  ASSUME IInv, TypeOK', NEW r \in Reqs, NEW q \in Req, Reuse(r, q),
         q.op \in {"ticket", "winner"}, q.sid \in Tickets,
         q.tok = 0, q.new <= signed, ~q.late
  PROVE  IInv'
<1>0. 0 <= signed /\ \A p \in Reqs : Pending(p) => 0 # req[p].new
  BY SessionAssumption DEF IInv, TypeOK, FreshInv, Fresh
<1>1. CASE Become(r, Idle)
  BY <1>1, IdleStep
<1>2. ASSUME NEW pc \in {"sign", "expired"}, Become(r, [q EXCEPT !.pc = pc])
      PROVE  IInv'
  <2> DEFINE n == [q EXCEPT !.pc = pc]
  <2>1. /\ n \in Req /\ n.pc \in {"sign", "expired"} /\ n.op \in {"ticket", "winner"}
        /\ n.tok = 0 /\ n.new = q.new /\ n.sid = q.sid /\ ~n.late
    BY DEF Req, Pcs
  <2>a. /\ n.pc \notin {"swap", "create", "current", "previous", "revoke", "hook", "answer"}
        /\ n.tok <= signed /\ n.new <= signed /\ n.sid \in Tickets
        /\ \A p \in Reqs : Pending(p) => n.tok # req[p].new
    BY <1>0, <2>1
  <2>2. /\ req' = [req EXCEPT ![r] = n]
        /\ UNCHANGED <<now, rows, signed, sidOf, expOf, held, heir, closed, told>>
    BY <1>2 DEF Become
  <2> HIDE DEF n
  <2> QED
    BY <2>1, <2>a, <2>2, MoveStep
<1>3. ASSUME rows[q.sid].cur # 0, Become(r, Answering(q, rows[q.sid].cur)) PROVE IInv'
  <2> DEFINE n == Answering(q, rows[q.sid].cur)
  <2>1. q.sid \in Sids /\ rows[q.sid].cur \in 0..MaxToken
    BY SessionAssumption DEF IInv, TypeOK, Row
  <2>2. /\ n \in Req /\ n.pc = "answer" /\ n.op = "none" /\ n.tok = 0
        /\ n.new = rows[q.sid].cur /\ ~n.late
    BY <2>1, AnsweringShape
  <2>3. /\ rows[q.sid].cur <= signed
        /\ \A p \in Reqs : Pending(p) => rows[q.sid].cur # req[p].new
    BY <2>1 DEF IInv, SignedInv, FreshInv, Fresh
  <2>a. /\ n.pc \notin {"swap", "create", "current", "previous", "revoke", "hook",
                        "expired", "winner"}
        /\ n.op \notin {"ticket", "winner"} /\ n.tok <= signed /\ n.new <= signed
        /\ n.new # 0 /\ ~(n.tok # 0)
        /\ \A p \in Reqs : Pending(p) => n.tok # req[p].new /\ n.new # req[p].new
    BY <1>0, <1>3, <2>2, <2>3
  <2>4. /\ req' = [req EXCEPT ![r] = n]
        /\ UNCHANGED <<now, rows, signed, sidOf, expOf, held, heir, closed, told>>
    BY <1>3 DEF Become
  <2> HIDE DEF n
  <2> QED
    BY <2>2, <2>a, <2>4, MoveStep
<1> QED
  BY <1>1, <1>2, <1>3, ReuseShapes DEF Reuse

(* An exchange looks for the session of its ticket, before it signs a      *)
(* token and when its insert has failed.                                   *)
LEMMA ExchangeStep ==
  ASSUME IInv, TypeOK', NEW r \in Reqs,
         ReuseWinner(r) \/ \E s \in Tickets : Exchange(r, s)
  PROVE  IInv'
<1>0. 0 <= signed
  BY SessionAssumption DEF IInv, TypeOK
<1>1. ASSUME NEW s \in Tickets, Exchange(r, s) PROVE IInv'
  <2> DEFINE q == [Idle EXCEPT !.op = "ticket", !.sid = s]
  <2>1. q \in Req
    BY SessionAssumption, TokenNumbers DEF Idle, Req, Ops, Pcs
  <2>2. q.op = "ticket" /\ q.sid = s /\ q.tok = 0 /\ q.new = 0 /\ ~q.late
    BY DEF Idle
  <2>3. Reuse(r, q)
    BY <1>1 DEF Exchange
  <2> HIDE DEF q
  <2> QED
    BY <1>0, <2>1, <2>2, <2>3, ReuseStep
<1>2. ASSUME ReuseWinner(r) PROVE IInv'
  <2>1. /\ req[r] \in Req /\ req[r].op \in {"ticket", "winner"} /\ req[r].sid \in Tickets
        /\ req[r].tok = 0 /\ req[r].new <= signed /\ ~req[r].late
    BY <1>2 DEF ReuseWinner, IInv, TypeOK, SignedInv, AskInv, Knows, LateInv
  <2>2. Reuse(r, req[r])
    BY <1>2 DEF ReuseWinner
  <2> QED
    BY <1>0, <2>1, <2>2, ReuseStep
<1> QED
  BY <1>1, <1>2

(* An insert that finds the id taken changes nothing.                      *)
LEMMA CreateFailsStep ==
  ASSUME IInv, TypeOK', NEW r \in Reqs, CreateFails(r)
  PROVE  IInv'
<1> DEFINE q == Winner(req[r])
<1>1. /\ req[r] \in Req /\ req[r].tok = 0 /\ ~req[r].late
      /\ req[r].op = "ticket" => req[r].sid \in Tickets
  BY DEF CreateFails, IInv, TypeOK, AskInv, Knows, LateInv
<1>2. CASE q = Idle
  BY <1>2, IdleStep DEF CreateFails
<1>3. CASE q # Idle
  <2>1. /\ q \in Req /\ q.op = "winner" /\ q.pc = "winner" /\ q.new = 0 /\ q.tok = 0
        /\ ~q.late /\ q.sid \in Tickets
    BY <1>1, <1>3, ReuseShapes
  <2>2. 0 <= signed /\ \A p \in Reqs : Pending(p) => 0 # req[p].new
    BY SessionAssumption DEF IInv, TypeOK, FreshInv, Fresh
  <2>3. /\ req' = [req EXCEPT ![r] = q]
        /\ UNCHANGED <<now, rows, signed, sidOf, expOf, held, heir, closed, told>>
    BY DEF CreateFails, Become
  <2> HIDE DEF q
  <2> QED
    BY <2>1, <2>2, <2>3, MoveStep
<1> QED
  BY <1>2, <1>3

(* A client presents a token it holds.                                     *)
LEMMA AskStep ==
  ASSUME IInv, TypeOK', NEW r \in Reqs, NEW op \in {"refresh", "signout"},
         NEW t \in held, Ask(r, op, t)
  PROVE  IInv'
<1> DEFINE q == [Idle EXCEPT !.op = op, !.pc = "current", !.tok = t, !.late = GivenUp(t)]
<1>1. /\ q.pc = "current" /\ q.tok = t /\ q.new = 0 /\ (q.late => GivenUp(t))
      /\ q.op \notin {"ticket", "winner"}
  BY DEF Idle
<1>2. /\ req' = [req EXCEPT ![r] = q]
      /\ UNCHANGED <<now, rows, signed, sidOf, expOf, held, heir, closed, told>>
  BY DEF Ask
<1> HIDE DEF q
<1>3. q \in Req
  <2>1. req'[r] = q
    BY <1>2 DEF IInv, TypeOK
  <2> QED
    BY <2>1 DEF TypeOK
<1>4. t # 0 /\ t <= signed /\ signed >= 0 /\ \A p \in Reqs : Pending(p) => t # req[p].new
  BY TokenNumbers, SessionAssumption DEF IInv, TypeOK, SignedInv, FreshInv, Fresh
<1> QED
  BY <1>1, <1>2, <1>3, <1>4, MoveStep

(* The first statement of the lookup: what it finds is the end of a line.  *)
LEMMA LookupCurrentStep ==
  ASSUME IInv, TypeOK', NEW r \in Reqs, LookupCurrent(r)
  PROVE  IInv'
<1> DEFINE t == req[r].tok
<1>1. /\ req[r] \in Req /\ req[r].pc = "current" /\ t # 0 /\ t \in Tokens
      /\ t <= signed /\ req[r].new <= signed
      /\ \A p \in Reqs : Pending(p) => t # req[p].new
      /\ req[r].late => GivenUp(t)
      /\ req[r].op \notin {"ticket", "winner"}
  BY TokenNumbers DEF LookupCurrent, IInv, TypeOK, SignedInv, FreshInv, Fresh, AskInv, Knows,
                       LateInv, Req
<1>2. CASE Become(r, [req[r] EXCEPT !.pc = "previous"])
  <2> DEFINE q == [req[r] EXCEPT !.pc = "previous"]
  <2>1. /\ q \in Req /\ q.pc = "previous" /\ q.tok = t /\ q.new = req[r].new
        /\ q.late = req[r].late /\ q.op = req[r].op /\ q.sid = req[r].sid
    BY <1>1 DEF Req, Pcs
  <2>2. /\ req' = [req EXCEPT ![r] = q]
        /\ UNCHANGED <<now, rows, signed, sidOf, expOf, held, heir, closed, told>>
    BY <1>2 DEF Become
  <2> HIDE DEF q, t
  <2> QED
    BY <1>1, <2>1, <2>2, MoveStep
<1>3. CASE Become(r, Idle)
  BY <1>3, IdleStep
<1>4. ASSUME NEW s \in Sids, rows[s].cur = t
      PROVE  heir[t].to = 0 /\ sidOf[t] = s /\ ~GivenUp(t)
  BY <1>1, <1>4 DEF IInv, ClosedInv, EndedFor, RowsInv, GivenUp
<1>5. ASSUME NEW s \in Sids, rows[s].cur = t, req[r].op = "signout",
             Become(r, [req[r] EXCEPT !.pc = "hook", !.sid = s])
      PROVE  IInv'
  <2> DEFINE q == [req[r] EXCEPT !.pc = "hook", !.sid = s]
  <2>1. /\ q \in Req /\ q.pc = "hook" /\ q.tok = t /\ q.new = req[r].new
        /\ q.late = req[r].late /\ q.sid = s /\ q.op = "signout"
    BY <1>1, <1>5 DEF Req, Pcs
  <2>2. /\ req' = [req EXCEPT ![r] = q]
        /\ UNCHANGED <<now, rows, signed, sidOf, expOf, held, heir, closed, told>>
    BY <1>5 DEF Become
  <2> HIDE DEF q, t
  <2> QED
    BY <1>1, <2>1, <2>2, MoveStep
<1>6. ASSUME NEW s \in Sids, rows[s].cur = t, req[r].op = "refresh", Sign(s),
             req' = [req EXCEPT ![r].pc = "swap", ![r].sid = s, ![r].new = signed + 1],
             UNCHANGED <<now, rows, held, heir, closed, told>>
      PROVE  IInv'
  <2> DEFINE q == [req[r] EXCEPT !.pc = "swap", !.sid = s, !.new = signed + 1]
  <2>1. /\ q.pc = "swap" /\ q.tok = t /\ q.new = signed + 1 /\ q.sid = s
        /\ q.late = req[r].late /\ q.op = "refresh"
    BY <1>1, <1>6 DEF Req
  <2>2. req' = [req EXCEPT ![r] = q]
    BY <1>1, <1>6 DEF IInv, TypeOK
  <2> HIDE DEF q
  <2>3. q \in Req
    <3>1. req'[r] = q
      BY <2>2 DEF IInv, TypeOK
    <3> QED
      BY <3>1 DEF TypeOK
  <2>4. ASSUME s \notin Tickets, NEW p \in Reqs, req[p].pc = "create" PROVE req[p].sid # s
    <3>1. rows[s].cur # req[p].new
      BY <2>4 DEF IInv, FreshInv, Fresh, Pending
    <3> QED
      BY <1>1, <1>4, <1>6, <2>4, <3>1 DEF IInv, AskInv, Knows
  <2>5. ~req[r].late
    BY <1>1, <1>4, <1>6
  <2>6. /\ q.pc \in {"swap", "create"} /\ (q.pc = "swap" => q.tok # 0)
        /\ (q.pc = "create" => q.tok = 0 /\ (s \in Tickets \/ s \in UnusedSids))
        /\ q.op \notin {"ticket", "winner"}
    BY <1>1, <2>1
  <2>7. /\ q.new = signed + 1 /\ q.sid = s /\ ~q.late /\ q.tok <= signed
        /\ \A p \in Reqs : Pending(p) => q.tok # req[p].new
    BY <1>1, <2>1, <2>5
  <2>8. Sign(s) /\ UNCHANGED <<now, rows, held, heir, closed, told>>
    BY <1>6
  <2>9. s \notin Tickets => \A p \in Reqs : req[p].pc = "create" => req[p].sid # s
    BY <2>4
  <2> HIDE DEF t
  <2> QED
    BY <2>2, <2>3, <2>6, <2>7, <2>8, <2>9, SignStep
<1> QED
  BY <1>2, <1>3, <1>5, <1>6 DEF LookupCurrent

(* The second statement: the token found before the current one.           *)
LEMMA LookupPreviousStep ==
  ASSUME IInv, TypeOK', NEW r \in Reqs, LookupPrevious(r)
  PROVE  IInv'
<1> DEFINE t == req[r].tok
<1>1. /\ req[r] \in Req /\ req[r].pc = "previous" /\ t # 0 /\ t \in Tokens
      /\ t <= signed /\ req[r].new <= signed
      /\ \A p \in Reqs : Pending(p) => t # req[p].new
      /\ req[r].late => GivenUp(t)
      /\ req[r].op \notin {"ticket", "winner"}
  BY TokenNumbers DEF LookupPrevious, IInv, TypeOK, SignedInv, FreshInv, Fresh, AskInv, Knows,
                       LateInv, Req
<1>2. CASE Become(r, Idle)
  BY <1>2, IdleStep
<1>3. ASSUME NEW s \in Sids, rows[s].prev = t
      PROVE  /\ rows[s].cur # 0 /\ heir[t].to = rows[s].cur /\ sidOf[t] = s
             /\ heir[t].at = rows[s].rotatedAt /\ t \notin closed
  BY <1>1, <1>3 DEF IInv, ClosedInv, EndedFor, RowsInv
<1>4. ASSUME NEW s \in Sids, rows[s].prev = t, isWithinRefreshTokenGrace(s),
             Become(r, Answering(req[r], rows[s].cur))
      PROVE  IInv'
  <2> DEFINE q == Answering(req[r], rows[s].cur)
  <2>a. rows[s].cur \in 0..MaxToken
    BY DEF IInv, TypeOK, Row
  <2>1. /\ q.pc = "answer" /\ q.tok = t /\ q.new = rows[s].cur /\ q.late = req[r].late
        /\ q.op = "none"
    BY <1>1, <2>a, AnsweringShape
  <2>2. /\ req' = [req EXCEPT ![r] = q]
        /\ UNCHANGED <<now, rows, signed, sidOf, expOf, held, heir, closed, told>>
    BY <1>4 DEF Become
  <2> HIDE DEF q
  <2>3. q \in Req
    <3>1. req'[r] = q
      BY <2>2 DEF IInv, TypeOK
    <3> QED
      BY <3>1 DEF TypeOK
  <2>4. /\ rows[s].cur <= signed
        /\ \A p \in Reqs : Pending(p) => rows[s].cur # req[p].new
    BY DEF IInv, SignedInv, FreshInv, Fresh
  <2>5. ~GivenUp(t)
    <3>1. now - heir[t].at <= GracePeriod
      BY <1>3, <1>4 DEF isWithinRefreshTokenGrace
    <3>2. now \in Nat /\ heir[t].at \in Nat
      BY <1>1 DEF IInv, TypeOK
    <3>3. ~(now - heir[t].at > GracePeriod)
      BY <3>1, <3>2, SessionAssumption
    <3> QED
      BY <1>3, <1>4, <3>3 DEF GivenUp
  <2>6. rows[s].cur # 0 /\ heir[t].to = rows[s].cur
    BY <1>3, <1>4
  <2>7. /\ q.pc \notin {"swap", "create"} /\ q.tok <= signed /\ q.new <= signed
        /\ \A p \in Reqs : Pending(p) /\ p # r =>
             q.tok # req[p].new /\ (q.pc = "answer" => q.new # req[p].new)
    BY <1>1, <2>1, <2>4
  <2>8. ~q.late /\ q.new # 0 /\ heir[q.tok].to = q.new
    BY <1>1, <2>1, <2>5, <2>6
  <2>9. /\ q.pc \notin {"current", "previous", "revoke", "hook", "expired", "winner"}
        /\ q.op \notin {"ticket", "winner"}
    BY <2>1
  <2> HIDE DEF t
  <2> QED
    BY <2>2, <2>3, <2>7, <2>8, <2>9, MoveStep
<1>5. ASSUME NEW s \in Sids, req[r].op \in {"refresh", "signout"}, NEW pc \in {"revoke", "hook"},
             Become(r, [req[r] EXCEPT !.pc = pc, !.sid = s])
      PROVE  IInv'
  <2> DEFINE q == [req[r] EXCEPT !.pc = pc, !.sid = s]
  <2>1. /\ q.pc = pc /\ q.tok = t /\ q.new = req[r].new /\ q.sid = s
        /\ q.late = req[r].late /\ q.op \in {"refresh", "signout"}
    BY <1>1, <1>5 DEF Req
  <2>2. /\ req' = [req EXCEPT ![r] = q]
        /\ UNCHANGED <<now, rows, signed, sidOf, expOf, held, heir, closed, told>>
    BY <1>5 DEF Become
  <2> HIDE DEF q
  <2>3. q \in Req
    <3>1. req'[r] = q
      BY <2>2 DEF IInv, TypeOK
    <3> QED
      BY <3>1 DEF TypeOK
  <2> HIDE DEF t
  <2> QED
    BY <1>1, <2>1, <2>2, <2>3, MoveStep
<1> QED
  BY <1>2, <1>4, <1>5 DEF LookupPrevious

(* Every action that deletes sessions is such a step.                      *)
LEMMA DeletionsDrop ==
  ASSUME IInv,
         \/ \E r \in Reqs : DeleteSession(r) \/ DeleteAll(r) \/ DeleteExpired(r)
         \/ \E s \in Sids : DeleteOne(s)
         \/ CleanExpired
  PROVE  Drops
<1>1. rows \in [Sids -> Row] /\ req \in [Reqs -> Req]
  BY DEF IInv, TypeOK
<1>2. ASSUME \A s \in Sids : rows'[s] = rows[s] \/ rows'[s] = NoRow,
             closed' = Deleting(rows')
      PROVE  /\ closed \subseteq closed'
             /\ \A t \in closed' \ closed : \E s \in Sids : t \in Ended(s) /\ rows'[s].cur = 0
             /\ \A s \in Sids : rows[s].cur # 0 /\ rows'[s].cur = 0 => Ended(s) \subseteq closed'
  BY <1>2, NoneOfIt DEF Deleting, Live
<1>3. ASSUME NEW r \in Reqs, DeleteSession(r) PROVE Drops
  <2>1. req[r].sid \in Sids
    BY <1>3 DEF DeleteSession, IInv, AskInv, Knows
  <2>2. /\ rows' = [rows EXCEPT ![req[r].sid] = NoRow]
        /\ closed' = Deleting(rows') \cup Ended(req[r].sid)
        /\ req' = [req EXCEPT ![r] = Idle]
        /\ UNCHANGED <<now, signed, sidOf, expOf, held, heir, told>>
    BY <1>3 DEF DeleteSession, WithoutSession
  <2>3. \A p \in Reqs : req'[p] = req[p] \/ req'[p] = Idle
    BY <1>1, <2>2
  <2>4. \A s \in Sids : rows'[s] = rows[s] \/ rows'[s] = NoRow
    BY <1>1, <2>2
  <2>5. \A t \in closed' \ closed : \E s \in Sids : t \in Ended(s) /\ rows'[s].cur = 0
    BY <1>1, <2>1, <2>2, <2>4, NoneOfIt DEF Deleting, Live
  <2>6. /\ closed \subseteq closed'
        /\ \A s \in Sids : rows[s].cur # 0 /\ rows'[s].cur = 0 => Ended(s) \subseteq closed'
    BY <2>2 DEF Deleting, Live
  <2> QED
    BY <2>2, <2>3, <2>4, <2>5, <2>6 DEF Drops
<1>4. ASSUME NEW r \in Reqs, DeleteAll(r) PROVE Drops
  <2>1. PICK pc \in {"idle", "sign"} : req' = [req EXCEPT ![r].pc = pc]
    BY <1>4 DEF DeleteAll
  <2>2. \A p \in Reqs : p # r => req'[p] = req[p]
    BY <1>1, <2>1
  <2>3. req'[r] = [req[r] EXCEPT !.pc = pc]
    BY <1>1, <2>1
  <2>4. req[r] = [req[r] EXCEPT !.pc = "idle"]
    BY <1>1, <1>4 DEF DeleteAll, Req
  <2>5. \A p \in Reqs : req'[p] = req[p] \/ req'[p] = [req[p] EXCEPT !.pc = "sign"]
    BY <2>2, <2>3, <2>4
  <2>6. \A s \in Sids : rows'[s] = NoRow
    BY <1>4 DEF DeleteAll
  <2>7. closed' = Deleting(rows') /\ UNCHANGED <<now, signed, sidOf, expOf, held, heir, told>>
    BY <1>4 DEF DeleteAll
  <2> QED
    BY <1>2, <2>5, <2>6, <2>7 DEF Drops
<1>5. ASSUME NEW r \in Reqs, DeleteExpired(r) PROVE Drops
  <2>1. /\ rows' = [rows EXCEPT ![req[r].sid] = NoRow]
        /\ closed' = Deleting(rows')
        /\ req' = [req EXCEPT ![r] = NotReused(req[r])]
        /\ UNCHANGED <<now, signed, sidOf, expOf, held, heir, told>>
    BY <1>5 DEF DeleteExpired, WithoutSession
  <2>2. \A p \in Reqs : \/ req'[p] = req[p] \/ req'[p] = Idle
                        \/ req'[p] = [req[p] EXCEPT !.pc = "sign"]
    BY <1>1, <2>1, ReuseShapes
  <2>3. \A s \in Sids : rows'[s] = rows[s] \/ rows'[s] = NoRow
    BY <1>1, <2>1
  <2> QED
    BY <1>2, <2>1, <2>2, <2>3 DEF Drops
<1>6. ASSUME NEW x \in Sids, DeleteOne(x) PROVE Drops
  <2>1. /\ rows' = [rows EXCEPT ![x] = NoRow] /\ closed' = closed \cup Ended(x) /\ req' = req
        /\ UNCHANGED <<now, signed, sidOf, expOf, held, heir, told>>
    BY <1>6 DEF DeleteOne
  <2>2. \A s \in Sids : rows'[s] = (IF s = x THEN NoRow ELSE rows[s])
    BY <1>1, <2>1
  <2> QED
    BY <2>1, <2>2, NoneOfIt DEF Drops
<1>7. CASE CleanExpired
  <2>1. \A s \in Sids : rows'[s] = rows[s] \/ rows'[s] = NoRow
    BY <1>7 DEF CleanExpired
  <2>2. /\ closed' = Deleting(rows') /\ req' = req
        /\ UNCHANGED <<now, signed, sidOf, expOf, held, heir, told>>
    BY <1>7 DEF CleanExpired
  <2> QED
    BY <1>2, <2>1, <2>2 DEF Drops
<1> QED
  BY <1>3, <1>4, <1>5, <1>6, <1>7

-----------------------------------------------------------------------------
(* The invariant *)

(* IInv is inductive.                                                      *)
LEMMA Inductive == IInv /\ [Next]_vars => IInv'
<1> SUFFICES ASSUME IInv, [Next]_vars PROVE IInv'
  OBVIOUS
<1>0. TypeOK'
  BY TypeStep
<1>1. ASSUME NEW r \in Reqs, SwapLoses(r) PROVE IInv'
  <2> DEFINE q == LookAgain(req[r])
  <2>1. /\ req[r] \in Req /\ req[r].tok # 0 /\ req[r].tok <= signed /\ ~req[r].late
        /\ \A p \in Reqs : Pending(p) => req[r].tok # req[p].new
    BY <1>1 DEF SwapLoses, IInv, TypeOK, SignedInv, FreshInv, Fresh, AskInv, Knows, LateInv
  <2>a. 0 \in 0..MaxToken
    BY TokenNumbers
  <2>2. /\ q.pc = "current" /\ q.op = "lost" /\ q.tok = req[r].tok /\ q.new = 0 /\ ~q.late
        /\ q \in Req
    BY <2>1, <2>a DEF LookAgain, Req, Ops, Pcs
  <2>3. /\ req' = [req EXCEPT ![r] = q]
        /\ UNCHANGED <<now, rows, signed, sidOf, expOf, held, heir, closed, told>>
    BY <1>1 DEF SwapLoses, Become
  <2>4. 0 <= signed
    BY SessionAssumption DEF IInv, TypeOK
  <2> HIDE DEF q
  <2>5. /\ q.pc \notin {"swap", "create", "revoke", "hook", "expired", "winner", "answer"}
        /\ q.op \notin {"ticket", "winner"} /\ q.tok # 0 /\ ~q.late
        /\ q.tok <= signed /\ q.new <= signed
        /\ \A p \in Reqs : Pending(p) => q.tok # req[p].new
    BY <2>1, <2>2, <2>4
  <2> QED
    BY <1>0, <2>2, <2>3, <2>5, MoveStep
<1>2. ASSUME NEW r \in Reqs, Die(r) PROVE IInv'
  BY <1>0, <1>2, IdleStep DEF Die
<1>3. CASE UNCHANGED vars
  <2>1. /\ now' = now /\ rows' = rows /\ signed' = signed /\ sidOf' = sidOf
        /\ expOf' = expOf /\ req' = req /\ held' = held /\ heir' = heir
        /\ closed' = closed /\ told' = told
    BY <1>3 DEF vars
  <2>2. SignedInv' /\ RowsInv' /\ ToldInv'
    BY <2>1 DEF IInv, SignedInv, RowsInv, ToldInv
  <2>3. FreshInv' /\ LateInv' /\ AskInv' /\ ClosedInv'
    BY <2>1 DEF IInv, FreshInv, Fresh, Pending, LateInv, GivenUp, AskInv, Knows,
                ClosedInv, EndedFor
  <2> QED
    BY <1>0, <2>2, <2>3 DEF IInv
<1>4. ASSUME NEW r \in Reqs,
             \/ ReuseWinner(r) \/ \E s \in Tickets : Exchange(r, s)
             \/ SignIn(r) \/ Create(r) \/ CreateFails(r)
             \/ LookupCurrent(r) \/ LookupPrevious(r) \/ SwapWins(r) \/ Answer(r)
      PROVE  IInv'
  BY <1>0, <1>4, ExchangeStep, SignInStep, CreateStep, CreateFailsStep, LookupCurrentStep,
     LookupPreviousStep, SwapWinsStep, AnswerStep
<1>5. ASSUME NEW r \in Reqs, NEW t \in held, Ask(r, "refresh", t) \/ Ask(r, "signout", t)
      PROVE  IInv'
  BY <1>0, <1>5, AskStep
<1>6. CASE Drops
  BY <1>0, <1>6, DropStep
<1>7. CASE Tick
  BY <1>0, <1>7, TickStep
<1> QED
  BY <1>1, <1>2, <1>3, <1>4, <1>5, <1>6, <1>7, DeletionsDrop DEF Next

(* It holds in every state the server can reach.                           *)
LEMMA Invariance == Spec => []IInv
<1>1. Init => IInv
  BY InitHolds
<1>2. IInv /\ [Next]_vars => IInv'
  BY Inductive
<1> QED
  BY <1>1, <1>2, PTL DEF Spec

-----------------------------------------------------------------------------
(* The theorems *)

(* The state keeps its types: what _sessions, the requests and the         *)
(* histories range over.                                                   *)
THEOREM TypesAreRight == Spec => []TypeOK
<1>1. IInv => TypeOK
  BY DEF IInv
<1> QED
  BY <1>1, Invariance, PTL

(* Retries of one token converge: every answer it ever gets is its one     *)
(* replacement, however compareAndSwapUserSession and the lookups of any   *)
(* number of requests interleave.                                          *)
THEOREM RetriesGetOneAnswer == Spec => []RetriesConverge
<1>1. IInv => RetriesConverge
  BY DEF IInv, ToldInv, RetriesConverge
<1> QED
  BY <1>1, Invariance, PTL

(* A token given up before it was presented, to POST /auth/refresh, gets   *)
(* no answer.                                                              *)
THEOREM LateAsksGetNoAnswer == Spec => []LateAsksAreRefused
<1>1. IInv => LateAsksAreRefused
  BY DEF IInv, LateInv, LateAsksAreRefused
<1> QED
  BY <1>1, Invariance, PTL

(* No token of a session that deleteSession, the prune of                  *)
(* createSessionWithLimit or the cron deleted is accepted by a row again,  *)
(* and its id has a row again only by the exchange of an OAuth ticket.     *)
THEOREM ClosedSessionsStayClosed == Spec => []ClosedStaysClosed
<1>1. IInv => ClosedStaysClosed
  BY DEF IInv, ClosedInv, EndedFor, ClosedStaysClosed
<1> QED
  BY <1>1, Invariance, PTL

(* createSessionWithLimit does not evict the session it inserts, whatever  *)
(* the clocks of the sign-ins that ran beside it.                          *)
THEOREM SignInIsNotEvicted == Spec => NewSessionSurvives
<1>1. IInv /\ [Next]_vars =>
        [\A r \in Reqs : req[r].pc = "create" /\ req'[r].pc = "answer"
                           => rows'[req[r].sid].cur = req[r].new]_vars
  <2> SUFFICES ASSUME IInv, Next, NEW r \in Reqs,
                      req[r].pc = "create", req'[r].pc = "answer"
               PROVE  rows'[req[r].sid].cur = req[r].new
    BY DEF vars
  <2>0. req \in [Reqs -> Req]
    BY DEF IInv, TypeOK
  <2>1. TypeOK'
    BY TypeStep
  <2>2. CASE Create(r)
    BY <2>1, <2>2, CreateStep
  <2>3. CASE ~Create(r)
    <3>1. ASSUME NEW p \in Reqs, SignIn(p) \/ Create(p) \/ LookupCurrent(p)
                   \/ LookupPrevious(p) \/ SwapWins(p) \/ SwapLoses(p)
                   \/ Answer(p) \/ DeleteSession(p) \/ DeleteAll(p) \/ DeleteExpired(p)
          PROVE  p # r
      BY <2>3, <3>1 DEF SignIn, Create, LookupCurrent, LookupPrevious, SwapWins, SwapLoses,
                        Answer, DeleteSession, DeleteAll, DeleteExpired
    <3>2. ASSUME NEW p \in Reqs, p # r, SignIn(p) \/ Create(p) \/ LookupCurrent(p)
                   \/ LookupPrevious(p) \/ SwapWins(p) \/ SwapLoses(p)
                   \/ Answer(p) \/ DeleteSession(p) \/ DeleteAll(p) \/ DeleteExpired(p)
          PROVE  req'[r] = req[r]
      BY <2>0, <3>2 DEF SignIn, Create, LookupCurrent, LookupPrevious, SwapWins, SwapLoses,
                        Answer, DeleteSession, DeleteAll, DeleteExpired, Become
    <3>a. ASSUME NEW p \in Reqs, ReuseWinner(p) \/ \E s \in Tickets : Exchange(p, s)
          PROVE  p # r /\ req'[r] = req[r]
      BY <2>0, <3>a DEF ReuseWinner, Exchange, Reuse, Become
    <3>b. ASSUME NEW p \in Reqs, CreateFails(p)
          PROVE  req'[r] = req[r] \/ req'[r].pc \in {"idle", "winner"}
      BY <2>0, <3>b, ReuseShapes, NoneOfIt DEF CreateFails, Become
    <3>3. ASSUME NEW p \in Reqs, Die(p) PROVE req'[r] = req[r] \/ req'[r].pc # "answer"
      BY <2>0, <3>3 DEF Die, Become, Idle
    <3>4. ASSUME NEW p \in Reqs, NEW op, NEW t, Ask(p, op, t) PROVE p # r /\ req'[r] = req[r]
      BY <2>0, <3>4 DEF Ask
    <3>5. ASSUME NEW s \in Sids, DeleteOne(s) PROVE req' = req
      BY <3>5 DEF DeleteOne
    <3>6. CleanExpired \/ Tick => req' = req
      BY DEF CleanExpired, Tick
    <3> QED
      BY <3>1, <3>2, <3>a, <3>b, <3>3, <3>4, <3>5, <3>6 DEF Next
  <2> QED
    BY <2>2, <2>3
<1> QED
  BY <1>1, Invariance, PTL DEF Spec, NewSessionSurvives

-----------------------------------------------------------------------------
(* The refinement *)

(* The lineage as the map of the refinement sees it.                       *)
lineageVars == <<[s \in Sids |-> rows[s].cur], closed, [t \in Tokens |-> heir[t].to], told>>

(* A step that changes no current token, no heir and ends no line keeps    *)
(* every line, and its answers are heirs.                                  *)
LEMMA LineageKept ==
  ASSUME IInv, IInv', \A s \in Sids : rows'[s].cur = rows[s].cur,
         closed' = closed, heir' = heir
  PROVE  [Lineage!Next]_lineageVars
<1>1. \A s \in Sids : rows[s].cur \notin closed
  BY DEF IInv, ClosedInv, EndedFor
<1>2. \A s \in Sids : Lineage!Keep(s)
  BY <1>1 DEF Lineage!Keep
<1>3. \A a \in told' : a[1] \in Tokens /\ a[2] = heir[a[1]].to /\ a[2] # 0
  BY DEF IInv, ToldInv, TypeOK
<1> QED
  BY <1>2, <1>3 DEF Lineage!Next, lineageVars

(* A current token is a token of its session.                              *)
LEMMA CurrentTokens ==
  ASSUME IInv, NEW s \in Sids, rows[s].cur # 0
  PROVE  rows[s].cur \in Ended(s) /\ rows[s].cur \notin closed
BY TokenNumbers DEF IInv, TypeOK, Row, RowsInv, Ended, ClosedInv, EndedFor

(* Deletions end lines.                                                    *)
LEMMA LineageEnds ==
  ASSUME IInv, IInv', Drops
  PROVE  [Lineage!Next]_lineageVars
<1>1. ASSUME NEW s \in Sids PROVE Lineage!End(s) \/ Lineage!Keep(s)
  <2>1. CASE rows'[s].cur = rows[s].cur
    <3>1. rows'[s].cur \notin closed'
      BY DEF IInv, ClosedInv, EndedFor
    <3> QED
      BY <2>1, <3>1 DEF Lineage!Keep
  <2>2. CASE rows'[s].cur # rows[s].cur
    <3>1. rows'[s].cur = 0 /\ rows[s].cur # 0
      BY <2>2, NoneOfIt DEF Drops
    <3>2. rows[s].cur \in closed' \ closed
      BY <3>1, CurrentTokens DEF Drops
    <3> QED
      BY <3>1, <3>2 DEF Lineage!End
  <2> QED
    BY <2>1, <2>2
<1>2. heir' = heir /\ told' = told /\ closed \subseteq closed'
  BY DEF Drops
<1>3. ASSUME NEW t \in closed' \ closed
      PROVE  heir[t].to # 0 \/ \E s \in Sids : rows[s].cur = t /\ Lineage!End(s)
  <2>1. PICK s \in Sids : t \in Ended(s) /\ rows'[s].cur = 0
    BY <1>3 DEF Drops
  <2>2. t # 0
    BY <2>1, TokenNumbers DEF Ended
  <2>3. t = rows[s].cur => Lineage!End(s)
    BY <1>3, <2>1 DEF Lineage!End
  <2> QED
    BY <2>1, <2>3 DEF Ended
<1>4. closed' \ closed \subseteq Tokens
  BY DEF IInv, TypeOK
<1> QED
  BY <1>1, <1>2, <1>3, <1>4 DEF Lineage!Next, lineageVars

(* An insertion opens a line, also in the place of one that has expired,   *)
(* and its clean-up and prune end others.                                  *)
LEMMA LineageOpens ==
  ASSUME IInv, IInv', NEW r \in Reqs, Create(r)
  PROVE  [Lineage!Next]_lineageVars
<1>0. req[r].sid \in Sids /\ req[r].new \in Tokens
  BY TokenNumbers DEF Create, IInv, TypeOK, FreshInv, Fresh, Pending, Req
<1> PICK s \in Sids, n \in Tokens : s = req[r].sid /\ n = req[r].new
  BY <1>0
<1>1. heir[n].to = 0 /\ n # 0 /\ \A x \in Sids : rows[x].cur # n
  BY TokenNumbers DEF Create, IInv, FreshInv, Fresh, Pending
<1>2. /\ rows'[s].cur = n
      /\ \A x \in Sids \ {s} : rows'[x] = rows[x] \/ rows'[x] = NoRow
  BY CreateStep DEF IInv
<1>3. n \notin closed'
  BY <1>2 DEF IInv, ClosedInv, EndedFor
<1>4. closed' = Deleting(rows') /\ heir' = heir /\ told' = told
  BY DEF Create
<1>5. Lineage!Unclaimed(n)
  BY <1>1, <1>3 DEF Lineage!Unclaimed
<1>6. ASSUME NEW x \in Sids, rows[x].cur # 0, rows'[x].cur # rows[x].cur
      PROVE  Lineage!End(x)
  <2>1. rows[x].cur \in closed' \ closed
    BY <1>4, <1>6, CurrentTokens DEF Deleting, Live
  <2>2. rows'[x].cur = 0 \/ rows'[x].cur = n
    BY <1>2, <1>6, NoneOfIt
  <2> QED
    BY <1>5, <2>1, <2>2 DEF Lineage!End
<1>7. ASSUME NEW x \in Sids PROVE Lineage!Open(x) \/ Lineage!End(x) \/ Lineage!Keep(x)
  <2>1. CASE rows'[x].cur = rows[x].cur
    <3>1. rows'[x].cur \notin closed'
      BY DEF IInv, ClosedInv, EndedFor
    <3> QED
      BY <2>1, <3>1 DEF Lineage!Keep
  <2>2. CASE rows[x].cur # 0 /\ rows'[x].cur # rows[x].cur
    BY <1>6, <2>2
  <2>3. CASE rows[x].cur = 0 /\ rows'[x].cur # rows[x].cur
    <3>1. x = s
      BY <1>2, <2>3, NoneOfIt
    <3> QED
      BY <1>2, <1>5, <2>3, <3>1 DEF Lineage!Open
  <2> QED
    BY <2>1, <2>2, <2>3
<1>8. ASSUME NEW t \in closed' \ closed
      PROVE  heir[t].to # 0 \/ \E x \in Sids : rows[x].cur = t /\ Lineage!End(x)
  <2>1. PICK x \in Live(rows) : t \in Ended(x) /\ rows'[x].cur # rows[x].cur
    BY <1>4, <1>8 DEF Deleting
  <2>2. x \in Sids /\ rows[x].cur # 0
    BY DEF Live
  <2>3. Lineage!End(x)
    BY <1>6, <2>1, <2>2
  <2> QED
    BY <2>1, <2>2, <2>3 DEF Ended
<1>9. closed \subseteq closed' /\ closed' \ closed \subseteq Tokens
  BY <1>4 DEF Deleting, IInv, TypeOK
<1> QED
  BY <1>4, <1>7, <1>8, <1>9 DEF Lineage!Next, lineageVars

(* A swap gives the end of a line its one heir.                            *)
LEMMA LineageMoves ==
  ASSUME IInv, IInv', NEW r \in Reqs, SwapWins(r)
  PROVE  [Lineage!Next]_lineageVars
<1>0. req[r].sid \in Sids /\ req[r].tok \in Tokens /\ req[r].new \in Tokens
  BY TokenNumbers DEF SwapWins, IInv, TypeOK, FreshInv, Fresh, AskInv, Knows, Pending, Req
<1> PICK s \in Sids, t \in Tokens, n \in Tokens :
      s = req[r].sid /\ t = req[r].tok /\ n = req[r].new
  BY <1>0
<1>1. heir[n].to = 0 /\ n \notin closed /\ \A x \in Sids : rows[x].cur # n
  BY DEF SwapWins, IInv, FreshInv, Fresh, Pending
<1>2. rows[s].cur = t /\ heir[t].to = 0
  BY <1>1, TokenNumbers DEF SwapWins, StillCurrent, IInv, RowsInv
<1>3. rows'[s].cur = n /\ \A x \in Sids : x # s => rows'[x] = rows[x]
  BY <1>1 DEF SwapWins, Rotated, IInv, TypeOK, Row
<1>4. heir'[t].to = n /\ \A x \in Tokens : x # t => heir'[x] = heir[x]
  BY <1>1 DEF SwapWins, IInv, TypeOK
<1>5. closed' = closed /\ told' = told
  BY DEF SwapWins
<1>6. Lineage!Exchange(s)
  BY <1>1, <1>2, <1>3, <1>4, <1>5 DEF Lineage!Exchange, Lineage!Unclaimed
<1>7. ASSUME NEW x \in Sids, x # s PROVE Lineage!Keep(x)
  <2>1. rows[x].cur \notin closed
    BY DEF IInv, ClosedInv, EndedFor
  <2> QED
    BY <1>3, <1>5, <1>7, <2>1 DEF Lineage!Keep
<1>8. \A x \in Sids : Lineage!Exchange(x) \/ Lineage!Keep(x)
  BY <1>6, <1>7
<1>9. ASSUME NEW x \in Tokens
      PROVE  \/ heir'[x].to = heir[x].to
             \/ \E y \in Sids : rows[y].cur = x /\ Lineage!Exchange(y)
  BY <1>1, <1>2, <1>4, <1>6
<1> QED
  BY <1>5, <1>8, <1>9 DEF Lineage!Next, lineageVars

(* The server implements TokenLineage: a session is one line of tokens,    *)
(* whatever createSessionWithLimit, compareAndSwapUserSession and the      *)
(* deletions of concurrent requests do to its row, and the tokens of a     *)
(* line that ended head no line again, also when an OAuth ticket gives     *)
(* its session id to another.                                              *)
THEOREM SessionsAreLineages == Spec => ImplementsLineage
<1>1. Init => Lineage!Init
  BY DEF Init, Lineage!Init, NoRow
<1>2. IInv /\ IInv' /\ [Next]_vars => [Lineage!Next]_lineageVars
  <2> SUFFICES ASSUME IInv, IInv', [Next]_vars PROVE [Lineage!Next]_lineageVars
    OBVIOUS
  <2>1. ASSUME NEW r \in Reqs,
               \/ SignIn(r) \/ LookupCurrent(r) \/ LookupPrevious(r) \/ SwapLoses(r)
               \/ Answer(r) \/ Die(r) \/ CreateFails(r)
               \/ ReuseWinner(r) \/ \E s \in Tickets : Exchange(r, s)
               \/ \E t \in held : Ask(r, "refresh", t) \/ Ask(r, "signout", t)
        PROVE  [Lineage!Next]_lineageVars
    <3>1. rows' = rows /\ closed' = closed /\ heir' = heir
      BY <2>1 DEF SignIn, LookupCurrent, LookupPrevious, SwapLoses, Answer, Die, Ask, Become,
                  CreateFails, ReuseWinner, Exchange, Reuse
    <3> QED
      BY <3>1, LineageKept
  <2>2. CASE Tick \/ UNCHANGED vars
    <3>1. rows' = rows /\ closed' = closed /\ heir' = heir
      BY <2>2 DEF Tick, vars
    <3> QED
      BY <3>1, LineageKept
  <2>3. CASE Drops
    BY <2>3, LineageEnds
  <2>4. ASSUME NEW r \in Reqs, Create(r) PROVE [Lineage!Next]_lineageVars
    BY <2>4, LineageOpens
  <2>5. ASSUME NEW r \in Reqs, SwapWins(r) PROVE [Lineage!Next]_lineageVars
    BY <2>5, LineageMoves
  <2> QED
    BY <2>1, <2>2, <2>3, <2>4, <2>5, DeletionsDrop DEF Next
<1> QED
  BY <1>1, <1>2, Invariance, PTL DEF Spec, ImplementsLineage, Lineage!Spec, lineageVars

-----------------------------------------------------------------------------
(* The limit *)

(* Being ahead is a strict total order of the rows: of two of them one is  *)
(* ahead, and everything ahead of it is ahead of the other.                *)
LEMMA AheadIsAnOrder ==
  ASSUME NEW R \in [Sids -> Row], NEW own \in Sids,
         NEW x \in Live(R), NEW y \in Live(R), x # y
  PROVE  /\ x \in Ahead(R, own, y) \/ y \in Ahead(R, own, x)
         /\ x \notin Ahead(R, own, x)
         /\ x \in Ahead(R, own, y) => Ahead(R, own, x) \subseteq Ahead(R, own, y)
<1>1. \A s \in Sids : s \in Nat /\ R[s].createdAt \in Nat
  BY SessionAssumption DEF Row
<1>2. Live(R) \subseteq Sids
  BY DEF Live
<1>3. x \in Ahead(R, own, y) \/ y \in Ahead(R, own, x)
  BY <1>1, <1>2 DEF Ahead
<1>4. x \notin Ahead(R, own, x)
  BY DEF Ahead
<1>5. ASSUME x \in Ahead(R, own, y), NEW z \in Ahead(R, own, x)
      PROVE  z \in Ahead(R, own, y)
  BY <1>1, <1>2, <1>5 DEF Ahead
<1> QED
  BY <1>3, <1>4, <1>5

(* So no two rows have as many ahead of them, and the rows with fewer than *)
(* maxActiveSessions ahead are at most that many.                          *)
LEMMA PruneBound ==
  ASSUME NEW R \in [Sids -> Row], NEW own \in Sids, MaxSessions # 0
  PROVE  Cardinality(Live(Pruned(R, own))) <= MaxSessions
<1> DEFINE K == Live(Pruned(R, own))
           f == [s \in K |-> Cardinality(Ahead(R, own, s))]
<1>1. IsFiniteSet(Live(R)) /\ IsFiniteSet(K) /\ K \subseteq Live(R)
  <2>1. Live(R) \subseteq Sids /\ K \subseteq Sids
    BY DEF Live
  <2>2. K \subseteq Live(R)
    BY DEF Live, Pruned, NoRow
  <2> QED
    BY <2>1, <2>2, FS_Subset, SessionAssumption
<1>2. \A s \in K : IsFiniteSet(Ahead(R, own, s)) /\ Cardinality(Ahead(R, own, s)) \in Nat
  <2> SUFFICES ASSUME NEW s \in K
               PROVE  IsFiniteSet(Ahead(R, own, s)) /\ Cardinality(Ahead(R, own, s)) \in Nat
    OBVIOUS
  <2>1. Ahead(R, own, s) \in SUBSET Live(R)
    BY DEF Ahead
  <2> QED
    BY <1>1, <2>1, FS_Subset, FS_CardinalityType
<1>3. \A s \in K : ~(Cardinality(Ahead(R, own, s)) >= MaxSessions)
  BY DEF Live, Pruned, NoRow
<1>4. f \in [K -> 0..(MaxSessions - 1)]
  BY <1>2, <1>3, SessionAssumption
<1>5. IsFiniteSet(0..(MaxSessions - 1)) /\ Cardinality(0..(MaxSessions - 1)) = MaxSessions
  <2>1. MaxSessions - 1 \in Int /\ ~(0 > MaxSessions - 1) /\ (MaxSessions - 1) - 0 + 1 = MaxSessions
    BY SessionAssumption
  <2> QED
    BY <2>1, FS_Interval
<1>6. ASSUME NEW x \in K, NEW y \in K, x \in Ahead(R, own, y)
      PROVE  f[x] # f[y]
  <2>1. x # y /\ x \in Live(R) /\ y \in Live(R)
    BY <1>1, <1>6 DEF Ahead
  <2>2. /\ x \notin Ahead(R, own, x)
        /\ Ahead(R, own, x) \cup {x} \in SUBSET Ahead(R, own, y)
    BY <1>6, <2>1, AheadIsAnOrder
  <2>3. Cardinality(Ahead(R, own, x) \cup {x}) = Cardinality(Ahead(R, own, x)) + 1
    BY <1>2, <2>2, FS_AddElement
  <2>4. Cardinality(Ahead(R, own, x) \cup {x}) <= Cardinality(Ahead(R, own, y))
    BY <1>2, <2>2, FS_Subset
  <2> QED
    BY <1>2, <2>3, <2>4
<1>7. ASSUME Cardinality(K) > MaxSessions PROVE FALSE
  <2> HIDE DEF f, K
  <2>1. PICK x \in K, y \in K : x # y /\ f[x] = f[y]
    BY <1>1, <1>4, <1>5, <1>7, FS_PigeonHole
  <2>2. x \in Ahead(R, own, y) \/ y \in Ahead(R, own, x)
    BY <1>1, <2>1, AheadIsAnOrder
  <2> QED
    BY <1>6, <2>1, <2>2
<1>8. Cardinality(K) \in Nat
  BY <1>1, FS_CardinalityType
<1> QED
  BY <1>7, <1>8, SessionAssumption

(* maxActiveSessions holds whatever sign-ins run at the same time: every   *)
(* insertion prunes in its own batch, and no other statement adds a row.   *)
THEOREM SessionLimitHolds == Spec => []SessionLimit
<1>1. Init => SessionLimit
  <2> SUFFICES ASSUME Init, MaxSessions # 0 PROVE Cardinality(Live(rows)) <= MaxSessions
    BY DEF SessionLimit
  <2>1. Live(rows) = {}
    BY DEF Init, Live, NoRow
  <2> QED
    BY <2>1, FS_EmptySet, SessionAssumption
<1>2. IInv /\ IInv' /\ SessionLimit /\ [Next]_vars => SessionLimit'
  <2> SUFFICES ASSUME IInv, IInv', SessionLimit, [Next]_vars, MaxSessions # 0
               PROVE  Cardinality(Live(rows')) <= MaxSessions
    BY DEF SessionLimit, Live
  <2>1. ASSUME Live(rows') \subseteq Live(rows)
        PROVE  Cardinality(Live(rows')) <= MaxSessions
    <3>1. IsFiniteSet(Live(rows)) /\ Cardinality(Live(rows)) \in Nat
      BY FS_Subset, FS_CardinalityType, SessionAssumption DEF Live
    <3>2. /\ IsFiniteSet(Live(rows'))
          /\ Cardinality(Live(rows')) \in Nat
          /\ Cardinality(Live(rows')) <= Cardinality(Live(rows))
      BY <2>1, <3>1, FS_Subset, FS_CardinalityType
    <3>3. Cardinality(Live(rows)) <= MaxSessions
      BY DEF SessionLimit
    <3> QED
      BY <3>1, <3>2, <3>3, SessionAssumption
  <2>2. ASSUME NEW r \in Reqs, Create(r) PROVE Cardinality(Live(rows')) <= MaxSessions
    <3> DEFINE q   == req[r]
               row == [NoRow EXCEPT !.cur = q.new, !.expiresAt = expOf[q.new],
                                    !.createdAt = q.at]
               R   == [Cleaned(rows, q.at) EXCEPT ![q.sid] = row]
    <3>1. q \in Req /\ q.new \in Tokens /\ q.sid \in Sids
      BY <2>2, TokenNumbers DEF Create, IInv, TypeOK, FreshInv, Fresh, Pending, Req
    <3>2. NoRow \in Row /\ row \in Row
      BY <3>1, SessionAssumption, TokenNumbers DEF IInv, TypeOK, Req, Row, NoRow
    <3> HIDE DEF row
    <3>3. R \in [Sids -> Row]
      BY <3>1, <3>2 DEF Cleaned, IInv, TypeOK
    <3>4. rows' = Pruned(R, q.sid)
      BY <2>2 DEF Create, WithSession, row
    <3> HIDE DEF q, R
    <3> QED
      BY <3>1, <3>3, <3>4, PruneBound
  <2>3. ASSUME NEW r \in Reqs, SwapWins(r) PROVE Live(rows') \subseteq Live(rows)
    <3>1. /\ req[r].sid \in Sids /\ req[r].tok # 0
          /\ rows[req[r].sid].cur = req[r].tok
      BY <2>3 DEF SwapWins, StillCurrent, IInv, FreshInv, Fresh, AskInv, Knows, Pending
    <3>2. \A x \in Sids : x # req[r].sid => rows'[x] = rows[x]
      BY <2>3 DEF SwapWins, IInv, TypeOK
    <3>3. \A x \in Sids : rows'[x].cur # 0 => rows[x].cur # 0
      BY <3>1, <3>2
    <3> QED
      BY <3>3 DEF Live
  <2>4. Drops => Live(rows') \subseteq Live(rows)
    BY DEF Drops, Live, NoRow
  <2>5. ASSUME NEW r \in Reqs,
               \/ SignIn(r) \/ LookupCurrent(r) \/ LookupPrevious(r) \/ SwapLoses(r)
               \/ Answer(r) \/ Die(r) \/ CreateFails(r)
               \/ ReuseWinner(r) \/ \E s \in Tickets : Exchange(r, s)
               \/ \E t \in held : Ask(r, "refresh", t) \/ Ask(r, "signout", t)
        PROVE  rows' = rows
    BY <2>5 DEF SignIn, LookupCurrent, LookupPrevious, SwapLoses, Answer, Die, Ask, Become,
                CreateFails, ReuseWinner, Exchange, Reuse
  <2>6. Tick \/ UNCHANGED vars => rows' = rows
    BY DEF Tick, vars
  <2>7. CASE rows' = rows \/ Drops \/ \E r \in Reqs : Create(r) \/ SwapWins(r)
    BY <2>1, <2>2, <2>3, <2>4, <2>7
  <2>8. CASE \/ \E r \in Reqs : DeleteSession(r) \/ DeleteAll(r) \/ DeleteExpired(r)
             \/ \E s \in Sids : DeleteOne(s)
             \/ CleanExpired
    BY <2>1, <2>4, <2>8, DeletionsDrop
  <2> QED
    BY <2>5, <2>6, <2>7, <2>8 DEF Next
<1> QED
  BY <1>1, <1>2, Invariance, PTL DEF Spec
=============================================================================
