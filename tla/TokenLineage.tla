---------------------------- MODULE TokenLineage ----------------------------
(***************************************************************************)
(* What refresh token rotation promises, whatever the interleaving of the  *)
(* requests: a session is a line of tokens.  Each token has at most one    *)
(* heir, only the head of a line can be given one, an answer to a refresh  *)
(* names the heir of the token presented, and a token that was a head or   *)
(* an ancestor when its line ended never heads a line again.  A session    *)
(* may have another line later, of tokens that nobody has seen.            *)
(***************************************************************************)
EXTENDS Naturals

CONSTANTS Sids, Tokens    \* Tokens \subseteq Nat \ {0}

VARIABLES
  head,   \* [Sids -> Tokens \cup {0}]: the token the session lives by
  ended,  \* the tokens whose lines have ended
  heir,   \* [Tokens -> Tokens \cup {0}]
  told    \* {<<token, answer>>}: the answers given to refreshes

Init ==
  /\ head \in [Sids -> {0}] /\ ended = {}
  /\ heir \in [Tokens -> {0}] /\ told = {}

(* A token that nothing descends from, that no session lives by, and whose *)
(* line has not ended.                                                     *)
Unclaimed(t) ==
  t \in Tokens \ ended' /\ heir[t] = 0 /\ \A s \in Sids : head[s] # t

Open(s) == head[s] = 0 /\ Unclaimed(head'[s])

Exchange(s) ==
  /\ head[s] \in Tokens /\ heir[head[s]] = 0
  /\ Unclaimed(head'[s]) /\ heir'[head[s]] = head'[s]

End(s) == head[s] \in ended' \ ended /\ (head'[s] = 0 \/ Unclaimed(head'[s]))

Keep(s) == head'[s] = head[s] /\ head[s] \notin ended'

(* One transaction may open a session and end several others. *)
Next ==
  /\ \A s \in Sids : Open(s) \/ Exchange(s) \/ End(s) \/ Keep(s)
  /\ ended \subseteq ended'
  /\ \A t \in ended' \ ended : heir[t] # 0 \/ \E s \in Sids : head[s] = t /\ End(s)
  /\ \A t \in Tokens : \/ heir'[t] = heir[t]
                       \/ \E s \in Sids : head[s] = t /\ Exchange(s)
  /\ \A a \in told' \ told : a[1] \in Tokens /\ a[2] = heir[a[1]] /\ a[2] # 0

Spec == Init /\ [][Next]_<<head, ended, heir, told>>
=============================================================================
