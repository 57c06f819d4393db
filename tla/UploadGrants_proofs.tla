-------------------------- MODULE UploadGrants_proofs --------------------------
(***************************************************************************)
(* Proofs about UploadGrants: what one upload grant promises, for any      *)
(* number of requests, any parts and sizes and any maxFileSize.            *)
(***************************************************************************)
EXTENDS UploadGrants, FiniteSetTheorems, WellFoundedInduction, TLAPS

Creating == {r \in Reqs : req[r].pc = "create"}
Held == IF marker = NoMarker THEN 0 ELSE 1

(* Every marker written lets one upload through, or one request create a   *)
(* session; a marker is there or has been deleted by the cleanup, which    *)
(* takes those of expired grants only.                                     *)
ClaimInv ==
  /\ IsFiniteSet(Creating)
  /\ admitted + Cardinality(Creating) <= cleanups + Held
  /\ Valid => cleanups = 0

(* A claim's ETag is its own: who sees it saw the marker as it is.         *)
EtagInv ==
  /\ marker.state = "creating" => marker.etag \in 1..claims
  /\ marker.state # "creating" => marker.etag = 0
  /\ \A r \in Reqs :
       /\ req[r].seen.state = "creating" => req[r].seen.etag \in 1..claims
       /\ req[r].seen.state # "creating" => req[r].seen.etag = 0
       /\ marker.state = "creating" /\ req[r].seen.etag = marker.etag => req[r].seen = marker

(* What a request has seen of the marker.                                  *)
SeenInv ==
  \A r \in Reqs :
    /\ req[r].pc \in {"create", "bind", "abandon", "terminate"} => req[r].seen.state = "creating"
    /\ req[r].pc = "reserve" => req[r].seen.state = "multipart"

(* A list that passed the check is within the limit.                       *)
ListInv ==
  /\ object <= MaxBytes
  /\ \A r \in Reqs : req[r].pc = "complete" => Total(SizesOf(req[r].list, req[r].list)) <= MaxBytes

IInv == TypeOK /\ ClaimInv /\ EtagInv /\ SeenInv /\ ListInv

-----------------------------------------------------------------------------
(* Sums: what Total computes of finitely many sizes. The recursion of the   *)
(* fold is well-founded, so it has a solution (SumsExist) and its values    *)
(* are numbers (TotalIsNat), both by induction over the size of the set.    *)

(* Induction over the numbers, for a set of them.                         *)
LEMMA AllNumbers ==
  ASSUME NEW P \in SUBSET Nat, 0 \in P, \A n \in P : n + 1 \in P
  PROVE  P = Nat
<1> DEFINE Q == Nat \ P
           R == OpToRel(<, Nat)
<1> SUFFICES ASSUME Q # {} PROVE FALSE
  OBVIOUS
<1>1. \E x \in Q : \A y \in Q : ~(<<y, x>> \in R)
  <2>1. IsWellFoundedOn(R, Nat)
    BY NatLessThanWellFounded
  <2>2. Q \in SUBSET Nat
    OBVIOUS
  <2> HIDE DEF R, Q
  <2> QED
    BY <2>1, <2>2, WFMin
<1>2. PICK x \in Q : \A y \in Q : ~(<<y, x>> \in R)
  BY <1>1
<1>3. x \in Nat /\ x \notin P /\ x # 0 /\ x - 1 \in Nat /\ x - 1 < x /\ x = (x - 1) + 1
  OBVIOUS
<1>4. <<x - 1, x>> \in R
  BY <1>3 DEF OpToRel
<1>5. x - 1 \in P
  BY <1>2, <1>3, <1>4
<1> QED
  BY <1>3, <1>5

(* The sum of f over D, as the fold of the library computes it.            *)
Least(s) == CHOOSE x \in s : TRUE
SumStep(f, g, s) == IF s = {} THEN 0 ELSE f[Least(s)] + g[s \ {Least(s)}]
Sums(f, D) == CHOOSE g : g = [s \in SUBSET D |-> SumStep(f, g, s)]

(* Total, unfolded down to the recursive function of MapThenFoldSet.       *)
LEMMA TotalIsFold ==
  ASSUME NEW f
  PROVE  Total(f) = Sums(f, DOMAIN f)[DOMAIN f]
BY DEF Total, MapThenSumSet, MapThenFoldSet, Sums, SumStep, Least

(* The subsets of S with at most n elements.                               *)
Small(S, n) == {s \in SUBSET S : Cardinality(s) <= n}

(* Taking one element from a subset of S leaves a smaller one.             *)
LEMMA SmallFacts ==
  ASSUME NEW S, IsFiniteSet(S), NEW s \in SUBSET S
  PROVE  /\ Cardinality(s) \in Nat
         /\ Cardinality(s) <= Cardinality(S)
         /\ s # {} => /\ Least(s) \in s
                      /\ s \ {Least(s)} \in SUBSET S
                      /\ Cardinality(s \ {Least(s)}) = Cardinality(s) - 1
         /\ Cardinality(s) <= 0 => s = {}
<1>1. IsFiniteSet(s) /\ Cardinality(s) <= Cardinality(S)
  BY FS_Subset
<1>2. Cardinality(s) \in Nat /\ (Cardinality(s) = 0 => s = {})
  BY <1>1, FS_CardinalityType, FS_EmptySet
<1>3. ASSUME s # {}
      PROVE  /\ Least(s) \in s /\ s \ {Least(s)} \in SUBSET S
             /\ Cardinality(s \ {Least(s)}) = Cardinality(s) - 1
  <2>1. Least(s) \in s
    BY <1>3 DEF Least
  <2> QED
    BY <1>1, <2>1, FS_RemoveElement
<1>4. Cardinality(s) <= 0 => s = {}
  BY <1>2
<1> QED
  BY <1>1, <1>2, <1>3, <1>4

(* g is the sum for the sets of at most n elements.                        *)
IsSums(f, S, n, g) ==
  /\ g \in [Small(S, n) -> Nat]
  /\ \A s \in Small(S, n) : g[s] = SumStep(f, g, s)

(* There is one for every n: the recursion has a solution.                 *)
LEMMA SumsExist ==
  ASSUME NEW S, IsFiniteSet(S), NEW f \in [S -> Nat]
  PROVE  \A n \in Nat : \E g : IsSums(f, S, n, g)
<1> DEFINE P == {n \in Nat : \E g : IsSums(f, S, n, g)}
<1>1. 0 \in P
  <2> DEFINE g == [s \in Small(S, 0) |-> 0]
  <2>1. ASSUME NEW s \in Small(S, 0)
        PROVE  s = {}
    <3>1. s \in SUBSET S /\ Cardinality(s) <= 0
      BY DEF Small
    <3> QED
      BY <3>1, SmallFacts
  <2>2. IsSums(f, S, 0, g)
    BY <2>1 DEF IsSums, SumStep
  <2> HIDE DEF g
  <2> QED
    BY <2>2
<1>2. ASSUME NEW n \in P
      PROVE  n + 1 \in P
  <2>1. PICK g : IsSums(f, S, n, g)
    OBVIOUS
  <2> DEFINE h == [s \in Small(S, n + 1) |-> SumStep(f, g, s)]
  <2>2. ASSUME NEW s \in Small(S, n + 1), s # {}
        PROVE  s \ {Least(s)} \in Small(S, n) /\ f[Least(s)] \in Nat
    <3>1. s \in SUBSET S /\ Cardinality(s) <= n + 1 /\ n \in Nat
      BY DEF Small
    <3>2. /\ Cardinality(s) \in Nat /\ Least(s) \in S /\ s \ {Least(s)} \in SUBSET S
          /\ Cardinality(s \ {Least(s)}) = Cardinality(s) - 1
      BY <2>2, <3>1, SmallFacts
    <3> QED
      BY <3>1, <3>2 DEF Small
  <2>3. \A s \in Small(S, n) : s \in Small(S, n + 1)
    <3>1. ASSUME NEW s \in Small(S, n)
          PROVE  s \in SUBSET S /\ Cardinality(s) <= n + 1
      <4>1. s \in SUBSET S /\ Cardinality(s) <= n /\ n \in Nat
        BY DEF Small
      <4>2. Cardinality(s) \in Nat
        BY <4>1, SmallFacts
      <4> QED
        BY <4>1, <4>2
    <3> QED
      BY <3>1 DEF Small
  <2>4. h \in [Small(S, n + 1) -> Nat]
    <3>1. ASSUME NEW s \in Small(S, n + 1)
          PROVE  SumStep(f, g, s) \in Nat
      BY <2>1, <2>2 DEF IsSums, SumStep
    <3> QED
      BY <3>1
  <2>5. \A s \in Small(S, n) : h[s] = g[s]
    BY <2>1, <2>3 DEF IsSums
  <2>6. ASSUME NEW s \in Small(S, n + 1)
        PROVE  h[s] = SumStep(f, h, s)
    <3>1. h[s] = SumStep(f, g, s)
      OBVIOUS
    <3> HIDE DEF h
    <3> QED
      BY <3>1, <2>2, <2>5 DEF SumStep
  <2>7. IsSums(f, S, n + 1, h)
    BY <2>4, <2>6 DEF IsSums
  <2> HIDE DEF h
  <2> QED
    BY <2>7
<1>3. P \in SUBSET Nat
  OBVIOUS
<1> HIDE DEF P
<1>4. P = Nat
  BY <1>1, <1>2, <1>3, AllNumbers
<1> QED
  BY <1>4 DEF P

(* Finitely many numbers add up to a number.                               *)
LEMMA TotalIsNat ==
  ASSUME NEW S, IsFiniteSet(S), NEW f \in [S -> Nat]
  PROVE  Total(f) \in Nat
<1> DEFINE h == Sums(f, S)
<1>1. \E g : g = [s \in SUBSET S |-> SumStep(f, g, s)]
  <2>1. Cardinality(S) \in Nat
    BY FS_CardinalityType
  <2>2. PICK g : IsSums(f, S, Cardinality(S), g)
    BY <2>1, SumsExist
  <2>3. Small(S, Cardinality(S)) = SUBSET S
    BY SmallFacts DEF Small
  <2>4. g = [s \in SUBSET S |-> SumStep(f, g, s)]
    BY <2>2, <2>3 DEF IsSums
  <2> QED
    BY <2>4
<1>2. h = [s \in SUBSET S |-> SumStep(f, h, s)]
  BY <1>1 DEF Sums
<1> HIDE DEF h
<1> DEFINE P == {n \in Nat : \A s \in SUBSET S : Cardinality(s) <= n => h[s] \in Nat}
<1>3. 0 \in P
  <2>1. ASSUME NEW s \in SUBSET S, Cardinality(s) <= 0
        PROVE  h[s] \in Nat
    <3>1. s = {}
      BY <2>1, SmallFacts
    <3> QED
      BY <1>2, <3>1 DEF SumStep
  <2> QED
    BY <2>1
<1>4. ASSUME NEW n \in P
      PROVE  n + 1 \in P
  <2>1. ASSUME NEW s \in SUBSET S, Cardinality(s) <= n + 1
        PROVE  h[s] \in Nat
    <3>1. h[s] = SumStep(f, h, s)
      BY <1>2
    <3>2. CASE s = {}
      BY <3>1, <3>2 DEF SumStep
    <3>3. CASE s # {}
      <4>1. /\ Least(s) \in S /\ s \ {Least(s)} \in SUBSET S /\ Cardinality(s) \in Nat
            /\ Cardinality(s \ {Least(s)}) = Cardinality(s) - 1
        BY <3>3, SmallFacts
      <4>2. Cardinality(s \ {Least(s)}) <= n
        BY <2>1, <4>1
      <4>3. h[s \ {Least(s)}] \in Nat /\ f[Least(s)] \in Nat
        BY <4>1, <4>2
      <4> QED
        BY <3>1, <3>3, <4>3 DEF SumStep
    <3> QED
      BY <3>2, <3>3
  <2> QED
    BY <2>1
<1>5. P \in SUBSET Nat
  OBVIOUS
<1>6. P = Nat
  <2> HIDE DEF P
  <2> QED
    BY <1>3, <1>4, <1>5, AllNumbers
<1>7. Cardinality(S) \in Nat /\ Cardinality(S) <= Cardinality(S)
  BY FS_CardinalityType
<1>8. h[S] \in Nat
  BY <1>6, <1>7
<1> QED
  BY <1>8, TotalIsFold DEF h
-----------------------------------------------------------------------------
(* What the constants and the records are. *)

(* The idle request and the absent marker have their types.                *)
LEMMA Values ==
  /\ Idle \in Req /\ Idle.pc = "idle" /\ Idle.seen = NoMarker
  /\ NoMarker.state = "none" /\ NoMarker.etag = 0 /\ NoMarker \notin Marker
  /\ NoParts \in [Parts -> Nat]
  /\ \A m \in Marker : m.state \in States /\ m.etag \in Nat /\ m.reserved \in 0..MaxBytes
  /\ "none" \notin States
<1>1. NoParts \in [Parts -> Nat]
  BY DEF NoParts
<1>2. (CHOOSE p \in Parts : TRUE) \in Parts /\ (CHOOSE s \in Sizes : TRUE) \in Sizes
  BY GrantAssumption
<1>3. Idle \in Req
  BY <1>1, <1>2 DEF Idle, Req, Pcs
<1> QED
  BY <1>1, <1>3 DEF Idle, NoMarker, Marker, States

(* A put without a body writes a marker with the ETag of the empty body.    *)
LEMMA PutShape ==
  ASSUME NEW state \in States, NEW reserved \in 0..MaxBytes, Put(state, reserved)
  PROVE  /\ marker' \in Marker /\ marker' # NoMarker
         /\ marker'.state = state /\ marker'.reserved = reserved /\ marker'.etag = 0
<1>1. marker' = [state |-> state, etag |-> 0, reserved |-> reserved]
  BY DEF Put
<1>2. marker' \in Marker
  BY <1>1 DEF Marker
<1> QED
  BY <1>1, <1>2, Values

(* The initial state satisfies the inductive invariant.                    *)
LEMMA InitHolds == Init => IInv
<1> SUFFICES ASSUME Init PROVE IInv
  OBVIOUS
<1>1. TypeOK
  BY Values, GrantAssumption DEF Init, TypeOK
<1>2. ClaimInv
  <2>1. Creating = {}
    BY Values DEF Init, Creating
  <2>2. IsFiniteSet(Creating) /\ Cardinality(Creating) = 0
    BY <2>1, FS_EmptySet
  <2> QED
    BY <2>2 DEF Init, ClaimInv, Held
<1>3. EtagInv /\ SeenInv /\ ListInv
  BY Values, GrantAssumption DEF Init, EtagInv, SeenInv, ListInv
<1> QED
  BY <1>1, <1>2, <1>3 DEF IInv

-----------------------------------------------------------------------------
(* The steps *)

(* The object is within the limit, in a form that the steps can keep.      *)
LEMMA ObjectRange ==
  ASSUME IInv
  PROVE  object \in 0..MaxBytes
BY GrantAssumption DEF IInv, TypeOK, ListInv

(* A request that goes on to anything but creating a session makes room    *)
(* for one upload if it was creating.                                      *)
LEMMA CreatingShrinks ==
  ASSUME IInv, NEW r \in Reqs, NEW q \in Req, req' = [req EXCEPT ![r] = q], q.pc # "create"
  PROVE  /\ IsFiniteSet(Creating') /\ Cardinality(Creating) \in Nat
         /\ Cardinality(Creating') =
              Cardinality(Creating) - (IF req[r].pc = "create" THEN 1 ELSE 0)
<1>1. Creating' = Creating \ {r}
  BY DEF IInv, TypeOK, Creating
<1>2. r \in Creating <=> req[r].pc = "create"
  BY DEF Creating
<1>3. IsFiniteSet(Creating) /\ Cardinality(Creating) \in Nat
  BY FS_CardinalityType DEF IInv, ClaimInv
<1>4. /\ IsFiniteSet(Creating \ {r})
      /\ Cardinality(Creating \ {r}) =
           IF r \in Creating THEN Cardinality(Creating) - 1 ELSE Cardinality(Creating)
  BY <1>3, FS_RemoveElement
<1> QED
  BY <1>1, <1>2, <1>3, <1>4

(* A step that admits nothing keeps within both bounds below.               *)
LEMMA AdmitsNothing ==
  ASSUME IInv, NEW r \in Reqs, admitted' = admitted
  PROVE  /\ admitted' \in Nat
         /\ admitted' <= admitted + (IF req[r].pc = "create" THEN 1 ELSE 0)
         /\ admitted' <= admitted + (1 - Held)
BY DEF IInv, TypeOK, Held

(* A step of a request that leaves the marker alone.                       *)
LEMMA QuietStep ==
  ASSUME IInv, NEW r \in Reqs, NEW q \in Req, req' = [req EXCEPT ![r] = q],
         UNCHANGED <<now, marker, claims, cleanups>>, sent' \in Nat, admitted' \in Nat,
         admitted' <= admitted + (IF req[r].pc = "create" THEN 1 ELSE 0),
         session' \in {"none", "open", "aborted", "complete"},
         stored' \in [Parts -> Nat], tracked' \in [Parts -> Nat], object' \in 0..MaxBytes,
         q.pc # "create", q.seen \in {req[r].seen, NoMarker, marker},
         q.pc \in {"bind", "abandon", "terminate"} => q.seen.state = "creating",
         q.pc = "reserve" => q.seen.state = "multipart",
         q.pc = "complete" => Total(SizesOf(q.list, q.list)) <= MaxBytes
  PROVE  IInv'
<1>1. req'[r] = q /\ \A p \in Reqs : p # r => req'[p] = req[p]
  BY DEF IInv, TypeOK
<1>2. TypeOK'
  BY DEF IInv, TypeOK
<1>3. ClaimInv'
  <2>1. /\ IsFiniteSet(Creating') /\ Cardinality(Creating) \in Nat
        /\ Cardinality(Creating') =
             Cardinality(Creating) - (IF req[r].pc = "create" THEN 1 ELSE 0)
    BY CreatingShrinks
  <2>2. admitted' + Cardinality(Creating') <= cleanups' + Held'
    <3>1. Held \in {0, 1} /\ Held' = Held /\ cleanups \in Nat /\ admitted \in Nat
      BY DEF Held, IInv, TypeOK
    <3>2. admitted + Cardinality(Creating) <= cleanups + Held
      BY DEF IInv, ClaimInv
    <3> QED
      BY <2>1, <3>1, <3>2
  <2> QED
    BY <2>1, <2>2 DEF IInv, ClaimInv, Valid
<1>4. EtagInv'
  <2> SUFFICES ASSUME NEW p \in Reqs
               PROVE  /\ req'[p].seen.state = "creating" => req'[p].seen.etag \in 1..claims
                      /\ req'[p].seen.state # "creating" => req'[p].seen.etag = 0
                      /\ marker.state = "creating" /\ req'[p].seen.etag = marker.etag
                           => req'[p].seen = marker
    BY DEF IInv, EtagInv
  <2>1. \/ \E o \in Reqs : req'[p].seen = req[o].seen
        \/ req'[p].seen = marker
        \/ req'[p].seen = NoMarker
    BY <1>1
  <2>2. claims \in Nat
    BY DEF IInv, TypeOK
  <2> QED
    BY <2>1, <2>2, Values DEF IInv, EtagInv
<1>5. SeenInv'
  BY <1>1 DEF IInv, SeenInv
<1>6. ListInv'
  BY <1>1 DEF IInv, ListInv
<1> QED
  BY <1>2, <1>3, <1>4, <1>5, <1>6 DEF IInv

(* A request that gives up.                                                *)
LEMMA EndStep ==
  ASSUME IInv, NEW r \in Reqs, End(r), UNCHANGED <<now, marker, claims, admitted, cleanups>>,
         sent' \in Nat, session' \in {"none", "open", "aborted", "complete"},
         stored' \in [Parts -> Nat], tracked' \in [Parts -> Nat], object' \in 0..MaxBytes
  PROVE  IInv'
<1>1. req' = [req EXCEPT ![r] = Idle]
  BY DEF End
<1>2. admitted' \in Nat /\ admitted' <= admitted + (IF req[r].pc = "create" THEN 1 ELSE 0)
  BY DEF IInv, TypeOK
<1> QED
  BY <1>1, <1>2, Values, QuietStep

(* A request that moves on with what it has.                               *)
LEMMA ToStep ==
  ASSUME IInv, NEW r \in Reqs, NEW pc \in Pcs, To(r, pc),
         UNCHANGED <<now, marker, claims, cleanups>>, sent' \in Nat, admitted' \in Nat,
         admitted' <= admitted + (IF req[r].pc = "create" THEN 1 ELSE 0),
         session' \in {"none", "open", "aborted", "complete"},
         stored' \in [Parts -> Nat], tracked' \in [Parts -> Nat], object' \in 0..MaxBytes,
         pc # "create",
         pc \in {"bind", "abandon", "terminate"} => req[r].seen.state = "creating",
         pc = "reserve" => req[r].seen.state = "multipart",
         pc = "complete" => Total(SizesOf(req[r].list, req[r].list)) <= MaxBytes
  PROVE  IInv'
<1> DEFINE q == [req[r] EXCEPT !.pc = pc]
<1>1. q \in Req /\ q.pc = pc /\ q.seen = req[r].seen /\ q.list = req[r].list
  BY DEF IInv, TypeOK, Req
<1>2. req' = [req EXCEPT ![r] = q]
  BY DEF To
<1> HIDE DEF q
<1>3. q.seen \in {req[r].seen, NoMarker, marker}
  BY <1>1
<1>4. /\ q.pc # "create"
      /\ q.pc \in {"bind", "abandon", "terminate"} => q.seen.state = "creating"
      /\ q.pc = "reserve" => q.seen.state = "multipart"
      /\ q.pc = "complete" => Total(SizesOf(q.list, q.list)) <= MaxBytes
  BY <1>1
<1> QED
  BY <1>1, <1>2, <1>3, <1>4, QuietStep

(* A write of the marker without a body: by a request that compared it, or *)
(* by the single upload that found none and is let through.                *)
LEMMA PutStep ==
  ASSUME IInv, NEW r \in Reqs, NEW q \in Req, req' = [req EXCEPT ![r] = q],
         NEW state \in States \ {"creating"}, NEW reserved \in 0..MaxBytes,
         Put(state, reserved), admitted' \in Nat, admitted' <= admitted + (1 - Held),
         UNCHANGED <<now, claims, session, stored, tracked, object, cleanups, sent>>,
         q.pc \notin {"create", "reserve", "complete"}, q.seen \in {req[r].seen, NoMarker},
         q.pc \in {"bind", "abandon", "terminate"} => q.seen.state = "creating"
  PROVE  IInv'
<1>1. req'[r] = q /\ \A p \in Reqs : p # r => req'[p] = req[p]
  BY DEF IInv, TypeOK
<1>2. marker' \in Marker /\ marker' # NoMarker /\ marker'.state = state /\ marker'.etag = 0
  BY PutShape
<1>3. TypeOK'
  BY <1>2 DEF IInv, TypeOK
<1>4. ClaimInv'
  <2>1. /\ IsFiniteSet(Creating') /\ Cardinality(Creating) \in Nat
        /\ Cardinality(Creating') =
             Cardinality(Creating) - (IF req[r].pc = "create" THEN 1 ELSE 0)
    BY CreatingShrinks
  <2>2. admitted' + Cardinality(Creating') <= cleanups' + Held'
    <3>1. Held \in {0, 1} /\ Held' = 1 /\ cleanups \in Nat /\ admitted \in Nat
      BY <1>2 DEF Held, IInv, TypeOK
    <3>2. admitted + Cardinality(Creating) <= cleanups + Held
      BY DEF IInv, ClaimInv
    <3> QED
      BY <2>1, <3>1, <3>2
  <2> QED
    BY <2>1, <2>2 DEF IInv, ClaimInv, Valid
<1>5. EtagInv'
  <2>1. ASSUME NEW p \in Reqs
        PROVE  /\ req'[p].seen.state = "creating" => req'[p].seen.etag \in 1..claims
               /\ req'[p].seen.state # "creating" => req'[p].seen.etag = 0
    <3>1. (\E o \in Reqs : req'[p].seen = req[o].seen) \/ req'[p].seen = NoMarker
      BY <1>1
    <3> QED
      BY <3>1, Values DEF IInv, EtagInv
  <2> QED
    BY <1>2, <2>1 DEF EtagInv
<1>6. SeenInv'
  BY <1>1 DEF IInv, SeenInv
<1>7. ListInv'
  BY <1>1 DEF IInv, ListInv
<1> QED
  BY <1>3, <1>4, <1>5, <1>6, <1>7 DEF IInv

(* consumeSignedUploadGrant.                                               *)
LEMMA ConsumeStep ==
  ASSUME IInv, NEW r \in Reqs, Consume(r)
  PROVE  IInv'
<1>1. /\ req[r] \in Req /\ req[r].pc = "consume"
      /\ session \in {"none", "open", "aborted", "complete"} /\ object \in 0..MaxBytes
      /\ stored \in [Parts -> Nat] /\ tracked \in [Parts -> Nat] /\ sent \in Nat
      /\ admitted \in Nat
  BY ObjectRange DEF Consume, IInv, TypeOK
<1>2. UNCHANGED <<now, claims, session, stored, object, tracked, cleanups, sent>>
  BY DEF Consume, r2
<1>3. CASE Absent
  <2> DEFINE q == [req[r] EXCEPT !.pc = "body"]
  <2>1. Put("used", 0) /\ req' = [req EXCEPT ![r] = q] /\ admitted' = admitted + 1
    BY <1>3 DEF Consume, To
  <2>2. q \in Req /\ q.pc = "body" /\ q.seen = req[r].seen
    BY <1>1 DEF Req, Pcs
  <2>3. Held = 0 /\ 0 \in 0..MaxBytes /\ "used" \in States \ {"creating"}
    BY <1>3, GrantAssumption DEF Absent, Held, States
  <2>4. admitted' \in Nat /\ admitted' <= admitted + (1 - Held)
    BY <1>1, <2>1, <2>3
  <2>5. /\ q.pc \notin {"create", "reserve", "complete", "bind", "abandon", "terminate"}
        /\ q.seen \in {req[r].seen, NoMarker}
    BY <2>2
  <2> HIDE DEF q
  <2> QED
    BY <1>2, <2>1, <2>2, <2>3, <2>4, <2>5, PutStep
<1>4. CASE ~Absent
  BY <1>1, <1>2, <1>4, EndStep DEF Consume
<1> QED
  BY <1>3, <1>4

(* claimSignedMultipartUploadGrant.                                        *)
LEMMA ClaimStep ==
  ASSUME IInv, NEW r \in Reqs, ClaimGrant(r)
  PROVE  IInv'
<1>1. /\ req[r] \in Req /\ req[r].pc = "claim"
      /\ session \in {"none", "open", "aborted", "complete"} /\ object \in 0..MaxBytes
      /\ stored \in [Parts -> Nat] /\ tracked \in [Parts -> Nat] /\ sent \in Nat
      /\ claims \in Nat /\ admitted \in Nat /\ cleanups \in Nat
  BY ObjectRange DEF ClaimGrant, IInv, TypeOK
<1>2. UNCHANGED <<now, session, stored, object, tracked, admitted, cleanups, sent>>
  BY DEF ClaimGrant, r2, hist
<1>3. CASE Absent
  <2>1. /\ marker = NoMarker /\ claims' = claims + 1
        /\ marker' = [state |-> "creating", etag |-> claims + 1, reserved |-> 0]
        /\ req' = [req EXCEPT ![r].pc = "create", ![r].seen = marker']
    BY <1>3 DEF ClaimGrant, ClaimEtag, Absent
  <2>2. /\ marker' \in Marker /\ marker' # NoMarker /\ marker'.state = "creating"
        /\ marker'.etag = claims + 1
    BY <1>1, <2>1, GrantAssumption, Values DEF Marker, States
  <2>3. /\ req'[r].pc = "create" /\ req'[r].seen = marker'
        /\ \A p \in Reqs : p # r => req'[p] = req[p]
        /\ req' \in [Reqs -> Req]
    <3>1. req \in [Reqs -> Req]
      BY DEF IInv, TypeOK
    <3>2. [req[r] EXCEPT !.pc = "create", !.seen = marker'] \in Req
      BY <1>1, <2>2 DEF Req, Pcs
    <3> QED
      BY <1>1, <2>1, <3>1, <3>2 DEF Req
  <2>4. TypeOK'
    BY <1>1, <1>2, <2>1, <2>2, <2>3 DEF IInv, TypeOK
  <2>5. ClaimInv'
    <3>1. Creating' = Creating \cup {r} /\ r \notin Creating
      BY <1>1, <2>3 DEF Creating
    <3>2. IsFiniteSet(Creating) /\ Cardinality(Creating) \in Nat
      BY FS_CardinalityType DEF IInv, ClaimInv
    <3>3. IsFiniteSet(Creating') /\ Cardinality(Creating') = Cardinality(Creating) + 1
      BY <3>1, <3>2, FS_AddElement
    <3>4. admitted' + Cardinality(Creating') <= cleanups' + Held'
      <4>1. Held = 0 /\ Held' = 1
        BY <2>1, <2>2 DEF Held
      <4>2. admitted + Cardinality(Creating) <= cleanups + Held
        BY DEF IInv, ClaimInv
      <4> QED
        BY <1>1, <1>2, <3>2, <3>3, <4>1, <4>2
    <3> QED
      BY <1>2, <3>3, <3>4 DEF IInv, ClaimInv, Valid
  <2>6. EtagInv'
    <3>1. ASSUME NEW p \in Reqs, p # r
          PROVE  /\ req'[p].seen.state = "creating" => req'[p].seen.etag \in 1..claims
                 /\ req'[p].seen.state # "creating" => req'[p].seen.etag = 0
      BY <2>3, <3>1 DEF IInv, EtagInv
    <3>2. \A p \in Reqs : p # r => req'[p].seen.etag \in 0..claims
      BY <1>1, <3>1
    <3> QED
      BY <1>1, <2>1, <2>2, <2>3, <3>1, <3>2 DEF EtagInv
  <2>7. SeenInv' /\ ListInv'
    BY <1>2, <2>2, <2>3 DEF IInv, SeenInv, ListInv
  <2> QED
    BY <2>4, <2>5, <2>6, <2>7 DEF IInv
<1>4. CASE ~Absent
  BY <1>1, <1>2, <1>4, EndStep DEF ClaimGrant
<1> QED
  BY <1>3, <1>4

(* The session that the claim allows.                                      *)
LEMMA CreateStep ==
  ASSUME IInv, NEW r \in Reqs, CreateSession(r)
  PROVE  IInv'
<1>1. /\ req[r].pc = "create" /\ req[r].seen.state = "creating"
      /\ session \in {"none", "open", "aborted", "complete"} /\ object \in 0..MaxBytes
      /\ stored \in [Parts -> Nat] /\ tracked \in [Parts -> Nat] /\ sent \in Nat
      /\ admitted \in Nat
  BY ObjectRange DEF CreateSession, IInv, TypeOK, SeenInv
<1>2. /\ UNCHANGED <<now, marker, claims, stored, tracked, object, cleanups, sent>>
      /\ admitted' \in {admitted, admitted + 1}
      /\ session' \in {session, "open"}
  BY DEF CreateSession
<1>3. PICK pc \in {"bind", "abandon", "terminate"} : To(r, pc)
  BY DEF CreateSession
<1>4. admitted' \in Nat /\ admitted' <= admitted + (IF req[r].pc = "create" THEN 1 ELSE 0)
  BY <1>1, <1>2
<1>5. pc \in Pcs /\ pc \notin {"create", "reserve", "complete"}
  BY DEF Pcs
<1> QED
  BY <1>1, <1>2, <1>3, <1>4, <1>5, ToStep

(* A request that finds its marker unchanged finds one.                    *)
LEMMA UnchangedIsHeld ==
  ASSUME NEW m, Unchanged(m)
  PROVE  Held = 1
BY Values DEF Unchanged, Held

(* bindSignedMultipartUploadGrant.                                         *)
LEMMA BindStep ==
  ASSUME IInv, NEW r \in Reqs, Bind(r)
  PROVE  IInv'
<1>1. /\ req[r].pc = "bind" /\ req[r] \in Req /\ req[r].seen.state = "creating"
      /\ session \in {"none", "open", "aborted", "complete"} /\ object \in 0..MaxBytes
      /\ stored \in [Parts -> Nat] /\ tracked \in [Parts -> Nat] /\ sent \in Nat
      /\ admitted \in Nat
  BY ObjectRange DEF Bind, IInv, TypeOK, SeenInv
<1>2. UNCHANGED <<now, claims, session, stored, object, tracked, admitted, cleanups, sent>>
  BY DEF Bind, r2, hist
<1>3. CASE UNCHANGED marker /\ To(r, "abandon")
  BY <1>1, <1>2, <1>3, ToStep DEF Pcs
<1>4. CASE Unchanged(req[r].seen) /\ Put("multipart", 0)
  <2>1. Held = 1 /\ 0 \in 0..MaxBytes /\ "multipart" \in States \ {"creating"}
    BY <1>4, UnchangedIsHeld, GrantAssumption DEF States
  <2>2. PICK q \in {Idle, [req[r] EXCEPT !.pc = "abandon"]} : req' = [req EXCEPT ![r] = q]
    BY <1>3, <1>4 DEF Bind, End, To
  <2>3. /\ q \in Req /\ q.pc \in {"idle", "abandon"} /\ q.seen \in {req[r].seen, NoMarker}
        /\ q.pc = "abandon" => q.seen.state = "creating"
    BY <1>1, <2>2, Values DEF Req, Pcs
  <2>4. admitted' \in Nat /\ admitted' <= admitted + (1 - Held)
    BY <1>2, AdmitsNothing
  <2> QED
    BY <1>2, <1>4, <2>1, <2>2, <2>3, <2>4, PutStep
<1> QED
  BY <1>3, <1>4 DEF Bind

(* terminateClaimedSignedUploadGrant.                                      *)
LEMMA TerminateStep ==
  ASSUME IInv, NEW r \in Reqs, Terminate(r)
  PROVE  IInv'
<1>1. /\ req[r].pc = "terminate" /\ End(r)
      /\ session \in {"none", "open", "aborted", "complete"} /\ object \in 0..MaxBytes
      /\ stored \in [Parts -> Nat] /\ tracked \in [Parts -> Nat] /\ sent \in Nat
      /\ admitted \in Nat
  BY ObjectRange DEF Terminate, IInv, TypeOK
<1>2. UNCHANGED <<now, claims, session, stored, object, tracked, admitted, cleanups, sent>>
  BY DEF Terminate, r2, hist
<1>3. CASE UNCHANGED marker
  BY <1>1, <1>2, <1>3, EndStep
<1>4. CASE Unchanged(req[r].seen) /\ Put("failed", 0)
  <2>1. Held = 1 /\ 0 \in 0..MaxBytes /\ "failed" \in States \ {"creating"}
    BY <1>4, UnchangedIsHeld, GrantAssumption DEF States
  <2>2. req' = [req EXCEPT ![r] = Idle]
    BY <1>1 DEF End
  <2>3. admitted' \in Nat /\ admitted' <= admitted + (1 - Held)
    BY <1>2, AdmitsNothing
  <2> QED
    BY <1>2, <1>4, <2>1, <2>2, <2>3, Values, PutStep
<1> QED
  BY <1>3, <1>4 DEF Terminate

(* reserveSignedMultipartUploadBytes.                                      *)
LEMMA ReserveStep ==
  ASSUME IInv, NEW r \in Reqs, Reserve(r)
  PROVE  IInv'
<1> DEFINE m == req[r].seen
           s == req[r].size
<1>1. /\ req[r].pc = "reserve" /\ req[r] \in Req /\ s \in Nat
      /\ session \in {"none", "open", "aborted", "complete"} /\ object \in 0..MaxBytes
      /\ stored \in [Parts -> Nat] /\ tracked \in [Parts -> Nat] /\ sent \in Nat
      /\ admitted \in Nat
  <2>1. s \in Nat /\ req[r] \in Req
    BY GrantAssumption DEF IInv, TypeOK, Req
  <2> QED
    BY <2>1, ObjectRange DEF Reserve, IInv, TypeOK
<1>2. UNCHANGED <<now, claims, session, stored, object, tracked, admitted, cleanups, sent>>
  BY DEF Reserve, r2, hist
<1>3. m \in Marker
  <2>1. m.state = "multipart"
    BY <1>1 DEF IInv, SeenInv
  <2> QED
    BY <1>1, <2>1, Values DEF Req
<1>4. m.reserved \in 0..MaxBytes
  BY <1>3, Values
<1>5. CASE ~Unchanged(m)
  <2>1. UNCHANGED marker /\ To(r, "read")
    BY <1>5 DEF Reserve
  <2> QED
    BY <1>1, <1>2, <2>1, ToStep DEF Pcs
<1>6. ASSUME Unchanged(m),
             NEW pc \in {"send", "over"}, To(r, pc),
             NEW state \in {"multipart", "failed"}, NEW reserved \in 0..MaxBytes,
             Put(state, reserved)
      PROVE  IInv'
  <2> DEFINE q == [req[r] EXCEPT !.pc = pc]
  <2>1. req' = [req EXCEPT ![r] = q] /\ q \in Req /\ q.pc = pc /\ q.seen = req[r].seen
    BY <1>1, <1>6 DEF To, Req, Pcs
  <2>2. Held = 1 /\ state \in States \ {"creating"}
    BY <1>6, UnchangedIsHeld DEF States
  <2>3. /\ q.pc \notin {"create", "reserve", "complete", "bind", "abandon", "terminate"}
        /\ q.seen \in {req[r].seen, NoMarker}
    BY <2>1
  <2>4. admitted' \in Nat /\ admitted' <= admitted + (1 - Held)
    BY <1>2, AdmitsNothing
  <2> HIDE DEF q
  <2> QED
    BY <1>2, <1>6, <2>1, <2>2, <2>3, <2>4, PutStep
<1>7. CASE Unchanged(m) /\ Fits(m, s)
  <2>1. m.reserved + s \in 0..MaxBytes
    BY <1>1, <1>4, <1>7, GrantAssumption DEF Fits
  <2>2. Put("multipart", m.reserved + s) /\ To(r, "send")
    BY <1>7 DEF Reserve
  <2> HIDE DEF m, s
  <2> QED
    BY <1>6, <1>7, <2>1, <2>2
<1>8. CASE Unchanged(m) /\ ~Fits(m, s)
  <2>1. Put("failed", m.reserved) /\ To(r, "over")
    BY <1>8 DEF Reserve
  <2> HIDE DEF m, s
  <2> QED
    BY <1>4, <1>6, <1>8, <2>1
<1> QED
  BY <1>5, <1>7, <1>8

(* The daily cleanup takes expired markers only.                           *)
LEMMA CleanupStep ==
  ASSUME IInv, Cleanup
  PROVE  IInv'
<1>1. marker # NoMarker /\ marker' = NoMarker /\ ~Valid /\ cleanups' = cleanups + 1
  BY GrantAssumption DEF Cleanup, Valid, IInv, TypeOK
<1>2. UNCHANGED <<now, claims, session, stored, object, tracked, req, admitted, sent>>
  BY DEF Cleanup, r2
<1>3. TypeOK'
  BY <1>1, <1>2 DEF IInv, TypeOK
<1>4. ClaimInv'
  <2>1. Held = 1 /\ Held' = 0 /\ Creating' = Creating /\ ~Valid'
    BY <1>1, <1>2 DEF Held, Creating, Valid
  <2>2. cleanups \in Nat
    BY DEF IInv, TypeOK
  <2> QED
    BY <1>1, <1>2, <2>1, <2>2 DEF IInv, ClaimInv
<1>5. EtagInv' /\ SeenInv' /\ ListInv'
  BY <1>1, <1>2, Values DEF IInv, EtagInv, SeenInv, ListInv
<1> QED
  BY <1>3, <1>4, <1>5 DEF IInv

(* Time only makes the token invalid.                                      *)
LEMMA TickStep ==
  ASSUME IInv, Tick
  PROVE  IInv'
<1>1. now' \in 0..MaxTime /\ (Valid' => Valid)
  BY GrantAssumption DEF Tick, Valid, IInv, TypeOK
<1>2. UNCHANGED <<marker, claims, session, stored, object, tracked, req, admitted, cleanups, sent>>
  BY DEF Tick, r2, hist
<1>3. TypeOK'
  BY <1>1, <1>2 DEF IInv, TypeOK
<1>4. ClaimInv'
  <2>1. Creating' = Creating /\ Held' = Held
    BY <1>2 DEF Creating, Held
  <2> QED
    BY <1>1, <1>2, <2>1 DEF IInv, ClaimInv
<1>5. EtagInv' /\ SeenInv' /\ ListInv'
  BY <1>2 DEF IInv, EtagInv, SeenInv, ListInv
<1> QED
  BY <1>3, <1>4, <1>5 DEF IInv

(* A continuation starts anew.                                             *)
LEMMA ContinueStep ==
  ASSUME IInv, NEW r \in Reqs, NEW q \in Req, q.pc \in {"read", "abort", "check"},
         q.seen = NoMarker, Continue(r, q)
  PROVE  IInv'
<1>1. /\ req' = [req EXCEPT ![r] = q]
      /\ UNCHANGED <<now, marker, claims, session, stored, object, tracked, admitted, cleanups, sent>>
  BY DEF Continue, r2, hist
<1>2. /\ session \in {"none", "open", "aborted", "complete"} /\ object \in 0..MaxBytes
      /\ stored \in [Parts -> Nat] /\ tracked \in [Parts -> Nat]
      /\ admitted \in Nat /\ sent \in Nat
  BY ObjectRange DEF IInv, TypeOK
<1> QED
  BY <1>1, <1>2, AdmitsNothing, QuietStep

(* What a client asks next: to send a part, to abort or to complete.        *)
LEMMA ContinuationsStep ==
  ASSUME IInv, NEW r \in Reqs, BeginPart(r) \/ BeginAbort(r) \/ BeginComplete(r)
  PROVE  IInv'
<1>1. Sizes \cup {0} \subseteq Nat
  BY GrantAssumption
<1>2. CASE BeginPart(r)
  <2>1. PICK p \in Parts, s \in Sizes :
          Continue(r, [Idle EXCEPT !.pc = "read", !.part = p, !.size = s])
    BY <1>2 DEF BeginPart
  <2> DEFINE q == [Idle EXCEPT !.pc = "read", !.part = p, !.size = s]
  <2>2. q \in Req /\ q.pc = "read" /\ q.seen = NoMarker
    BY Values DEF Req, Pcs
  <2>3. Continue(r, q)
    BY <2>1
  <2> HIDE DEF q
  <2> QED
    BY <2>2, <2>3, ContinueStep
<1>3. CASE BeginAbort(r)
  <2> DEFINE q == [Idle EXCEPT !.pc = "abort"]
  <2>1. Continue(r, q)
    BY <1>3 DEF BeginAbort
  <2>2. q \in Req /\ q.pc = "abort" /\ q.seen = NoMarker
    BY Values DEF Req, Pcs
  <2> HIDE DEF q
  <2> QED
    BY <2>1, <2>2, ContinueStep
<1>4. CASE BeginComplete(r)
  <2>1. PICK l \in [Parts -> Sizes \cup {0}] : Continue(r, [Idle EXCEPT !.pc = "check", !.list = l])
    BY <1>4 DEF BeginComplete
  <2> DEFINE q == [Idle EXCEPT !.pc = "check", !.list = l]
  <2>2. q \in Req /\ q.pc = "check" /\ q.seen = NoMarker
    BY <1>1, Values DEF Req, Pcs
  <2>3. Continue(r, q)
    BY <2>1
  <2> HIDE DEF q
  <2> QED
    BY <2>2, <2>3, ContinueStep
<1> QED
  BY <1>2, <1>3, <1>4

(* Sums of the same sizes are the same: what is checked is what is stored. *)
LEMMA SameSizes ==
  ASSUME NEW f, NEW l, \A p \in Listed(l) : f[p] = l[p]
  PROVE  SizesOf(f, l) = SizesOf(l, l)
BY DEF SizesOf

(* The sizes of a list add up to a number.                                 *)
LEMMA SizesAddUp ==
  ASSUME NEW f \in [Parts -> Nat], NEW l \in [Parts -> Nat]
  PROVE  Total(SizesOf(f, l)) \in Nat
<1>1. Listed(l) \in SUBSET Parts /\ IsFiniteSet(Listed(l))
  BY GrantAssumption, FS_Subset DEF Listed
<1>2. SizesOf(f, l) \in [Listed(l) -> Nat]
  BY <1>1 DEF SizesOf
<1> QED
  BY <1>1, <1>2, TotalIsNat

(* The other steps of the handlers.                                        *)
LEMMA HandlerStep ==
  ASSUME IInv, NEW r \in Reqs,
         \/ BeginUpload(r) \/ WriteBody(r)
         \/ BeginCreate(r) \/ Abandon(r) \/ ReadReserved(r) \/ SendPart(r) \/ ReadTracked(r)
         \/ Track(r) \/ AbortSession(r) \/ CheckSizes(r) \/ Complete(r) \/ Die(r)
  PROVE  IInv'
<1>1. /\ req[r] \in Req /\ NoParts \in [Parts -> Nat]
      /\ session \in {"none", "open", "aborted", "complete"} /\ object \in 0..MaxBytes
      /\ stored \in [Parts -> Nat] /\ tracked \in [Parts -> Nat]
      /\ req[r].list \in [Parts -> Nat] /\ req[r].size \in Nat
  <2>1. req[r] \in Req /\ req[r].size \in Nat
    BY GrantAssumption DEF IInv, TypeOK, Req
  <2>2. req[r].list \in [Parts -> Nat]
    BY <2>1 DEF Req
  <2> QED
    BY <2>1, <2>2, Values, ObjectRange DEF IInv, TypeOK
<1>2. UNCHANGED <<now, marker, claims, admitted, cleanups>> /\ sent' \in Nat /\ admitted \in Nat
  <2>1. UNCHANGED <<now, marker, claims, admitted, cleanups>> /\ (sent' = sent \/ sent' = sent + req[r].size)
    BY DEF BeginUpload, WriteBody, BeginCreate, Abandon, ReadReserved, SendPart, ReadTracked,
           Track, AbortSession, CheckSizes, Complete, Die, hist
  <2>2. sent \in Nat /\ admitted \in Nat /\ admitted' \in Nat
    BY <2>1 DEF IInv, TypeOK
  <2> QED
    BY <1>1, <2>1, <2>2
<1>3. CASE BeginCreate(r) \/ BeginUpload(r)
  <2>1. PICK pc \in {"claim", "consume"} : To(r, pc)
    BY <1>3 DEF BeginCreate, BeginUpload
  <2>2. pc \in Pcs /\ UNCHANGED <<session, stored, object, tracked>>
    BY <1>3 DEF BeginCreate, BeginUpload, Pcs, r2
  <2> QED
    BY <1>1, <1>2, <2>1, <2>2, ToStep
<1>13. CASE WriteBody(r)
  <2>1. object' \in 0..MaxBytes
    BY <1>1, <1>13, GrantAssumption DEF WriteBody, BodyFits
  <2> QED
    BY <1>1, <1>2, <1>13, <2>1, EndStep DEF WriteBody
<1>4. CASE Abandon(r)
  <2>1. req[r].seen.state = "creating"
    BY <1>4 DEF Abandon, IInv, SeenInv
  <2>2. session' \in {"none", "open", "aborted", "complete"}
    BY <1>1, <1>4 DEF Abandon
  <2> QED
    BY <1>1, <1>2, <1>4, <2>1, <2>2, ToStep DEF Abandon, Pcs
<1>5. CASE ReadReserved(r)
  <2>1. UNCHANGED <<session, stored, object, tracked>>
    BY <1>5 DEF ReadReserved, r2
  <2>2. CASE End(r)
    BY <1>1, <1>2, <2>1, <2>2, EndStep
  <2>3. CASE /\ marker.state = "multipart"
             /\ req' = [req EXCEPT ![r].pc = "reserve", ![r].seen = marker]
    <3> DEFINE q == [req[r] EXCEPT !.pc = "reserve", !.seen = marker]
    <3>1. req' = [req EXCEPT ![r] = q] /\ q.pc = "reserve" /\ q.seen = marker
      BY <1>1, <2>3 DEF IInv, TypeOK, Req
    <3>2. q \in Req
      BY <1>1 DEF IInv, TypeOK, Req, Pcs
    <3> HIDE DEF q
    <3>3. /\ q.pc # "create" /\ q.seen \in {req[r].seen, NoMarker, marker}
          /\ q.pc \in {"bind", "abandon", "terminate"} => q.seen.state = "creating"
          /\ q.pc = "reserve" => q.seen.state = "multipart"
          /\ q.pc = "complete" => Total(SizesOf(q.list, q.list)) <= MaxBytes
      BY <2>3, <3>1
    <3> QED
      BY <1>1, <1>2, <2>1, <3>1, <3>2, <3>3, AdmitsNothing, QuietStep
  <2> QED
    BY <1>5, <2>2, <2>3 DEF ReadReserved
<1>6. CASE SendPart(r)
  <2>1. stored' \in [Parts -> Nat] /\ UNCHANGED <<session, tracked, object>>
    BY <1>1, <1>6 DEF SendPart
  <2>2. CASE End(r)
    BY <1>1, <1>2, <2>1, <2>2, EndStep
  <2>3. CASE To(r, "track")
    BY <1>1, <1>2, <2>1, <2>3, ToStep DEF Pcs
  <2> QED
    BY <1>6, <2>2, <2>3 DEF SendPart
<1>7. CASE ReadTracked(r)
  <2> DEFINE q == [req[r] EXCEPT !.pc = "store", !.list = tracked]
  <2>1. /\ req' = [req EXCEPT ![r] = q] /\ q \in Req /\ q.pc = "store" /\ q.seen = req[r].seen
        /\ UNCHANGED <<session, stored, object, tracked>>
    BY <1>1, <1>7 DEF ReadTracked, r2, IInv, TypeOK, Req, Pcs
  <2> HIDE DEF q
  <2>2. q.seen \in {req[r].seen, NoMarker, marker}
    BY <2>1
  <2> QED
    BY <1>1, <1>2, <2>1, <2>2, AdmitsNothing, QuietStep
<1>8. CASE Track(r)
  <2>1. End(r) /\ tracked' \in [Parts -> Nat] /\ UNCHANGED <<session, stored, object>>
    BY <1>1, <1>8 DEF Track, r2
  <2> QED
    BY <1>1, <1>2, <2>1, EndStep
<1>9. CASE AbortSession(r)
  <2>1. /\ End(r) /\ tracked' \in [Parts -> Nat] /\ UNCHANGED <<stored, object>>
        /\ session' \in {"none", "open", "aborted", "complete"}
    BY <1>1, <1>9 DEF AbortSession
  <2> QED
    BY <1>1, <1>2, <2>1, EndStep
<1>10. CASE CheckSizes(r)
  <2>1. UNCHANGED <<session, stored, object, tracked>>
    BY <1>10 DEF CheckSizes, r2
  <2>2. CASE End(r)
    BY <1>1, <1>2, <2>1, <2>2, EndStep
  <2>3. CASE /\ IsTracked(req[r].list) /\ Total(SizesOf(tracked, req[r].list)) <= MaxBytes
             /\ To(r, "complete")
    <3>1. SizesOf(tracked, req[r].list) = SizesOf(req[r].list, req[r].list)
      BY <2>3, SameSizes DEF IsTracked
    <3>2. Total(SizesOf(req[r].list, req[r].list)) <= MaxBytes
      BY <2>3, <3>1
    <3> QED
      BY <1>1, <1>2, <2>1, <2>3, <3>2, ToStep DEF Pcs
  <2> QED
    BY <1>10, <2>2, <2>3 DEF CheckSizes
<1>11. CASE Complete(r)
  <2>1. /\ End(r) /\ tracked' \in [Parts -> Nat] /\ stored' = stored
        /\ session' \in {"none", "open", "aborted", "complete"}
    BY <1>1, <1>11 DEF Complete
  <2>2. object' \in 0..MaxBytes
    <3>1. Total(SizesOf(req[r].list, req[r].list)) <= MaxBytes
      BY <1>11 DEF Complete, IInv, ListInv
    <3>4. Total(SizesOf(req[r].list, req[r].list)) \in Nat
      BY <1>1, SizesAddUp
    <3>2. CASE /\ \A p \in Listed(req[r].list) : stored[p] = req[r].list[p]
               /\ object' = Total(SizesOf(stored, req[r].list))
      <4>1. SizesOf(stored, req[r].list) = SizesOf(req[r].list, req[r].list)
        BY <3>2, SameSizes
      <4> QED
        BY <3>1, <3>2, <3>4, <4>1, GrantAssumption
    <3>3. CASE object' = object
      BY <1>1, <3>3
    <3> QED
      BY <1>11, <3>2, <3>3 DEF Complete
  <2> QED
    BY <1>1, <1>2, <2>1, <2>2, EndStep
<1>12. CASE Die(r)
  BY <1>1, <1>2, <1>12, EndStep DEF Die, r2
<1> QED
  BY <1>3, <1>4, <1>5, <1>6, <1>7, <1>8, <1>9, <1>10, <1>11, <1>12, <1>13

-----------------------------------------------------------------------------
(* The invariant *)

(* IInv is inductive.                                                      *)
LEMMA Inductive == IInv /\ [Next]_vars => IInv'
<1> SUFFICES ASSUME IInv, [Next]_vars PROVE IInv'
  OBVIOUS
<1>1. CASE UNCHANGED vars
  <2>1. UNCHANGED <<now, marker, claims, session, stored, tracked, req, object, admitted,
                    cleanups, sent>>
    BY <1>1 DEF vars
  <2>2. TypeOK' /\ SeenInv' /\ ListInv' /\ EtagInv'
    BY <2>1 DEF IInv, TypeOK, SeenInv, ListInv, EtagInv
  <2>3. ClaimInv'
    <3>1. Creating' = Creating /\ Held' = Held /\ Valid' = Valid
      BY <2>1 DEF Creating, Held, Valid
    <3> QED
      BY <2>1, <3>1 DEF IInv, ClaimInv
  <2> QED
    BY <2>2, <2>3 DEF IInv
<1> QED
  BY <1>1, ConsumeStep, ClaimStep, CreateStep, BindStep, TerminateStep, ReserveStep,
     ContinuationsStep, HandlerStep, CleanupStep, TickStep DEF Next

(* It holds in every state a grant can be in.                              *)
LEMMA Invariance == Spec => []IInv
<1>1. Init => IInv
  BY InitHolds
<1>2. IInv /\ [Next]_vars => IInv'
  BY Inductive
<1> QED
  BY <1>1, <1>2, PTL DEF Spec

-----------------------------------------------------------------------------
(* The theorems *)

(* Every variable keeps its type: a marker never counts more than           *)
(* maxFileSize as reserved, which the code would report as an invalid       *)
(* reservation state.                                                       *)
THEOREM GrantTypes == Spec => []TypeOK
<1>1. IInv => TypeOK
  BY DEF IInv
<1> QED
  BY <1>1, Invariance, PTL

(* What the invariant says of the uploads let through.                      *)
LEMMA Admitted ==
  ASSUME IInv
  PROVE  admitted <= cleanups + 1 /\ (Valid => admitted <= 1)
<1>1. Cardinality(Creating) \in Nat
  BY FS_CardinalityType DEF IInv, ClaimInv
<1>2. Held \in {0, 1} /\ admitted \in Nat /\ cleanups \in Nat
  BY DEF Held, IInv, TypeOK
<1> QED
  BY <1>1, <1>2 DEF IInv, ClaimInv

(* Every marker lets at most one upload through, however the requests race: *)
(* the puts of consumeSignedUploadGrant and claimSignedMultipartUploadGrant *)
(* exclude each other, and a second marker comes only after the cleanup.    *)
THEOREM OneUploadPerMarker == Spec => []AtMostOneUpload
<1>1. IInv => AtMostOneUpload
  BY Admitted DEF AtMostOneUpload, IInv, TypeOK
<1> QED
  BY <1>1, Invariance, PTL

(* So a grant that has not expired has let one upload through at most: the  *)
(* cleanup deletes the markers of expired grants only, and a second upload  *)
(* takes a request that passed assertUsableGrant before the expiry.         *)
THEOREM ValidGrantsAreUsedOnce == Spec => [](Valid => admitted <= 1)
<1>1. IInv => (Valid => admitted <= 1)
  BY Admitted
<1> QED
  BY <1>1, Invariance, PTL

(* What a grant leaves behind is within maxFileSize: a body is measured     *)
(* before it is written, and completeMultipartUpload puts together what was *)
(* measured, though the sizes come from a list in KV that parts race to     *)
(* write.                                                                   *)
THEOREM ObjectsFit == Spec => []ObjectFits
<1>1. IInv => ObjectFits
  BY DEF IInv, ListInv, ObjectFits
<1> QED
  BY <1>1, Invariance, PTL

(* A write that compares ETags changes a claim only if it is that of the    *)
(* request that made the claim.                                             *)
LEMMA OnlyItsOwner ==
  ASSUME IInv, NEW r \in Reqs, marker.state = "creating", Unchanged(req[r].seen)
  PROVE  req[r].seen = marker /\ req[r].pc # "reserve"
<1>1. req[r].seen = marker
  BY DEF IInv, EtagInv, Unchanged
<1> QED
  BY <1>1 DEF IInv, SeenInv

(* A claim is bound or failed by the request that made it or deleted by the *)
(* cleanup: reservations under way and other claims leave it alone.         *)
THEOREM ClaimsAreKept == Spec => ClaimIsKept
<1>1. IInv /\ [Next]_vars =>
        [marker.state = "creating" =>
           \/ marker' \in {marker, NoMarker}
           \/ \E r \in Reqs : req[r].seen = marker /\ req[r].pc \in {"bind", "terminate"}]_vars
  <2> SUFFICES ASSUME IInv, Next, marker.state = "creating",
                      marker' \notin {marker, NoMarker}
               PROVE  \E r \in Reqs : req[r].seen = marker /\ req[r].pc \in {"bind", "terminate"}
    OBVIOUS
  <2>1. marker # NoMarker
    BY Values
  <2>2. ASSUME NEW r \in Reqs, Bind(r) \/ Terminate(r) \/ Reserve(r)
        PROVE  req[r].seen = marker /\ req[r].pc \in {"bind", "terminate"}
    <3>1. req[r].pc \in {"bind", "terminate", "reserve"}
      BY <2>2 DEF Bind, Terminate, Reserve
    <3>2. Unchanged(req[r].seen)
      BY <2>2 DEF Bind, Terminate, Reserve
    <3> QED
      BY <3>1, <3>2, OnlyItsOwner
  <2>3. ASSUME NEW r \in Reqs, Consume(r) \/ ClaimGrant(r) PROVE FALSE
    BY <2>1, <2>3 DEF Consume, ClaimGrant, Absent
  <2>4. ASSUME NEW r \in Reqs,
               \/ BeginUpload(r) \/ WriteBody(r) \/ BeginCreate(r) \/ CreateSession(r)
               \/ Abandon(r) \/ BeginPart(r) \/ ReadReserved(r) \/ SendPart(r)
               \/ ReadTracked(r) \/ Track(r) \/ BeginAbort(r) \/ AbortSession(r)
               \/ BeginComplete(r) \/ CheckSizes(r) \/ Complete(r) \/ Die(r)
        PROVE  FALSE
    BY <2>4 DEF BeginUpload, WriteBody, BeginCreate, CreateSession, Abandon, BeginPart,
                ReadReserved, SendPart, ReadTracked, Track, BeginAbort, AbortSession,
                BeginComplete, CheckSizes, Complete, Die, Continue
  <2>5. ~Cleanup /\ ~Tick
    BY DEF Cleanup, Tick
  <2> QED
    BY <2>2, <2>3, <2>4, <2>5 DEF Next
<1> QED
  BY <1>1, Invariance, PTL DEF Spec, ClaimIsKept
=============================================================================
