----------------------------- MODULE PortalProofs -----------------------------
(* Proofs about Portal for any slots, mixes and times. *)
EXTENDS PortalProps, TLAPS

-----------------------------------------------------------------------------
(* Requests *)

\* A call is not older than its request, and the timeout of a verdict is kept.
Counted(q) == q.call <= q.age /\ (q.step \in {"asked", "answer"} => q.call <= StateTimeout)

Proper(q) == q \in Request /\ Counted(q)

LEMMA Times ==
  /\ {Idle, CheckEvery, TokenLife, StateTimeout, CacheTTL, Patience} \subseteq Nat \ {0}
  /\ Absolute \in Nat /\ NoEntry \in Nat \ {0} /\ Noticed \in Nat
  /\ NoEntry = CacheTTL /\ Noticed = StateTimeout + CacheTTL
BY TimesAssumption DEF NoEntry, Noticed

LEMMA AtMostType ==
  ASSUME NEW n \in Nat, NEW cap \in Nat
  PROVE  AtMost(n, cap) \in 0..cap /\ AtMost(n, cap) <= n
         /\ (n <= cap => AtMost(n, cap) = n) /\ (n >= cap => AtMost(n, cap) = cap)
BY DEF AtMost

LEMMA NoRequestType ==
  /\ Proper(NoRequest) /\ NoRequest.step = "free" /\ NoRequest.phase = 0
  /\ NoRequest.call = 0 /\ NoRequest.age = 0 /\ NoRequest.rights = FALSE
  /\ NoRequest.late = {} /\ NoRequest.due = FALSE
BY TimesAssumption DEF NoRequest, Request, Steps, Happens, Proper, Counted

LEMMA RefusedType ==
  ASSUME NEW q \in Request
  PROVE  /\ Proper(Refused(q)) /\ Refused(q).step = "refused" /\ Refused(q).phase = 0
         /\ Refused(q).rights = FALSE /\ Refused(q).late = {}
BY NoRequestType DEF Refused, Request, Steps, Proper, Counted

LEMMA ServedType ==
  ASSUME NEW q \in Request
  PROVE  /\ Proper(Served(q)) /\ Served(q).step = "served" /\ Served(q).phase = 0
         /\ Served(q).rights = q.rights /\ Served(q).late = q.late
BY NoRequestType DEF Served, Request, Steps, Proper, Counted

LEMMA PrincipalType ==
  ASSUME NEW q \in Request, NEW rights \in BOOLEAN
  PROVE  /\ Proper(Principal(q, rights)) /\ Principal(q, rights).step \in {"served", "handler"}
         /\ Principal(q, rights).phase = 0
         /\ Principal(q, rights).rights = rights /\ Principal(q, rights).late = q.late
<1> DEFINE q2 == [q EXCEPT !.rights = rights]
           q3 == [Served(q2) EXCEPT !.step = "handler"]
<1>1. q2 \in Request /\ q2.rights = rights /\ q2.late = q.late
  BY DEF Request
<1>2. /\ Proper(Served(q2)) /\ Served(q2).step = "served" /\ Served(q2).phase = 0
      /\ Served(q2).rights = rights /\ Served(q2).late = q.late
  BY <1>1, ServedType
<1>3. /\ Proper(q3) /\ q3.step = "handler" /\ q3.phase = 0
      /\ q3.rights = rights /\ q3.late = q.late
  BY <1>2 DEF Request, Steps, Proper, Counted
<1>4. Principal(q, rights) = Served(q2) \/ Principal(q, rights) = q3
  BY DEF Principal
<1> HIDE DEF q2, q3
<1> QED BY <1>2, <1>3, <1>4

LEMMA ArrivingType ==
  ASSUME NEW kind \in Happens \cup {"none"}
  PROVE  /\ Proper(Arriving(kind)) /\ Arriving(kind).phase = 0 /\ Arriving(kind).step = "free"
         /\ Arriving(kind).late = Late /\ Arriving(kind).rights = FALSE
         /\ Arriving(kind).call = 0
         /\ Late \subseteq {"rights", "ended"}
<1>1. Late \subseteq {"rights", "ended"}
  BY DEF Late
<1> QED BY <1>1, NoRequestType DEF Arriving, Request, Proper, Counted

LEMMA BecomesType ==
  ASSUME req \in [Requests -> Request], NEW r \in Requests, NEW q \in Request, Becomes(r, q)
  PROVE  /\ req' \in [Requests -> Request] /\ req'[r] = q
         /\ \A s \in Requests : s # r => req'[s] = req[s]
BY DEF Becomes

LEMMA ToType ==
  ASSUME req \in [Requests -> Request], NEW r \in Requests, NEW step \in Steps, To(r, step)
  PROVE  /\ req' \in [Requests -> Request] /\ Counted(req'[r])
         /\ \A s \in Requests : s # r => req'[s] = req[s]
         /\ req'[r].step = step /\ req'[r].phase = req[r].phase /\ req'[r].call = 0
         /\ req'[r].rights = req[r].rights /\ req'[r].late = req[r].late
         /\ req'[r].due = req[r].due /\ req'[r].kind = req[r].kind
         /\ req'[r].gone = req[r].gone /\ req'[r].alive = req[r].alive
<1> DEFINE q == [req[r] EXCEPT !.step = step, !.call = 0]
<1>1. req[r] \in Request /\ 0 \in 0..Patience
  BY Times
<1>2. q \in Request
  BY <1>1 DEF Request
<1>3. /\ q.step = step /\ q.phase = req[r].phase /\ q.call = 0
      /\ q.rights = req[r].rights /\ q.late = req[r].late /\ q.due = req[r].due
      /\ q.kind = req[r].kind /\ q.gone = req[r].gone /\ q.alive = req[r].alive
  BY <1>1 DEF Request
<1>4. Counted(q)
  <2>1. q.age \in 0..Patience
    BY <1>2 DEF Request
  <2> QED BY <1>3, <2>1, Times DEF Counted
<1>5. Becomes(r, q)
  BY DEF To
<1> HIDE DEF q
<1> QED BY <1>2, <1>3, <1>4, <1>5, BecomesType

-----------------------------------------------------------------------------
(* How a request goes on.  Only the fields the invariants speak of are kept. *)

Typed == TypeOK /\ \A r \in Requests : Counted(req[r])

\* One request moves.
Moves(r) == /\ req' \in [Requests -> Request] /\ Counted(req'[r])
            /\ \A s \in Requests : s # r => req'[s] = req[s]

Keeps(r) == req'[r].late = req[r].late /\ req'[r].rights = req[r].rights

Over(q) == q.step \in {"free", "refused"} /\ q.phase = 0 /\ q.late = {} /\ ~q.rights

\* It arrives now, with the rights the row has or none yet.
Arrived(q) == q.phase = 0 /\ q.late = Late

LEMMA ParamType ==
  ASSUME Typed, NEW r \in Requests
  PROVE  /\ req \in [Requests -> Request] /\ req[r] \in Request /\ Counted(req[r])
         /\ row \in Row /\ platform \in Platform /\ row.rights \in BOOLEAN
         /\ row.revoked \in BOOLEAN /\ platform.rights \in BOOLEAN
         /\ platform.alive \in BOOLEAN /\ req[r].rights \in BOOLEAN
         /\ req[r].call \in Nat /\ req[r].age \in Nat /\ req[r].call <= req[r].age
BY Times DEF Typed, TypeOK, Row, Platform, Request, Counted

LEMMA Ending ==
  ASSUME Typed, NEW r \in Requests, NEW q \in Request,
         Becomes(r, Refused(q)) \/ Becomes(r, NoRequest)
  PROVE  Moves(r) /\ Over(req'[r])
<1>1. /\ Proper(Refused(q)) /\ Over(Refused(q))
      /\ Proper(NoRequest) /\ Over(NoRequest)
  BY RefusedType, NoRequestType DEF Over
<1> QED BY <1>1, ParamType, BecomesType DEF Moves, Proper

LEMMA Serving ==
  ASSUME Typed, NEW r \in Requests, Becomes(r, Served(req[r]))
  PROVE  Moves(r) /\ Keeps(r) /\ req'[r].step = "served" /\ req'[r].phase = 0
BY ParamType, ServedType, BecomesType DEF Moves, Keeps, Proper

LEMMA Passing ==
  ASSUME Typed, NEW r \in Requests, NEW rights \in BOOLEAN, Becomes(r, Principal(req[r], rights))
  PROVE  /\ Moves(r) /\ req'[r].late = req[r].late /\ req'[r].rights = rights
         /\ req'[r].step \in {"served", "handler"} /\ req'[r].phase = 0
<1> DEFINE q == Principal(req[r], rights)
<1>1. /\ Proper(q) /\ q.late = req[r].late /\ q.rights = rights
      /\ q.step \in {"served", "handler"} /\ q.phase = 0
  BY ParamType, PrincipalType
<1> HIDE DEF q
<1> QED BY <1>1, ParamType, BecomesType DEF Moves, Proper, q

LEMMA Going ==
  ASSUME Typed, NEW r \in Requests, NEW step \in Steps, To(r, step)
  PROVE  /\ Moves(r) /\ Keeps(r) /\ req'[r].step = step /\ req'[r].phase = req[r].phase
         /\ req'[r].call = 0 /\ req'[r].due = req[r].due /\ req'[r].kind = req[r].kind
         /\ req'[r].alive = req[r].alive
BY ParamType, ToType DEF Moves, Keeps

LEMMA AuthenticateEdge ==
  ASSUME Typed, NEW r \in Requests, NEW kind \in Guarded, Authenticate(r, kind)
  PROVE  /\ Moves(r) /\ ~Central
         /\ \/ Over(req'[r])
            \/ /\ Arrived(req'[r]) /\ req'[r].step = "fetch" /\ row.check > CheckEvery
               /\ req'[r].rights = FALSE /\ req'[r].call = 0
            \/ /\ Arrived(req'[r]) /\ req'[r].step \in {"served", "handler"}
               /\ row.check <= CheckEvery /\ req'[r].rights = row.rights
<1> DEFINE q == Arriving(kind)
           fetching == [q EXCEPT !.step = "fetch"]
<1>1. kind \in Happens
  BY DEF Guarded, Happens
<1>2. /\ Proper(q) /\ q.phase = 0 /\ q.step = "free" /\ q.late = Late /\ q.rights = FALSE
      /\ q.call = 0
  BY <1>1, ArrivingType
<1>3. /\ Proper(fetching) /\ fetching.phase = 0 /\ fetching.late = Late
      /\ fetching.rights = FALSE /\ fetching.step = "fetch" /\ fetching.call = 0
  BY <1>2 DEF Request, Steps, Proper, Counted
<1>4. /\ Proper(Refused(q)) /\ Over(Refused(q))
  BY <1>2, RefusedType DEF Over, Proper
<1>5. LET p == Principal(q, row.rights)
      IN  Proper(p) /\ p.phase = 0 /\ p.late = Late /\ p.rights = row.rights
          /\ p.step \in {"served", "handler"}
  BY <1>2, PrincipalType, ParamType DEF Proper
<1>6. \/ Becomes(r, Refused(q))
      \/ Becomes(r, fetching) /\ row.check > CheckEvery
      \/ Becomes(r, Principal(q, row.rights)) /\ ~(row.check > CheckEvery)
  BY DEF Authenticate
<1>7. row.check <= CheckEvery \/ row.check > CheckEvery
  BY Times DEF Typed, TypeOK, Row
<1> HIDE DEF q, fetching
<1> QED BY <1>2, <1>3, <1>4, <1>5, <1>6, <1>7, BecomesType, ParamType
        DEF Moves, Arrived, Authenticate, Proper

LEMMA FetchEdges ==
  ASSUME Typed, NEW r \in Requests
  PROVE  /\ ResolveAuthorizationContext(r) =>
              /\ Moves(r) /\ req[r].step = "fetch" /\ req'[r].step = "store"
              /\ req'[r].rights = platform.rights /\ req'[r].late = req[r].late
              /\ req'[r].phase = req[r].phase /\ req'[r].call = req[r].call
         /\ PersistAuthorization(r) =>
              /\ Moves(r) /\ Keeps(r) /\ req[r].step = "store"
              /\ req'[r].step \in {"served", "handler"} /\ req'[r].phase = 0
<1>1. ASSUME ResolveAuthorizationContext(r)
      PROVE  /\ Moves(r) /\ req[r].step = "fetch" /\ req'[r].step = "store"
             /\ req'[r].rights = platform.rights /\ req'[r].late = req[r].late
             /\ req'[r].phase = req[r].phase /\ req'[r].call = req[r].call
  <2> DEFINE q == [req[r] EXCEPT !.step = "store", !.rights = platform.rights]
  <2>1. /\ q \in Request /\ Counted(q) /\ q.step = "store" /\ q.rights = platform.rights
        /\ q.late = req[r].late /\ q.phase = req[r].phase /\ q.call = req[r].call
    <3>1. req[r] \in Request /\ platform.rights \in BOOLEAN /\ req[r].call <= req[r].age
      BY ParamType
    <3> QED BY <3>1 DEF Request, Steps, Counted
  <2>2. Becomes(r, q) /\ req[r].step = "fetch"
    BY <1>1 DEF ResolveAuthorizationContext
  <2> HIDE DEF q
  <2> QED BY <2>1, <2>2, BecomesType, ParamType DEF Moves
<1>2. ASSUME PersistAuthorization(r)
      PROVE  /\ Moves(r) /\ Keeps(r) /\ req[r].step = "store"
             /\ req'[r].step \in {"served", "handler"} /\ req'[r].phase = 0
  BY <1>2, ParamType, Passing DEF PersistAuthorization, Keeps
<1> QED BY <1>1, <1>2

LEMMA ActivityEdges ==
  ASSUME Typed, NEW r \in Requests, ReadActivity(r) \/ TouchActivity(r)
  PROVE  /\ Moves(r) /\ req[r].step \in {"handler", "touch"}
         /\ \/ Over(req'[r])
            \/ Keeps(r) /\ req'[r].step = "touch" /\ req'[r].phase = req[r].phase
            \/ Keeps(r) /\ req'[r].step = "served" /\ req'[r].phase = 0
<1> DEFINE q == [req[r] EXCEPT !.step = "touch"]
<1>1. /\ q \in Request /\ Counted(q) /\ q.step = "touch" /\ q.rights = req[r].rights
      /\ q.late = req[r].late /\ q.phase = req[r].phase
  BY ParamType DEF Request, Steps, Counted
<1>2. /\ req[r].step \in {"handler", "touch"}
      /\ Becomes(r, q) \/ Becomes(r, Refused(req[r])) \/ Becomes(r, Served(req[r]))
  BY DEF ReadActivity, TouchActivity
<1>3. CASE Becomes(r, q)
  <2> HIDE DEF q
  <2> QED BY <1>1, <1>2, <1>3, BecomesType, ParamType DEF Moves, Keeps
<1> QED BY <1>2, <1>3, Ending, Serving, ParamType

Phased(q, step, phase) == [q EXCEPT !.step = step, !.phase = phase]

\* The step and the phase of a request change.
LEMMA PhasedType ==
  ASSUME NEW q \in Request, Counted(q), NEW step \in Steps \ {"asked", "answer"},
         NEW phase \in {0, 1, 2, 3}
  PROVE  LET p == Phased(q, step, phase)
         IN  /\ p \in Request /\ Counted(p) /\ p.step = step /\ p.phase = phase
             /\ p.late = q.late /\ p.rights = q.rights
<1> DEFINE p == Phased(q, step, phase)
<1>1. /\ p \in Request /\ p.step = step /\ p.phase = phase
      /\ p.late = q.late /\ p.rights = q.rights /\ p.call = q.call /\ p.age = q.age
  <2>1. phase \in 0..3
    OBVIOUS
  <2> QED BY <2>1 DEF Phased, Request
<1>2. Counted(p)
  BY <1>1 DEF Counted
<1> QED BY <1>1, <1>2

LEMMA PhaseSteps ==
  /\ "lock" \in Steps \ {"asked", "answer"} /\ "state" \in Steps \ {"asked", "answer"}
  /\ 1 \in {0, 1, 2, 3} /\ 2 \in {0, 1, 2, 3} /\ 3 \in {0, 1, 2, 3}
BY DEF Steps

LEMMA AuthenticateCentralEdge ==
  ASSUME Typed, NEW r \in Requests, NEW kind \in Guarded, AuthenticateCentral(r, kind)
  PROVE  /\ Moves(r) /\ Central
         /\ \/ Over(req'[r])
            \/ /\ Arrived(req'[r]) /\ req'[r].step = "state"
               /\ req'[r].rights = row.rights /\ req'[r].due = NeedsRefresh
<1> DEFINE q == Arriving(kind)
           asking == [q EXCEPT !.step = "state", !.rights = row.rights, !.due = NeedsRefresh]
<1>1. kind \in Happens
  BY DEF Guarded, Happens
<1>2. Proper(q) /\ q.phase = 0 /\ q.late = Late
  BY <1>1, ArrivingType
<1>3. row.rights \in BOOLEAN /\ NeedsRefresh \in BOOLEAN
  BY ParamType DEF NeedsRefresh, Expiring
<1>4. /\ Proper(asking) /\ asking.phase = 0 /\ asking.late = Late /\ asking.step = "state"
      /\ asking.rights = row.rights /\ asking.due = NeedsRefresh
  <2> HIDE DEF q
  <2>1. asking \in Request
    BY <1>2, <1>3 DEF Request, Steps, Proper
  <2>2. /\ asking.phase = q.phase /\ asking.late = q.late /\ asking.step = "state"
        /\ asking.rights = row.rights /\ asking.due = NeedsRefresh
        /\ asking.call = q.call /\ asking.age = q.age
    BY <1>2 DEF Request, Proper
  <2> HIDE DEF asking
  <2> QED BY <1>2, <2>1, <2>2 DEF Proper, Counted
<1>5. Becomes(r, Refused(q)) \/ Becomes(r, asking)
  BY DEF AuthenticateCentral
<1>6. q \in Request
  BY <1>2 DEF Proper
<1> HIDE DEF q, asking
<1>7. CASE Becomes(r, Refused(q))
  BY <1>6, <1>7, Ending DEF AuthenticateCentral
<1>8. CASE Becomes(r, asking)
  BY <1>4, <1>8, BecomesType, ParamType DEF Moves, Arrived, AuthenticateCentral, Proper
<1> QED BY <1>5, <1>7, <1>8

LEMMA VerdictEdges ==
  ASSUME Typed, NEW r \in Requests, ReadCentral(r) \/ State(r) \/ StateAnswered(r)
  PROVE  /\ Moves(r) /\ Keeps(r) /\ req'[r].phase = req[r].phase /\ req'[r].due = req[r].due
         /\ \/ ReadCentral(r) /\ req[r].step = "state"
               /\ (req'[r].step = "asked" \/ (req'[r].step = "ok" /\ Hit(r)))
            \/ State(r) /\ req[r].step = "asked" /\ req'[r].step = "answer"
               /\ req'[r].alive = platform.alive /\ req'[r].call = req[r].call
            \/ StateAnswered(r) /\ req[r].step = "answer"
               /\ (req'[r].step = "inactive" \/ (req'[r].step = "ok" /\ req[r].alive))
<1>1. ASSUME ReadCentral(r)
      PROVE  /\ Moves(r) /\ Keeps(r) /\ req'[r].phase = req[r].phase /\ req'[r].due = req[r].due
             /\ req[r].step = "state"
             /\ (req'[r].step = "asked" \/ (req'[r].step = "ok" /\ Hit(r)))
  <2>1. To(r, "asked") \/ (To(r, "ok") /\ Hit(r))
    BY <1>1 DEF ReadCentral
  <2>2. "asked" \in Steps /\ "ok" \in Steps /\ req[r].step = "state"
    BY <1>1 DEF Steps, ReadCentral
  <2>3. CASE To(r, "asked")
    BY <2>2, <2>3, Going
  <2>4. CASE To(r, "ok") /\ Hit(r)
    BY <2>2, <2>4, Going
  <2> QED BY <2>1, <2>3, <2>4
<1>2. ASSUME State(r)
      PROVE  /\ Moves(r) /\ Keeps(r) /\ req'[r].phase = req[r].phase /\ req'[r].due = req[r].due
             /\ req[r].step = "asked" /\ req'[r].step = "answer"
             /\ req'[r].alive = platform.alive /\ req'[r].call = req[r].call
  <2> DEFINE q == [req[r] EXCEPT !.step = "answer", !.alive = platform.alive]
  <2>1. req[r] \in Request /\ platform.alive \in BOOLEAN /\ Counted(req[r])
        /\ req[r].step = "asked" /\ Becomes(r, q)
    BY <1>2, ParamType DEF State
  <2>2. /\ q \in Request /\ q.late = req[r].late /\ q.rights = req[r].rights
        /\ q.phase = req[r].phase /\ q.due = req[r].due /\ q.step = "answer"
        /\ q.alive = platform.alive /\ q.call = req[r].call /\ q.age = req[r].age
    BY <2>1 DEF Request, Steps
  <2>3. Counted(q)
    BY <2>1, <2>2 DEF Counted
  <2> HIDE DEF q
  <2> QED BY <2>1, <2>2, <2>3, BecomesType, ParamType DEF Moves, Keeps
<1>3. ASSUME StateAnswered(r)
      PROVE  /\ Moves(r) /\ Keeps(r) /\ req'[r].phase = req[r].phase /\ req'[r].due = req[r].due
             /\ req[r].step = "answer"
             /\ (req'[r].step = "inactive" \/ (req'[r].step = "ok" /\ req[r].alive))
  <2>1. To(r, "inactive") \/ (To(r, "ok") /\ req[r].alive)
    BY <1>3 DEF StateAnswered, Verdict
  <2>2. "inactive" \in Steps /\ "ok" \in Steps /\ req[r].step = "answer"
    BY <1>3 DEF Steps, StateAnswered
  <2>3. CASE To(r, "inactive")
    BY <2>2, <2>3, Going
  <2>4. CASE To(r, "ok") /\ req[r].alive
    BY <2>2, <2>4, Going
  <2> QED BY <2>1, <2>3, <2>4
<1> QED BY <1>1, <1>2, <1>3

LEMMA VerifiedEdge ==
  ASSUME Typed, NEW r \in Requests, Verified(r)
  PROVE  /\ Moves(r) /\ Keeps(r) /\ req[r].step = "ok" /\ req[r].phase = 0
         /\ \/ req'[r].step = "lock" /\ req'[r].phase = 1 /\ req[r].due
            \/ req'[r].step \in {"served", "handler"} /\ req'[r].phase = 0 /\ ~req[r].due
<1> DEFINE q == [req[r] EXCEPT !.step = "lock", !.phase = 1, !.due = FALSE]
<1>1. req[r] \in Request /\ Counted(req[r]) /\ req[r].rights \in BOOLEAN
      /\ req[r].step = "ok" /\ req[r].phase = 0
  BY ParamType DEF Verified
<1>2. /\ q \in Request /\ q.late = req[r].late /\ q.rights = req[r].rights
      /\ q.phase = 1 /\ q.step = "lock" /\ Counted(q)
  <2> DEFINE p == Phased(req[r], "lock", 1)
  <2>1. /\ p \in Request /\ Counted(p) /\ p.step = "lock" /\ p.phase = 1
        /\ p.late = req[r].late /\ p.rights = req[r].rights
    BY <1>1, PhaseSteps, PhasedType
  <2>2. q = [p EXCEPT !.due = FALSE]
    BY <1>1 DEF Phased, Request
  <2> HIDE DEF p, q
  <2> QED BY <2>1, <2>2 DEF Request, Counted
<1>3. \/ Becomes(r, q) /\ req[r].due
      \/ Becomes(r, Principal(req[r], req[r].rights)) /\ ~req[r].due
  BY DEF Verified
<1> HIDE DEF q
<1>4. CASE Becomes(r, q) /\ req[r].due
  BY <1>1, <1>2, <1>4, BecomesType, ParamType DEF Moves, Keeps
<1>5. CASE Becomes(r, Principal(req[r], req[r].rights)) /\ ~req[r].due
  BY <1>1, <1>5, Passing DEF Keeps
<1> QED BY <1>3, <1>4, <1>5

LEMMA LockEdge ==
  ASSUME Typed, NEW r \in Requests, Lock(r)
  PROVE  /\ Moves(r) /\ req[r].step = "lock"
         /\ \/ Over(req'[r]) /\ UNCHANGED lock
            \/ /\ Keeps(r) /\ req'[r].step = "state" /\ req'[r].phase = req[r].phase
               /\ req'[r].due = req[r].due /\ lock = NoOne /\ lock' = r
<1>1. (To(r, "state") /\ lock = NoOne /\ lock' = r) \/ (Becomes(r, Refused(req[r])) /\ UNCHANGED lock)
  BY DEF Lock, Unlocked
<1>2. "state" \in Steps /\ req[r] \in Request /\ req[r].step = "lock"
  BY ParamType DEF Steps, Lock
<1> QED BY <1>1, <1>2, Going, Ending

LEMMA LockedEdge ==
  ASSUME Typed, NEW r \in Requests, Locked(r)
  PROVE  /\ Moves(r) /\ req'[r].late = req[r].late
         /\ req[r].step = "ok" /\ req[r].phase \in {1, 2}
         /\ \/ /\ ~NeedsRefresh /\ req'[r].rights = row.rights /\ lock' = NoOne
               /\ req'[r].step \in {"served", "handler"} /\ req'[r].phase = 0
            \/ Keeps(r) /\ req'[r].step = "fetch" /\ req'[r].phase = 2 /\ lock' = lock
               /\ req[r].phase = 2 /\ req'[r].call = 0
            \/ Keeps(r) /\ req'[r].step = "present" /\ req'[r].phase = 1 /\ lock' = lock
               /\ req[r].phase = 1
            \/ Keeps(r) /\ req'[r].step = "lock" /\ req'[r].phase = 2 /\ lock' = NoOne
<1> DEFINE q == [req[r] EXCEPT !.step = "lock", !.phase = 2]
<1>1. req[r] \in Request /\ Counted(req[r]) /\ row.rights \in BOOLEAN
      /\ req[r].step = "ok" /\ req[r].phase \in {1, 2}
      /\ lock' = IF req'[r].step \in {"fetch", "present"} THEN lock ELSE NoOne
  BY ParamType DEF Locked
<1>2. /\ q \in Request /\ q.late = req[r].late /\ q.rights = req[r].rights
      /\ q.phase = 2 /\ q.step = "lock" /\ Counted(q)
  <2>1. q = Phased(req[r], "lock", 2)
    BY DEF Phased
  <2> HIDE DEF q
  <2> QED BY <1>1, <2>1, PhaseSteps, PhasedType
<1>3. \/ Becomes(r, Principal(req[r], row.rights)) /\ ~NeedsRefresh /\ req[r].phase = 2
      \/ To(r, "fetch") /\ req[r].phase = 2
      \/ To(r, "present") /\ req[r].phase = 1
      \/ Becomes(r, q)
  <2>1. NeedsRefresh \in BOOLEAN /\ Expiring \in BOOLEAN
    BY DEF NeedsRefresh, Expiring
  <2> QED BY <2>1 DEF Locked
<1> HIDE DEF q
<1>4. CASE Becomes(r, Principal(req[r], row.rights)) /\ ~NeedsRefresh /\ req[r].phase = 2
  BY <1>1, <1>4, Passing
<1>5. CASE To(r, "fetch") /\ req[r].phase = 2
  <2>1. "fetch" \in Steps
    BY DEF Steps
  <2> QED BY <1>1, <1>5, <2>1, Going DEF Keeps
<1>6. CASE To(r, "present") /\ req[r].phase = 1
  <2>1. "present" \in Steps
    BY DEF Steps
  <2> QED BY <1>1, <1>6, <2>1, Going DEF Keeps
<1>7. CASE Becomes(r, q)
  BY <1>1, <1>2, <1>7, BecomesType, ParamType DEF Moves, Keeps
<1> QED BY <1>3, <1>4, <1>5, <1>6, <1>7

LEMMA RotationEdges ==
  ASSUME Typed, NEW r \in Requests
  PROVE  /\ PresentRefreshToken(r) =>
              /\ Moves(r) /\ req[r].step = "present"
              /\ \/ Over(req'[r])
                 \/ Keeps(r) /\ req'[r].step = "rotated" /\ req'[r].phase = req[r].phase
         /\ CommitRotation(r) =>
              /\ Moves(r) /\ Keeps(r) /\ req[r].step = "rotated"
              /\ req'[r].step = "lock" /\ req'[r].phase = 2
         /\ LoseRotation(r) => Moves(r) /\ Over(req'[r]) /\ req[r].step = "rotated"
         /\ Leaves(r) =>
              /\ Moves(r) /\ Keeps(r) /\ req'[r].phase = req[r].phase
              /\ req'[r].step = req[r].step /\ req'[r].due = req[r].due
              /\ req'[r].alive = req[r].alive /\ req'[r].call = req[r].call
<1>1. req[r] \in Request /\ Counted(req[r]) /\ req \in [Requests -> Request]
  BY ParamType
<1>2. ASSUME PresentRefreshToken(r)
      PROVE  /\ Moves(r) /\ req[r].step = "present"
             /\ \/ Over(req'[r])
                \/ Keeps(r) /\ req'[r].step = "rotated" /\ req'[r].phase = req[r].phase
  <2>1. To(r, "rotated") \/ Becomes(r, Refused(req[r]))
    BY <1>2 DEF PresentRefreshToken
  <2>2. "rotated" \in Steps /\ req[r].step = "present"
    BY <1>2 DEF Steps, PresentRefreshToken
  <2> QED BY <1>1, <2>1, <2>2, Going, Ending
<1>3. ASSUME CommitRotation(r)
      PROVE  /\ Moves(r) /\ Keeps(r) /\ req[r].step = "rotated"
             /\ req'[r].step = "lock" /\ req'[r].phase = 2
  <2> DEFINE q == [req[r] EXCEPT !.step = "lock", !.phase = 2]
  <2>1. /\ q \in Request /\ q.late = req[r].late /\ q.rights = req[r].rights
        /\ q.phase = 2 /\ q.step = "lock" /\ Counted(q)
    <3>1. q = Phased(req[r], "lock", 2)
      BY DEF Phased
    <3> HIDE DEF q
    <3> QED BY <1>1, <3>1, PhaseSteps, PhasedType
  <2>2. Becomes(r, q) /\ req[r].step = "rotated"
    BY <1>3 DEF CommitRotation, RotationCancelled
  <2> HIDE DEF q
  <2> QED BY <1>1, <2>1, <2>2, BecomesType DEF Moves, Keeps
<1>4. LoseRotation(r) => Moves(r) /\ Over(req'[r]) /\ req[r].step = "rotated"
  BY <1>1, Ending DEF LoseRotation
<1>5. ASSUME Leaves(r)
      PROVE  /\ Moves(r) /\ Keeps(r) /\ req'[r].phase = req[r].phase
             /\ req'[r].step = req[r].step /\ req'[r].due = req[r].due
             /\ req'[r].alive = req[r].alive /\ req'[r].call = req[r].call
  <2> DEFINE q == [req[r] EXCEPT !.gone = TRUE]
  <2>1. /\ q \in Request /\ q.late = req[r].late /\ q.rights = req[r].rights
        /\ q.phase = req[r].phase /\ q.step = req[r].step /\ q.due = req[r].due
        /\ q.alive = req[r].alive /\ q.call = req[r].call /\ Counted(q)
    BY <1>1 DEF Request, Counted
  <2>2. Becomes(r, q)
    BY <1>1, <1>5 DEF Leaves, Becomes
  <2> HIDE DEF q
  <2> QED BY <1>1, <2>1, <2>2, BecomesType DEF Moves, Keeps
<1> QED BY <1>2, <1>3, <1>4, <1>5

LEMMA LifecycleEdges ==
  ASSUME Typed, NEW r \in Requests
  PROVE  /\ Lifecycle(r) =>
              /\ Moves(r) /\ req[r].step = "handler"
              /\ \/ Over(req'[r])
                 \/ Keeps(r) /\ req'[r].step = "state" /\ req'[r].phase = 3
         /\ LifecycleAnswered(r) =>
              /\ Moves(r) /\ Keeps(r) /\ req[r].step = "ok" /\ req[r].phase = 3
              /\ req'[r].step = "served" /\ req'[r].phase = 0
<1>1. req[r] \in Request /\ Counted(req[r]) /\ req \in [Requests -> Request]
  BY ParamType
<1>2. ASSUME Lifecycle(r)
      PROVE  /\ Moves(r) /\ req[r].step = "handler"
             /\ \/ Over(req'[r])
                \/ Keeps(r) /\ req'[r].step = "state" /\ req'[r].phase = 3
  <2> DEFINE q == [req[r] EXCEPT !.step = "state", !.phase = 3]
  <2>1. /\ q \in Request /\ q.late = req[r].late /\ q.rights = req[r].rights
        /\ q.phase = 3 /\ q.step = "state" /\ Counted(q)
    <3>1. q = Phased(req[r], "state", 3)
      BY DEF Phased
    <3> HIDE DEF q
    <3> QED BY <1>1, <3>1, PhaseSteps, PhasedType
  <2>2. (Becomes(r, q) \/ Becomes(r, Refused(req[r]))) /\ req[r].step = "handler"
    BY <1>2 DEF Lifecycle
  <2> HIDE DEF q
  <2>3. CASE Becomes(r, q)
    BY <1>1, <2>1, <2>2, <2>3, BecomesType DEF Moves, Keeps
  <2> QED BY <1>1, <2>2, <2>3, Ending
<1>3. LifecycleAnswered(r) =>
        /\ Moves(r) /\ Keeps(r) /\ req[r].step = "ok" /\ req[r].phase = 3
        /\ req'[r].step = "served" /\ req'[r].phase = 0
  BY Serving DEF LifecycleAnswered
<1> QED BY <1>2, <1>3

\* What ends a request.
LEMMA EndingEdges ==
  ASSUME Typed, NEW r \in Requests,
         \/ Fails(r) \/ Respond(r) \/ Inactive(r) \/ Denied(r) \/ AuditUnavailable(r)
         \/ CommitLogout(r)
  PROVE  Moves(r) /\ Over(req'[r])
BY Ending, ParamType DEF Fails, Respond, Inactive, Denied, AuditUnavailable, CommitLogout

LEMMA BackchannelEdge ==
  ASSUME Typed, NEW r \in Requests, BackchannelLogout(r)
  PROVE  \/ UNCHANGED req /\ replay = "kept" /\ acked' = TRUE /\ UNCHANGED replay
         \/ /\ Moves(r) /\ req'[r].step = "revoke" /\ req'[r].late = {} /\ ~req'[r].rights
            /\ req'[r].phase = 0 /\ replay' = r /\ UNCHANGED acked /\ replay # "kept"
<1> DEFINE q == [NoRequest EXCEPT !.kind = "Backchannel", !.step = "revoke"]
<1>1. "Backchannel" \in Happens /\ "revoke" \in Steps \ {"asked", "answer"}
  BY DEF Happens, Steps
<1>2. /\ q \in Request /\ Counted(q) /\ q.step = "revoke" /\ q.late = {} /\ ~q.rights
      /\ q.phase = 0
  BY <1>1, NoRequestType DEF Request, Proper, Counted
<1>3. \/ replay = "kept" /\ acked' = TRUE /\ UNCHANGED <<req, replay>>
      \/ replay # "kept" /\ replay' = r /\ Becomes(r, q) /\ UNCHANGED acked
  BY DEF BackchannelLogout
<1> HIDE DEF q
<1> QED BY <1>2, <1>3, ParamType, BecomesType DEF Moves

\* A request without a session is let in at a step of its own, or refused.
LEMMA StrangerMoves ==
  ASSUME Typed, NEW r \in Requests, NEW kind \in Happens,
         NEW step \in Steps \ {"asked", "answer"},
         \/ Becomes(r, [NoRequest EXCEPT !.kind = kind, !.step = step])
         \/ Becomes(r, Refused([NoRequest EXCEPT !.kind = kind]))
  PROVE  /\ Moves(r) /\ req'[r].late = {} /\ ~req'[r].rights /\ req'[r].phase = 0
         /\ req'[r].step = step \/ Over(req'[r])
         /\ Becomes(r, Refused([NoRequest EXCEPT !.kind = kind])) => Over(req'[r])
<1> DEFINE q == [NoRequest EXCEPT !.kind = kind, !.step = step]
           p == [NoRequest EXCEPT !.kind = kind]
<1>1. /\ q \in Request /\ Counted(q) /\ q.step = step /\ q.late = {} /\ ~q.rights
      /\ q.phase = 0
  BY NoRequestType DEF Request, Proper, Counted
<1>2. p \in Request
  BY NoRequestType DEF Request, Proper
<1> HIDE DEF q, p
<1>3. CASE Becomes(r, q)
  <2>1. /\ Moves(r) /\ req'[r] = q
    BY <1>1, <1>3, ParamType, BecomesType DEF Moves
  <2>2. ASSUME Becomes(r, Refused(p)) PROVE Over(req'[r])
    BY <1>2, <2>2, Ending
  <2> QED BY <1>1, <2>1, <2>2 DEF p
<1>4. CASE Becomes(r, Refused(p))
  BY <1>2, <1>4, Ending DEF Over
<1> QED BY <1>3, <1>4 DEF p, q

LEMMA LoginEdges ==
  ASSUME Typed, NEW r \in Requests
  PROVE  /\ ReadLogin(r) \/ ConsumeCentralLogin(r) =>
              /\ Moves(r) /\ req'[r].late = {} /\ ~req'[r].rights /\ req'[r].phase = 0
              /\ \/ Over(req'[r])
                 \/ ReadLogin(r) /\ req'[r].step = "delete"
                 \/ /\ ConsumeCentralLogin(r) /\ req'[r].step = "exchange"
                    /\ login.there /\ login' = Gone
         /\ DeleteLogin(r) =>
              /\ Moves(r) /\ Keeps(r) /\ req'[r].phase = req[r].phase
              /\ \/ req'[r].step = "refused"
                 \/ req'[r].step = "exchange" /\ login.there
         /\ Exchange(r) =>
              /\ Moves(r) /\ req'[r].phase = req[r].phase /\ req'[r].late = req[r].late
              /\ req'[r].rights = platform.rights
              /\ req[r].step = "exchange" /\ req'[r].step = "insert"
         /\ CreateSession(r) =>
              /\ Moves(r) /\ Keeps(r) /\ req'[r].phase = 0
              /\ req[r].step = "insert" /\ req'[r].step = "served"
<1>1. /\ "callback" \in Happens /\ "delete" \in Steps \ {"asked", "answer"}
      /\ "exchange" \in Steps \ {"asked", "answer"} /\ "insert" \in Steps /\ "refused" \in Steps
      /\ "exchange" \in Steps
  BY DEF Happens, Steps
<1> DEFINE arriving == [NoRequest EXCEPT !.kind = "callback"]
<1>2. ASSUME ReadLogin(r)
      PROVE  /\ Moves(r) /\ req'[r].late = {} /\ ~req'[r].rights /\ req'[r].phase = 0
             /\ Over(req'[r]) \/ req'[r].step = "delete"
  <2>1. [arriving EXCEPT !.step = "delete"]
           = [NoRequest EXCEPT !.kind = "callback", !.step = "delete"]
    BY DEF NoRequest
  <2>2. \/ Becomes(r, [arriving EXCEPT !.step = "delete"])
        \/ Becomes(r, Refused(arriving))
    BY <1>2 DEF ReadLogin
  <2> QED BY <1>1, <2>1, <2>2, StrangerMoves
<1>3. ASSUME ConsumeCentralLogin(r)
      PROVE  /\ Moves(r) /\ req'[r].late = {} /\ ~req'[r].rights /\ req'[r].phase = 0
             /\ \/ Over(req'[r])
                \/ req'[r].step = "exchange" /\ login.there /\ login' = Gone
  <2>1. [arriving EXCEPT !.step = "exchange"]
           = [NoRequest EXCEPT !.kind = "callback", !.step = "exchange"]
    BY DEF NoRequest
  <2>2. \/ /\ Becomes(r, [arriving EXCEPT !.step = "exchange"])
           /\ login.there /\ login' = Gone
        \/ Becomes(r, Refused(arriving))
    BY <1>3 DEF ConsumeCentralLogin
  <2> QED BY <1>1, <2>1, <2>2, StrangerMoves
<1>4. ASSUME DeleteLogin(r)
      PROVE  /\ Moves(r) /\ Keeps(r) /\ req'[r].phase = req[r].phase
             /\ \/ req'[r].step = "refused"
                \/ req'[r].step = "exchange" /\ login.there
  <2>1. (To(r, "exchange") /\ login.there) \/ To(r, "refused")
    BY <1>4 DEF DeleteLogin, Deletes
  <2> QED BY <1>1, <2>1, Going
<1>5. ASSUME Exchange(r)
      PROVE  /\ Moves(r) /\ req'[r].phase = req[r].phase /\ req'[r].late = req[r].late
             /\ req'[r].rights = platform.rights
             /\ req[r].step = "exchange" /\ req'[r].step = "insert"
  <2> DEFINE q == [req[r] EXCEPT !.step = "insert", !.call = 0, !.rights = platform.rights]
  <2>1. /\ req[r] \in Request /\ platform.rights \in BOOLEAN /\ 0 \in 0..Patience
        /\ req[r].step = "exchange" /\ Becomes(r, q)
    BY <1>5, ParamType, Times DEF Exchange
  <2>2. /\ q \in Request /\ q.late = req[r].late /\ q.rights = platform.rights
        /\ q.phase = req[r].phase /\ q.step = "insert" /\ q.call = 0 /\ q.age = req[r].age
    BY <1>1, <2>1 DEF Request
  <2>3. Counted(q)
    BY <2>2, ParamType DEF Counted
  <2> HIDE DEF q
  <2> QED BY <2>1, <2>2, <2>3, BecomesType, ParamType DEF Moves
<1>6. ASSUME CreateSession(r)
      PROVE  /\ Moves(r) /\ Keeps(r) /\ req'[r].phase = 0
             /\ req[r].step = "insert" /\ req'[r].step = "served"
  BY <1>6, Serving DEF CreateSession
<1> QED BY <1>2, <1>3, <1>4, <1>5, <1>6

LEMMA EmbedEdges ==
  ASSUME Typed, NEW r \in Requests
  PROVE  /\ Issue(r) =>
              /\ Moves(r) /\ Keeps(r) /\ req'[r].phase = req[r].phase
              /\ req[r].step = "handler" /\ req'[r].step = "audit"
         /\ Report(r) =>
              /\ Moves(r) /\ req[r].step = "audit" /\ req'[r].phase = 0
              /\ Over(req'[r]) \/ (Keeps(r) /\ req'[r].step = "served" /\ req[r].rights)
         /\ Proxy(r) =>
              /\ Moves(r) /\ req'[r].late = {} /\ ~req'[r].rights /\ req'[r].phase = 0
              /\ Over(req'[r]) \/ (req'[r].step = "consume" /\ token.known /\ EmbedRecord(TRUE))
         /\ ConsumeToken(r) =>
              /\ Moves(r) /\ req[r].step = "consume" /\ req'[r].phase = 0
              /\ Over(req'[r]) \/ (Keeps(r) /\ req'[r].step = "served")
         /\ ProxyResource(r) =>
              /\ Moves(r) /\ req'[r].late = {} /\ ~req'[r].rights /\ req'[r].phase = 0
              /\ Over(req'[r]) \/ req'[r].step = "served"
<1>1. /\ "open" \in Happens /\ "resource" \in Happens
      /\ "consume" \in Steps \ {"asked", "answer"} /\ "served" \in Steps \ {"asked", "answer"}
      /\ "audit" \in Steps \ {"asked", "answer"}
  BY DEF Happens, Steps
<1>2. req[r] \in Request /\ Counted(req[r]) /\ req[r].rights \in BOOLEAN
  BY ParamType
<1>3. ASSUME Issue(r)
      PROVE  /\ Moves(r) /\ Keeps(r) /\ req'[r].phase = req[r].phase
             /\ req[r].step = "handler" /\ req'[r].step = "audit"
  <2> DEFINE q == [req[r] EXCEPT !.step = "audit"]
  <2>1. /\ q \in Request /\ q.step = "audit" /\ q.late = req[r].late
        /\ q.rights = req[r].rights /\ q.phase = req[r].phase
        /\ q.call = req[r].call /\ q.age = req[r].age
    BY <1>1, <1>2 DEF Request
  <2>2. Counted(q)
    BY <1>2, <2>1 DEF Counted
  <2>3. Becomes(r, q) /\ req[r].step = "handler"
    BY <1>3 DEF Issue, Handled, Reaches
  <2> HIDE DEF q
  <2> QED BY <2>1, <2>2, <2>3, ParamType, BecomesType DEF Moves, Keeps
<1>4. ASSUME Report(r)
      PROVE  /\ Moves(r) /\ req[r].step = "audit" /\ req'[r].phase = 0
             /\ Over(req'[r]) \/ (Keeps(r) /\ req'[r].step = "served" /\ req[r].rights)
  <2>1. req[r].step = "audit"
        /\ (Becomes(r, Refused(req[r])) \/ (Becomes(r, Served(req[r])) /\ req[r].rights))
    BY <1>4 DEF Report, Reported, Answered
  <2>2. CASE Becomes(r, Refused(req[r]))
    BY <1>2, <2>1, <2>2, Ending DEF Over
  <2>3. CASE Becomes(r, Served(req[r])) /\ req[r].rights
    BY <2>1, <2>3, Serving
  <2> QED BY <2>1, <2>2, <2>3
<1>5. ASSUME Proxy(r)
      PROVE  /\ Moves(r) /\ req'[r].late = {} /\ ~req'[r].rights /\ req'[r].phase = 0
             /\ Over(req'[r]) \/ (req'[r].step = "consume" /\ token.known /\ EmbedRecord(TRUE))
  <2> DEFINE arriving == [NoRequest EXCEPT !.kind = "open"]
  <2>1. [arriving EXCEPT !.step = "consume"]
           = [NoRequest EXCEPT !.kind = "open", !.step = "consume"]
    BY DEF NoRequest
  <2>2. \/ /\ Becomes(r, [arriving EXCEPT !.step = "consume"])
           /\ token.known /\ EmbedRecord(TRUE)
        \/ Becomes(r, Refused(arriving))
    BY <1>5 DEF Proxy
  <2>3. CASE Becomes(r, Refused(arriving))
    BY <1>1, <2>3, StrangerMoves
  <2>4. CASE /\ Becomes(r, [arriving EXCEPT !.step = "consume"])
             /\ token.known /\ EmbedRecord(TRUE)
    BY <1>1, <2>1, <2>4, StrangerMoves
  <2> QED BY <2>2, <2>3, <2>4
<1>6. ASSUME ConsumeToken(r)
      PROVE  /\ Moves(r) /\ req[r].step = "consume" /\ req'[r].phase = 0
             /\ Over(req'[r]) \/ (Keeps(r) /\ req'[r].step = "served")
  <2>1. req[r].step = "consume" /\ (Becomes(r, Refused(req[r])) \/ Becomes(r, Served(req[r])))
    BY <1>6 DEF ConsumeToken
  <2>2. CASE Becomes(r, Refused(req[r]))
    BY <1>2, <2>1, <2>2, Ending DEF Over
  <2>3. CASE Becomes(r, Served(req[r]))
    BY <2>1, <2>3, Serving
  <2> QED BY <2>1, <2>2, <2>3
<1>7. ASSUME ProxyResource(r)
      PROVE  /\ Moves(r) /\ req'[r].late = {} /\ ~req'[r].rights /\ req'[r].phase = 0
             /\ Over(req'[r]) \/ req'[r].step = "served"
  <2> DEFINE arriving == [NoRequest EXCEPT !.kind = "resource"]
  <2>1. arriving \in Request /\ arriving.late = {} /\ ~arriving.rights
    BY <1>1, NoRequestType DEF Request, Proper
  <2>2. Becomes(r, Served(arriving)) \/ Becomes(r, Refused(arriving))
    BY <1>7 DEF ProxyResource
  <2> HIDE DEF arriving
  <2>3. CASE Becomes(r, Served(arriving))
    BY <2>1, <2>3, ServedType, BecomesType, ParamType DEF Moves, Proper
  <2>4. CASE Becomes(r, Refused(arriving))
    BY <2>1, <2>4, Ending DEF Over
  <2> QED BY <2>2, <2>3, <2>4
<1> QED BY <1>3, <1>4, <1>5, <1>6, <1>7

-----------------------------------------------------------------------------
(* Which steps change what *)

Acts(r) ==
  \/ \E kind \in Guarded : Authenticate(r, kind) \/ AuthenticateCentral(r, kind)
  \/ ResolveAuthorizationContext(r) \/ PersistAuthorization(r)
  \/ ReadActivity(r) \/ TouchActivity(r) \/ BackchannelLogout(r) \/ CommitLogout(r)
  \/ AuditUnavailable(r) \/ Fails(r) \/ Respond(r)
  \/ ReadCentral(r) \/ State(r) \/ StateAnswered(r) \/ Inactive(r)
  \/ Verified(r) \/ Lock(r) \/ Locked(r)
  \/ PresentRefreshToken(r) \/ CommitRotation(r) \/ LoseRotation(r) \/ Leaves(r)
  \/ Denied(r) \/ Lifecycle(r) \/ LifecycleAnswered(r)
  \/ ReadLogin(r) \/ DeleteLogin(r) \/ ConsumeCentralLogin(r)
  \/ Exchange(r) \/ CreateSession(r)
  \/ Issue(r) \/ Report(r) \/ Proxy(r) \/ ConsumeToken(r) \/ ProxyResource(r)

\* A request stays where it is.
Stays(r) ==
  /\ req'[r].step = req[r].step /\ req'[r].phase = req[r].phase /\ Keeps(r)
  /\ req'[r].due = req[r].due /\ req'[r].alive = req[r].alive
  /\ req'[r].call = req[r].call
     \/ (Tick /\ (req[r].step \in {"asked", "answer", "fetch", "store"}
                   => req'[r].call = req[r].call + 1))

LEMMA ActsMove ==
  ASSUME Typed, NEW r \in Requests, Acts(r)
  PROVE  Moves(r) \/ UNCHANGED req
<1>1. ASSUME NEW kind \in Guarded, Authenticate(r, kind) \/ AuthenticateCentral(r, kind)
      PROVE  Moves(r)
  BY <1>1, AuthenticateEdge, AuthenticateCentralEdge
<1>2. ASSUME \/ ResolveAuthorizationContext(r) \/ PersistAuthorization(r)
             \/ ReadActivity(r) \/ TouchActivity(r)
             \/ CommitLogout(r) \/ AuditUnavailable(r) \/ Fails(r) \/ Respond(r)
      PROVE  Moves(r)
  BY <1>2, FetchEdges, ActivityEdges, EndingEdges
<1>3. BackchannelLogout(r) => Moves(r) \/ UNCHANGED req
  BY BackchannelEdge
<1>4. ASSUME \/ ReadCentral(r) \/ State(r) \/ StateAnswered(r) \/ Inactive(r)
             \/ Verified(r) \/ Lock(r) \/ Locked(r)
      PROVE  Moves(r)
  BY <1>4, VerdictEdges, EndingEdges, VerifiedEdge, LockEdge, LockedEdge
<1>5. ASSUME \/ PresentRefreshToken(r) \/ CommitRotation(r) \/ LoseRotation(r) \/ Leaves(r)
             \/ Denied(r) \/ Lifecycle(r) \/ LifecycleAnswered(r)
      PROVE  Moves(r)
  BY <1>5, RotationEdges, EndingEdges, LifecycleEdges
<1>6. ASSUME \/ ReadLogin(r) \/ DeleteLogin(r) \/ ConsumeCentralLogin(r)
             \/ Exchange(r) \/ CreateSession(r)
      PROVE  Moves(r)
  BY <1>6, LoginEdges
<1>7. ASSUME \/ Issue(r) \/ Report(r) \/ Proxy(r) \/ ConsumeToken(r) \/ ProxyResource(r)
      PROVE  Moves(r)
  BY <1>7, EmbedEdges
<1> QED BY <1>1, <1>2, <1>3, <1>4, <1>5, <1>6, <1>7 DEF Acts

LEMMA OneMoves ==
  ASSUME Typed, Next
  PROVE  Tick \/ UNCHANGED req \/ \E r \in Requests : Acts(r) /\ Moves(r)
<1>1. CASE \E r \in Requests : Acts(r)
  BY <1>1, ActsMove
<1>2. CASE ~\E r \in Requests : Acts(r)
  <2>1. CASE SessionNext
    BY <1>2, <2>1 DEF SessionNext, Acts, Logout, RevokeSession, Withdraw, End
  <2>2. CASE CentralNext
    BY <1>2, <2>2 DEF CentralNext, Acts
  <2>3. CASE LoginNext
    BY <1>2, <2>3 DEF LoginNext, Acts, AttachSessionLink, sessionVars
  <2>4. CASE EmbedNext
    BY <1>2, <2>4 DEF EmbedNext, Acts
  <2> QED BY <2>1, <2>2, <2>3, <2>4 DEF Next
<1> QED BY <1>1, <1>2

LEMMA RowChanges ==
  ASSUME Next
  PROVE  \/ Tick \/ UNCHANGED row \/ row' = [row EXCEPT !.revoked = TRUE]
         \/ \E r \in Requests : PersistAuthorization(r) \/ TouchActivity(r) \/ CommitRotation(r)
<1>1. CASE SessionNext
  BY <1>1 DEF SessionNext, Logout, RevokeSession, Withdraw, End, Authenticate,
     AuthenticateCentral, ResolveAuthorizationContext, ReadActivity, BackchannelLogout,
     CommitLogout, AuditUnavailable, Fails, Respond
<1>2. CASE CentralNext
  BY <1>2 DEF CentralNext, ReadCentral, State, StateAnswered, Inactive, Verified, Lock, Locked,
     PresentRefreshToken, LoseRotation, Leaves, Denied, Lifecycle, LifecycleAnswered
<1>3. CASE LoginNext \/ EmbedNext
  BY <1>3 DEF LoginNext, EmbedNext, AttachSessionLink, ReadLogin, DeleteLogin,
     ConsumeCentralLogin, Exchange, CreateSession, Issue, Report, Proxy, ConsumeToken,
     ProxyResource, sessionVars
<1> QED BY <1>1, <1>2, <1>3 DEF Next

LEMMA PlatformChanges ==
  ASSUME Next
  PROVE  \/ Tick \/ UNCHANGED platform \/ Withdraw \/ End
         \/ \E r \in Requests : PresentRefreshToken(r) \/ LoseRotation(r)
<1>1. CASE SessionNext
  BY <1>1 DEF SessionNext, Logout, RevokeSession, Authenticate,
     AuthenticateCentral, ResolveAuthorizationContext, PersistAuthorization, ReadActivity,
     TouchActivity, BackchannelLogout, CommitLogout, AuditUnavailable, Fails, Respond
<1>2. CASE CentralNext
  BY <1>2 DEF CentralNext, ReadCentral, State, StateAnswered, Inactive, Verified, Lock, Locked,
     CommitRotation, Leaves, Denied, Lifecycle, LifecycleAnswered
<1>3. CASE LoginNext \/ EmbedNext
  BY <1>3 DEF LoginNext, EmbedNext, AttachSessionLink, ReadLogin, DeleteLogin,
     ConsumeCentralLogin, Exchange, CreateSession, Issue, Report, Proxy, ConsumeToken,
     ProxyResource, sessionVars
<1> QED BY <1>1, <1>2, <1>3 DEF Next

LEMMA LockChanges ==
  ASSUME Next
  PROVE  \/ UNCHANGED lock
         \/ \E r \in Requests :
              /\ lock' = NoOne /\ lock = r
              /\ \/ Fails(r) \/ Inactive(r) \/ Denied(r) \/ LoseRotation(r)
                 \/ PersistAuthorization(r)
         \/ \E r \in Requests :
              Lock(r) \/ Locked(r) \/ PresentRefreshToken(r) \/ CommitRotation(r)
<1>1. CASE SessionNext
  BY <1>1 DEF SessionNext, Logout, RevokeSession, Withdraw, End, Authenticate,
     AuthenticateCentral, ResolveAuthorizationContext, PersistAuthorization, ReadActivity,
     TouchActivity, BackchannelLogout, CommitLogout, AuditUnavailable, Fails, Rollback, Respond
<1>2. CASE CentralNext
  BY <1>2 DEF CentralNext, ReadCentral, State, StateAnswered, Inactive, Verified,
     LoseRotation, Rollback, Leaves, Denied, Lifecycle, LifecycleAnswered
<1>3. CASE LoginNext \/ EmbedNext \/ Tick
  BY <1>3 DEF LoginNext, EmbedNext, AttachSessionLink, ReadLogin, DeleteLogin,
     ConsumeCentralLogin, Exchange, CreateSession, Issue, Report, Proxy, ConsumeToken,
     ProxyResource, Tick, sessionVars
<1> QED BY <1>1, <1>2, <1>3 DEF Next

LEMMA CacheChanges ==
  ASSUME Next
  PROVE  Tick \/ UNCHANGED cache \/ \E r \in Requests : StateAnswered(r)
<1>1. CASE SessionNext
  BY <1>1 DEF SessionNext, Logout, RevokeSession, Withdraw, End, Authenticate,
     AuthenticateCentral, ResolveAuthorizationContext, PersistAuthorization, ReadActivity,
     TouchActivity, BackchannelLogout, CommitLogout, AuditUnavailable, Fails, Respond
<1>2. CASE CentralNext
  BY <1>2 DEF CentralNext, ReadCentral, State, Inactive, Verified, Lock, Locked,
     PresentRefreshToken, CommitRotation, LoseRotation, Leaves, Denied, Lifecycle,
     LifecycleAnswered
<1>3. CASE LoginNext \/ EmbedNext
  BY <1>3 DEF LoginNext, EmbedNext, AttachSessionLink, ReadLogin, DeleteLogin,
     ConsumeCentralLogin, Exchange, CreateSession, Issue, Report, Proxy, ConsumeToken,
     ProxyResource, sessionVars
<1> QED BY <1>1, <1>2, <1>3 DEF Next

LEMMA LogoutChanges ==
  ASSUME Next
  PROVE  /\ UNCHANGED mix
         /\ \/ UNCHANGED <<replay, acked>>
            \/ \E r \in Requests : BackchannelLogout(r) \/ CommitLogout(r)
            \/ \E r \in Requests : Rollback(r) /\ UNCHANGED acked
<1>1. CASE SessionNext
  BY <1>1 DEF SessionNext, Logout, RevokeSession, Withdraw, End, Authenticate,
     AuthenticateCentral, ResolveAuthorizationContext, PersistAuthorization, ReadActivity,
     TouchActivity, AuditUnavailable, Fails, Respond, BackchannelLogout, CommitLogout
<1>2. CASE CentralNext
  BY <1>2 DEF CentralNext, ReadCentral, State, StateAnswered, Inactive, Verified, Lock, Locked,
     PresentRefreshToken, CommitRotation, LoseRotation, Leaves, Denied, Lifecycle,
     LifecycleAnswered
<1>3. CASE LoginNext \/ EmbedNext \/ Tick
  BY <1>3 DEF LoginNext, EmbedNext, AttachSessionLink, ReadLogin, DeleteLogin,
     ConsumeCentralLogin, Exchange, CreateSession, Issue, Report, Proxy, ConsumeToken,
     ProxyResource, Tick, sessionVars
<1> QED BY <1>1, <1>2, <1>3 DEF Next

-----------------------------------------------------------------------------
(* Types *)

\* A tick makes what waits older, within its bounds.
LEMMA OlderType ==
  ASSUME NEW q \in Request, Counted(q), MayWait(q)
  PROVE  /\ Older(q) \in Request /\ Counted(Older(q))
         /\ Older(q).step = q.step /\ Older(q).phase = q.phase /\ Older(q).rights = q.rights
         /\ Older(q).late = q.late /\ Older(q).due = q.due /\ Older(q).alive = q.alive
         /\ Older(q).kind = q.kind
         /\ q.step \in {"asked", "answer", "fetch", "store"} => Older(q).call = q.call + 1
<1>1. CASE q.step \in {"free", "served", "refused"}
  BY <1>1 DEF Older
<1>2. CASE q.step \notin {"free", "served", "refused"}
  <2> DEFINE calling == q.step \in {"asked", "answer", "fetch", "store"}
             aged == [q EXCEPT !.age = @ + 1, !.call = IF calling THEN @ + 1 ELSE @]
  <2>1. /\ q.age \in 0..Patience /\ q.call \in 0..Patience /\ q.call <= q.age
        /\ q.age < Patience /\ (q.step \in {"asked", "answer"} => q.call < StateTimeout)
    BY <1>2 DEF Counted, MayWait, Request
  <2>2. /\ q.age + 1 \in 0..Patience /\ q.call + 1 \in 0..Patience
        /\ q.call + 1 <= q.age + 1 /\ q.call <= q.age + 1
        /\ q.step \in {"asked", "answer"} => q.call + 1 <= StateTimeout
    BY <2>1, Times
  <2>3. Older(q) = aged
    BY <1>2 DEF Older
  <2>4. /\ aged \in Request /\ aged.step = q.step /\ aged.phase = q.phase
        /\ aged.rights = q.rights /\ aged.late = q.late /\ aged.due = q.due
        /\ aged.alive = q.alive /\ aged.kind = q.kind /\ aged.age = q.age + 1
        /\ aged.call = IF calling THEN q.call + 1 ELSE q.call
    BY <2>1, <2>2 DEF Request
  <2>5. Counted(aged)
    BY <2>1, <2>2, <2>4 DEF Counted
  <2> HIDE DEF aged
  <2> QED BY <2>3, <2>4, <2>5
<1> QED BY <1>1, <1>2

LEMMA TickRequests ==
  ASSUME Typed, Tick, NEW r \in Requests
  PROVE  /\ req' \in [Requests -> Request] /\ req'[r] = Older(req[r]) /\ Counted(req'[r])
         /\ MayWait(req[r])
<1>1. \A s \in Requests : MayWait(req[s]) /\ req[s] \in Request /\ Counted(req[s])
  BY ParamType DEF Tick
<1>2. \A s \in Requests : Older(req[s]) \in Request /\ Counted(Older(req[s]))
  BY <1>1, OlderType
<1>3. req' = [s \in Requests |-> Older(req[s])]
  BY DEF Tick
<1> QED BY <1>1, <1>2, <1>3

LEMMA StaysOrActs ==
  ASSUME Typed, Next, NEW r \in Requests
  PROVE  Stays(r) \/ Acts(r)
<1>1. req[r] \in Request /\ Counted(req[r])
  BY ParamType
<1>2. CASE Tick
  BY <1>1, <1>2, TickRequests, OlderType DEF Stays, Keeps
<1>3. CASE UNCHANGED req
  BY <1>3 DEF Stays, Keeps
<1>4. ASSUME NEW s \in Requests, Acts(s), Moves(s), s # r
      PROVE  Stays(r)
  BY <1>4 DEF Moves, Stays, Keeps
<1> QED BY <1>2, <1>3, <1>4, OneMoves

LEMMA RowTyped ==
  ASSUME Typed, Next
  PROVE  row' \in Row
<1>1. row \in Row
  BY DEF Typed, TypeOK
<1>2. /\ 0 \in 0..TokenLife /\ CheckEvery + 1 \in 0..(CheckEvery + 1)
      /\ Idle \in Nat /\ CheckEvery + 1 \in Nat /\ TokenLife \in Nat
      /\ Absolute + Patience \in Nat
  BY Times
<1>3. CASE Tick
  <2>1. /\ row.idle \in 0..Idle /\ row.life \in 0..(Absolute + Patience)
        /\ row.check \in 0..(CheckEvery + 1) /\ row.access \in 0..TokenLife
    BY <1>1 DEF Row
  <2>2. /\ AtMost(row.idle + 1, Idle) \in 0..Idle
        /\ AtMost(row.check + 1, CheckEvery + 1) \in 0..(CheckEvery + 1)
        /\ AtMost(row.access + 1, TokenLife) \in 0..TokenLife
    BY <1>2, <2>1 DEF AtMost
  <2>3. row.life + 1 \in 0..(Absolute + Patience)
    BY <1>2, <1>3, <2>1 DEF Tick
  <2> QED BY <1>1, <1>3, <2>1, <2>2, <2>3 DEF Tick, Row
<1>4. CASE row' = [row EXCEPT !.revoked = TRUE]
  BY <1>1, <1>4 DEF Row
<1>5. ASSUME NEW r \in Requests, PersistAuthorization(r) PROVE row' \in Row
  <2>1. req[r].rights \in BOOLEAN /\ req[r].call \in Nat
    BY ParamType
  <2>2. AtMost(req[r].call, CheckEvery + 1) \in 0..(CheckEvery + 1)
    BY <1>2, <2>1, AtMostType
  <2> QED BY <1>1, <1>5, <2>1, <2>2 DEF PersistAuthorization, Stored, Row
<1>6. ASSUME NEW r \in Requests, TouchActivity(r) PROVE row' \in Row
  <2>1. AtMost(req[r].age, Idle) \in 0..Idle
    <3>1. req[r].age \in Nat
      BY ParamType
    <3> QED BY <1>2, <3>1 DEF AtMost
  <2> QED BY <1>1, <1>6, <2>1 DEF TouchActivity, Row
<1>7. ASSUME NEW r \in Requests, CommitRotation(r) PROVE row' \in Row
  <2>1. platform.refresh \in Nat
    BY DEF Typed, TypeOK, Platform
  <2> QED BY <1>1, <1>2, <1>7, <2>1 DEF CommitRotation, RotationCancelled, Row
<1> QED BY <1>1, <1>3, <1>4, <1>5, <1>6, <1>7, RowChanges

LEMMA PlatformTyped ==
  ASSUME Typed, Next
  PROVE  platform' \in Platform
<1>1. platform \in Platform
  BY DEF Typed, TypeOK
<1>2. CASE Tick
  <2>1. platform.withdrawn \in 0..(CheckEvery + 1) /\ platform.ended \in 0..Noticed
    BY <1>1 DEF Platform
  <2>2. /\ AtMost(platform.withdrawn + 1, CheckEvery + 1) \in 0..(CheckEvery + 1)
        /\ AtMost(platform.ended + 1, Noticed) \in 0..Noticed
    BY <2>1, Times DEF AtMost
  <2> QED BY <1>1, <1>2, <2>1, <2>2 DEF Tick, Platform
<1>3. CASE Withdraw \/ End
  BY <1>1, <1>3 DEF Withdraw, End, Platform
<1>4. ASSUME NEW r \in Requests, PresentRefreshToken(r) \/ LoseRotation(r)
      PROVE  platform' \in Platform
  <2>1. platform.refresh + 1 \in Nat
    BY <1>1 DEF Platform
  <2>2. (platform.reused \/ row.refresh # platform.refresh) \in BOOLEAN
    OBVIOUS
  <2> QED BY <1>1, <1>4, <2>1, <2>2 DEF PresentRefreshToken, LoseRotation, Platform
<1> QED BY <1>1, <1>2, <1>3, <1>4, PlatformChanges

LEMMA LoginTyped ==
  ASSUME Typed, Next
  PROVE  login' \in Login /\ created' \in Nat
<1>1. login \in Login /\ created \in Nat /\ Gone \in Login
  BY LoginAssumption DEF Typed, TypeOK, Gone, Login
<1>2. CASE (SessionNext \/ CentralNext) /\ UNCHANGED <<loginVars, embedVars>>
  BY <1>1, <1>2 DEF loginVars
<1>3. CASE EmbedNext /\ UNCHANGED loginVars
  BY <1>1, <1>3 DEF loginVars
<1>4. CASE Tick /\ LoginAges /\ TokenAges /\ UNCHANGED <<created, opened>>
  <2>1. AtMost(login.age + 1, LoginTTL + 1) \in 0..(LoginTTL + 1) /\ 0 \in 0..(LoginTTL + 1)
    BY <1>1, LoginAssumption DEF AtMost, Login
  <2> QED BY <1>1, <1>4, <2>1 DEF LoginAges, Login
<1>5. CASE LoginNext
  <2>1. CASE AttachSessionLink
    BY <1>1, <2>1 DEF AttachSessionLink, Login
  <2>2. ASSUME NEW r \in Requests,
               \/ ReadLogin(r) \/ DeleteLogin(r)
               \/ ConsumeCentralLogin(r) \/ Exchange(r) \/ CreateSession(r)
        PROVE  login' \in Login /\ created' \in Nat
    <3>1. (login' = login \/ login' = Gone) /\ (created' = created \/ created' = created + 1)
      BY <2>2 DEF ReadLogin, DeleteLogin, ConsumeCentralLogin, Exchange, CreateSession, loginVars
    <3> QED BY <1>1, <3>1
  <2> QED BY <1>5, <2>1, <2>2 DEF LoginNext
<1> QED BY <1>2, <1>3, <1>4, <1>5 DEF Next

LEMMA TokenTyped ==
  ASSUME Typed, Next
  PROVE  token' \in Token /\ opened' \in Nat
<1>1. token \in Token /\ opened \in Nat
  BY DEF Typed, TypeOK
<1>2. CASE UNCHANGED embedVars
  BY <1>1, <1>2 DEF embedVars
<1>3. CASE TokenAges /\ UNCHANGED <<created, opened>>
  <2>1. AtMost(token.age + 1, TokenTTL + 1) \in 0..(TokenTTL + 1) /\ 0 \in 0..(TokenTTL + 1)
    BY <1>1, EmbedAssumption DEF AtMost, Token
  <2> QED BY <1>1, <1>3, <2>1 DEF TokenAges, Token
<1>4. CASE EmbedNext
  <2>1. ASSUME NEW r \in Requests, Issue(r)
        PROVE  token' \in Token /\ opened' = opened
    <3>1. Buffered("issue") \in BOOLEAN
      BY DEF Buffered, AuditRequired
    <3> QED BY <1>1, <2>1, <3>1 DEF Issue, Token
  <2>2. ASSUME NEW r \in Requests, Report(r)
        PROVE  token' \in Token /\ opened' = opened
    <3>1. PICK accepted \in BOOLEAN :
            token' = IF ~MayOpen(req[r]) THEN token
                     ELSE [token EXCEPT !.audited = accepted,
                                        !.known = @ \/ req'[r].step = "served"]
      BY <2>2 DEF Report
    <3>2. (token.known \/ req'[r].step = "served") \in BOOLEAN
      OBVIOUS
    <3> QED BY <1>1, <2>2, <3>1, <3>2 DEF Report, Token
  <2>3. ASSUME NEW r \in Requests, Proxy(r) \/ ProxyResource(r)
        PROVE  token' = token /\ opened' = opened
    BY <2>3 DEF Proxy, ProxyResource, embedVars
  <2>4. ASSUME NEW r \in Requests, ConsumeToken(r)
        PROVE  token' \in Token /\ opened' \in Nat
    BY <1>1, <2>4 DEF ConsumeToken, embedVars, Token
  <2> QED BY <1>1, <1>4, <2>1, <2>2, <2>3, <2>4 DEF EmbedNext
<1>5. \/ UNCHANGED embedVars \/ EmbedNext
      \/ TokenAges /\ UNCHANGED <<created, opened>>
  BY DEF Next, embedVars
<1> QED BY <1>2, <1>3, <1>4, <1>5

LEMMA TypedNext ==
  ASSUME Typed, Next
  PROVE  Typed'
<1>1. req' \in [Requests -> Request] /\ \A r \in Requests : Counted(req'[r])
  <2>1. CASE Tick
    <3>1. req' = [s \in Requests |-> Older(req[s])]
      BY <2>1 DEF Tick
    <3>2. \A s \in Requests : Older(req[s]) \in Request /\ Counted(Older(req[s]))
      BY <2>1, OlderType, ParamType DEF Tick
    <3> QED BY <3>1, <3>2
  <2>2. CASE UNCHANGED req
    BY <2>2 DEF Typed, TypeOK
  <2>3. CASE \E r \in Requests : Moves(r)
    BY <2>3 DEF Moves, Typed
  <2> QED BY <2>1, <2>2, <2>3, OneMoves
<1>2. cache' \in 0..NoEntry
  <2>1. cache \in 0..NoEntry /\ NoEntry \in Nat \ {0}
    BY Times DEF Typed, TypeOK
  <2>2. CASE Tick
    <3>1. AtMost(cache + 1, NoEntry) \in 0..NoEntry
      BY <2>1 DEF AtMost
    <3> QED BY <2>2, <3>1 DEF Tick
  <2>3. ASSUME NEW r \in Requests, StateAnswered(r) PROVE cache' \in 0..NoEntry
    <3>1. cache' = cache \/ cache' = 0 \/ cache' = NoEntry
      BY <2>3 DEF StateAnswered, Cached
    <3> QED BY <2>1, <3>1
  <2> QED BY <2>1, <2>2, <2>3, CacheChanges
<1>3. lock' \in Requests \cup {NoOne}
  <2>1. lock \in Requests \cup {NoOne}
    BY DEF Typed, TypeOK
  <2> QED BY <2>1, LockChanges DEF Lock, Locked, PresentRefreshToken, CommitRotation
<1>4. mix' \in Mixes /\ replay' \in Requests \cup {NoOne, "kept"} /\ acked' \in BOOLEAN
  <2>1. mix \in Mixes /\ replay \in Requests \cup {NoOne, "kept"} /\ acked \in BOOLEAN
    BY DEF Typed, TypeOK
  <2>2. CASE UNCHANGED <<replay, acked>>
    BY <2>1, <2>2, LogoutChanges
  <2>3. ASSUME NEW r \in Requests, BackchannelLogout(r)
        PROVE  replay' \in Requests \cup {NoOne, "kept"} /\ acked' \in BOOLEAN
    BY <2>1, <2>3 DEF BackchannelLogout
  <2>4. ASSUME NEW r \in Requests, CommitLogout(r)
        PROVE  replay' \in Requests \cup {NoOne, "kept"} /\ acked' \in BOOLEAN
    BY <2>4 DEF CommitLogout
  <2>5. ASSUME NEW r \in Requests, Rollback(r) /\ UNCHANGED acked
        PROVE  replay' \in Requests \cup {NoOne, "kept"} /\ acked' \in BOOLEAN
    BY <2>1, <2>5 DEF Rollback
  <2> QED BY <2>1, <2>2, <2>3, <2>4, <2>5, LogoutChanges
<1> QED BY <1>1, <1>2, <1>3, <1>4, RowTyped, PlatformTyped, LoginTyped, TokenTyped
        DEF Typed, TypeOK

LEMMA TypedInit == Init => Typed
<1> SUFFICES ASSUME Init PROVE Typed
  OBVIOUS
<1>1. row \in Row
  BY Times DEF Init, SessionInit, NewRow, Row
<1>2. platform \in Platform
  <2>1. platform \in [rights : BOOLEAN, withdrawn : 0..(CheckEvery + 1), alive : {TRUE},
                      ended : {0}, refresh : {0}, reused : {FALSE}, lost : {FALSE}]
    BY DEF Init, SessionInit, NewPlatform
  <2>2. 0 \in 0..Noticed /\ 0 \in Nat
    BY Times
  <2> QED BY <2>1, <2>2 DEF Platform
<1>3. req \in [Requests -> Request] /\ \A r \in Requests : Counted(req[r])
  BY NoRequestType DEF Init, SessionInit, Proper
<1>4. login \in Login /\ created \in Nat
  BY LoginAssumption DEF Init, LoginInit, NewLogin, Login
<1>5. token \in Token /\ opened \in Nat
  BY EmbedAssumption DEF Init, EmbedInit, Token
<1>6. /\ mix \in Mixes /\ cache \in 0..NoEntry /\ acked \in BOOLEAN
      /\ lock \in Requests \cup {NoOne} /\ replay \in Requests \cup {NoOne, "kept"}
  <2>1. NoEntry \in 0..NoEntry
    BY Times
  <2> QED BY <2>1 DEF Init, SessionInit
<1> QED BY <1>1, <1>2, <1>3, <1>4, <1>5, <1>6 DEF Typed, TypeOK

-----------------------------------------------------------------------------
(* The invariants *)

\* Phases 1 and 2 are transactions: between them a request holds the lock of the row.
Holding(q) ==
  q.phase \in {1, 2} /\ q.step \in {"state", "asked", "answer", "ok", "inactive", "present",
                                    "rotated", "fetch", "store"}

LocksHeld ==
  \A r \in Requests : /\ Holding(req[r]) => lock = r
                      /\ req[r].step \in {"present", "rotated"} => req[r].phase = 1

\* The row has the token the platform expects, unless a rotation is about to store it.
TokensKnown ==
  /\ ~platform.lost => \/ row.refresh = platform.refresh
                       \/ \E r \in Requests : req[r].step = "rotated"
  /\ RefreshTokenSpentOnce

\* A jti stays only with the logout it belongs to.
LogoutKept == acked \/ replay = "kept" => row.revoked

Creating(q) == q.step \in {"exchange", "insert"}

\* The row of a login, one callback that has consumed it, or the session.
LoginSpent ==
  /\ OneSessionPerLogin
  /\ login.there => created = 0
  /\ login.there \/ created > 0 => \A r \in Requests : ~Creating(req[r])
  /\ \A r, s \in Requests : Creating(req[r]) /\ Creating(req[s]) => r = s

\* The request whose answer, in the buffer or not, has the token.
Issuing(q) == q.step = "audit" /\ q.rights

\* A token that must be audited is known only once it is, and opens at most once.
TokenKept ==
  /\ EmbedOpensOnce
  /\ opened > 0 => token.state = "consumed" /\ token.known
  /\ token.state = "none" => ~token.known
  /\ AuditRequired /\ token.known => token.audited
  /\ \A r \in Requests : req[r].step = "consume" => token.known
  /\ \A r \in Requests :
       Issuing(req[r]) => token.state # "none" /\ (AuditRequired => ~token.known)
  /\ \A r, s \in Requests : Issuing(req[r]) /\ Issuing(req[s]) => r = s

\* The rights were taken after their check, or the check is that of the login.
Checked == platform.withdrawn <= row.check \/ row.life <= row.check

\* Rights in the row, or on their way into it, are known to be as old as their check.
RightsKnown ==
  /\ platform.rights => platform.withdrawn = 0
  /\ ~platform.rights /\ row.rights => Checked
  /\ \A r \in Requests :
       ~platform.rights /\ req[r].step = "store" /\ req[r].rights
         => platform.withdrawn <= req[r].call

\* A request that comes too late for its rights has none or is about to check them.
LateChecks(q) ==
  /\ GoneFor(CheckEvery + (IF Central THEN 0 ELSE 1))
  /\ q.rights =>
       \/ q.phase = 0 /\ q.due /\ q.step \in {"state", "asked", "answer", "ok", "inactive"}
       \/ q.phase \in {1, 2} /\ q.step \in {"lock", "state", "asked", "answer", "ok", "inactive",
                                            "present", "rotated", "fetch"}

LateRightsGo == \A r \in Requests : "rights" \in req[r].late => LateChecks(req[r])

\* A good verdict, cached or under way, was asked for while the central session was alive.
VerdictsAge ==
  /\ platform.alive => platform.ended = 0
  /\ ~platform.alive => Central
  /\ ~platform.alive /\ cache < CacheTTL => platform.ended <= cache + StateTimeout
  /\ \A r \in Requests :
       ~platform.alive /\ req[r].step = "answer" /\ req[r].alive
         => platform.ended <= req[r].call

LateVerdictsFail ==
  \A r \in Requests :
    "ended" \in req[r].late =>
      /\ ~platform.alive /\ platform.ended >= Noticed
      /\ req[r].step \in {"state", "asked", "answer", "inactive"}

LEMMA NeverUnrevoked ==
  ASSUME Typed, Next, row.revoked
  PROVE  row'.revoked
<1>1. row \in Row
  BY DEF Typed, TypeOK
<1> QED BY <1>1, RowChanges DEF Tick, PersistAuthorization, Stored, TouchActivity,
           CommitRotation, RotationCancelled, Row

LEMMA LogoutNext ==
  ASSUME Typed, LogoutKept, Next
  PROVE  LogoutKept'
<1>1. row.revoked => row'.revoked
  BY NeverUnrevoked
<1>2. CASE UNCHANGED <<replay, acked>>
  BY <1>1, <1>2 DEF LogoutKept
<1>3. ASSUME NEW r \in Requests, BackchannelLogout(r) PROVE LogoutKept'
  BY <1>1, <1>3, SlotsAssumption DEF LogoutKept, BackchannelLogout
<1>4. ASSUME NEW r \in Requests, CommitLogout(r) PROVE LogoutKept'
  BY <1>4 DEF LogoutKept, CommitLogout, Typed, TypeOK, Row
<1>5. ASSUME NEW r \in Requests, Rollback(r), UNCHANGED acked PROVE LogoutKept'
  BY <1>1, <1>5, SlotsAssumption DEF LogoutKept, Rollback
<1> QED BY <1>2, <1>3, <1>4, <1>5, LogoutChanges

-----------------------------------------------------------------------------
(* Logins and embed tokens *)

\* What the steps of a request lead to, as far as logins and tokens go.
LEMMA NewStep ==
  ASSUME Typed, Next, NEW r \in Requests
  PROVE  \/ Stays(r)
         \/ req'[r].step \notin {"exchange", "insert", "audit", "consume"}
         \/ DeleteLogin(r) \/ ConsumeCentralLogin(r) \/ Exchange(r) \/ Issue(r) \/ Proxy(r)
<1>1. Over(req'[r]) => req'[r].step \notin {"exchange", "insert", "audit", "consume"}
  BY DEF Over
<1>2. ASSUME NEW kind \in Guarded, Authenticate(r, kind) \/ AuthenticateCentral(r, kind)
      PROVE  req'[r].step \notin {"exchange", "insert", "audit", "consume"}
  BY <1>1, <1>2, AuthenticateEdge, AuthenticateCentralEdge
<1>3. ASSUME \/ ResolveAuthorizationContext(r) \/ PersistAuthorization(r)
             \/ ReadActivity(r) \/ TouchActivity(r)
             \/ CommitLogout(r) \/ AuditUnavailable(r) \/ Fails(r) \/ Respond(r)
      PROVE  req'[r].step \notin {"exchange", "insert", "audit", "consume"}
  BY <1>1, <1>3, FetchEdges, ActivityEdges, EndingEdges
<1>4. ASSUME BackchannelLogout(r)
      PROVE  Stays(r) \/ req'[r].step \notin {"exchange", "insert", "audit", "consume"}
  BY <1>4, BackchannelEdge DEF Stays, Keeps
<1>5. ASSUME \/ ReadCentral(r) \/ State(r) \/ StateAnswered(r) \/ Inactive(r)
             \/ Verified(r) \/ Lock(r) \/ Locked(r)
      PROVE  req'[r].step \notin {"exchange", "insert", "audit", "consume"}
  BY <1>1, <1>5, VerdictEdges, EndingEdges, VerifiedEdge, LockEdge, LockedEdge
<1>6. ASSUME \/ PresentRefreshToken(r) \/ CommitRotation(r) \/ LoseRotation(r)
             \/ Denied(r) \/ Lifecycle(r) \/ LifecycleAnswered(r)
      PROVE  req'[r].step \notin {"exchange", "insert", "audit", "consume"}
  BY <1>1, <1>6, RotationEdges, EndingEdges, LifecycleEdges
<1>7. ASSUME Leaves(r) PROVE Stays(r)
  BY <1>7, RotationEdges DEF Stays
<1>8. ASSUME ReadLogin(r) \/ CreateSession(r)
      PROVE  \/ req'[r].step \notin {"exchange", "insert", "audit", "consume"}
             \/ ConsumeCentralLogin(r)
  BY <1>1, <1>8, LoginEdges
<1>9. ASSUME Report(r) \/ ConsumeToken(r) \/ ProxyResource(r)
      PROVE  req'[r].step \notin {"exchange", "insert", "audit", "consume"}
  BY <1>1, <1>9, EmbedEdges
<1> QED BY <1>2, <1>3, <1>4, <1>5, <1>6, <1>7, <1>8, <1>9, StaysOrActs DEF Acts

\* Only a callback that takes the row, or has taken it, goes on to create a session.
LEMMA CreatingEdge ==
  ASSUME Typed, Next, NEW r \in Requests, Creating(req'[r])
  PROVE  \/ Creating(req[r])
         \/ login.there /\ login' = Gone /\ UNCHANGED created /\ Moves(r)
<1>1. CASE Stays(r)
  BY <1>1 DEF Stays, Creating
<1>2. CASE DeleteLogin(r)
  BY <1>2, LoginEdges DEF DeleteLogin, Creating
<1>3. CASE ConsumeCentralLogin(r)
  <2>1. login.there /\ login' = Gone /\ Moves(r)
    BY <1>3, LoginEdges DEF Over, Creating, ConsumeCentralLogin
  <2> QED BY <1>3, <2>1 DEF ConsumeCentralLogin
<1>4. CASE Exchange(r)
  BY <1>4, LoginEdges DEF Creating
<1>5. CASE Issue(r) \/ Proxy(r)
  BY <1>5, EmbedEdges DEF Creating, Over
<1> QED BY <1>1, <1>2, <1>3, <1>4, <1>5, NewStep DEF Creating

LEMMA LoginChanges ==
  ASSUME Typed, Next
  PROVE  \/ UNCHANGED created /\ login'.there = login.there
         \/ UNCHANGED created /\ login' = Gone
         \/ \E r \in Requests : CreateSession(r)
<1>1. login \in Login
  BY DEF Typed, TypeOK
<1>2. CASE UNCHANGED loginVars
  BY <1>2 DEF loginVars
<1>3. CASE LoginAges /\ UNCHANGED <<created, opened>>
  BY <1>1, <1>3 DEF LoginAges, Login
<1>4. CASE LoginNext
  BY <1>1, <1>4 DEF LoginNext, AttachSessionLink, ReadLogin, DeleteLogin, ConsumeCentralLogin,
     Exchange, loginVars, Login
<1> QED BY <1>2, <1>3, <1>4 DEF Next, loginVars

LEMMA LoginSpentNext ==
  ASSUME Typed, LoginSpent, Next
  PROVE  LoginSpent'
<1>1. created \in Nat /\ Gone.there = FALSE
  BY DEF Typed, TypeOK, Gone
<1>2. ASSUME NEW r \in Requests, CreateSession(r) PROVE LoginSpent'
  <2>1. /\ Creating(req[r]) /\ ~Creating(req'[r]) /\ created' = created + 1
        /\ UNCHANGED login /\ \A s \in Requests : s # r => req'[s] = req[s]
    BY <1>2, LoginEdges DEF CreateSession, Creating, Moves
  <2>2. created = 0 /\ ~login.there
    BY <1>1, <2>1 DEF LoginSpent, OneSessionPerLogin
  <2>3. \A s \in Requests : ~Creating(req'[s])
    BY <2>1 DEF LoginSpent
  <2> QED BY <2>1, <2>2, <2>3 DEF LoginSpent, OneSessionPerLogin
<1>3. CASE UNCHANGED created
  <2>1. login'.there => login.there
    BY <1>1, <1>3, LoginChanges DEF CreateSession
  <2>2. CASE \A r \in Requests : Creating(req'[r]) => Creating(req[r])
    BY <1>3, <2>1, <2>2 DEF LoginSpent, OneSessionPerLogin
  <2>3. CASE \E r \in Requests : Creating(req'[r]) /\ ~Creating(req[r])
    <3>1. PICK r \in Requests : login.there /\ login' = Gone /\ Moves(r)
      BY <2>3, CreatingEdge
    <3>2. /\ created = 0 /\ ~login'.there
          /\ \A s \in Requests : ~Creating(req[s]) /\ (s # r => req'[s] = req[s])
      BY <1>1, <3>1 DEF LoginSpent, Moves
    <3>3. \A s \in Requests : Creating(req'[s]) => s = r
      BY <3>2
    <3> QED BY <1>3, <3>2, <3>3 DEF LoginSpent, OneSessionPerLogin
  <2> QED BY <2>2, <2>3
<1> QED BY <1>2, <1>3, LoginChanges

\* A token is handed on by the request that issues it, and opened once.
LEMMA TokenEdges ==
  ASSUME Typed, Next, NEW r \in Requests
  PROVE  /\ Issuing(req'[r]) => Issuing(req[r]) \/ (Issue(r) /\ MayOpen(req[r]) /\ Moves(r))
         /\ req'[r].step = "consume" => req[r].step = "consume" \/ (token.known /\ Proxy(r))
<1>1. CASE Stays(r)
  BY <1>1 DEF Stays, Keeps, Issuing
<1>2. CASE Issue(r)
  BY <1>2, EmbedEdges DEF Issuing, MayOpen, Keeps
<1>3. CASE Proxy(r)
  BY <1>3, EmbedEdges DEF Issuing, Over
<1>4. CASE DeleteLogin(r) \/ ConsumeCentralLogin(r) \/ Exchange(r)
  BY <1>4, LoginEdges DEF Issuing, Over
<1> QED BY <1>1, <1>2, <1>3, <1>4, NewStep DEF Issuing

LEMMA TokenChanges ==
  ASSUME Typed, Next
  PROVE  \/ /\ UNCHANGED opened /\ token'.state = token.state /\ token'.known = token.known
            /\ token'.audited = token.audited
         \/ \E r \in Requests : Issue(r) \/ Report(r) \/ ConsumeToken(r)
<1>1. token \in Token
  BY DEF Typed, TypeOK
<1>2. CASE UNCHANGED embedVars
  BY <1>2 DEF embedVars
<1>3. CASE TokenAges /\ UNCHANGED <<created, opened>>
  BY <1>1, <1>3 DEF TokenAges, Token
<1>4. CASE EmbedNext
  BY <1>4 DEF EmbedNext, Proxy, ProxyResource, embedVars
<1> QED BY <1>2, <1>3, <1>4 DEF Next, embedVars

LEMMA TokenKeptNext ==
  ASSUME Typed, TokenKept, Next
  PROVE  TokenKept'
<1>1. /\ token \in Token /\ opened \in Nat /\ UNCHANGED AuditRequired
      /\ AuditRequired \in BOOLEAN
  BY LogoutChanges DEF Typed, TypeOK, AuditRequired
<1>2. CASE /\ UNCHANGED opened /\ token'.state = token.state /\ token'.known = token.known
           /\ token'.audited = token.audited
  <2>1. \A r \in Requests : ~Issue(r) \/ ~MayOpen(req[r])
    BY <1>1, <1>2 DEF Issue, Token
  <2>2. \A r \in Requests : Issuing(req'[r]) => Issuing(req[r])
    BY <2>1, TokenEdges
  <2>3. \A r \in Requests : req'[r].step = "consume" => token.known
    BY TokenEdges DEF TokenKept
  <2> QED BY <1>1, <1>2, <2>2, <2>3 DEF TokenKept, EmbedOpensOnce
<1>3. ASSUME NEW r \in Requests, Issue(r) PROVE TokenKept'
  <2>1. /\ token.state = "none" /\ ~token.known /\ opened = 0 /\ UNCHANGED opened
        /\ \A s \in Requests : ~Issuing(req[s]) /\ req[s].step # "consume"
        /\ \A s \in Requests : s # r => req'[s] = req[s]
        /\ req'[r].step = "audit"
    <3>1. token.state = "none" /\ UNCHANGED opened
      BY <1>3 DEF Issue
    <3>2. ~token.known /\ ~(opened > 0)
          /\ \A s \in Requests : ~Issuing(req[s]) /\ req[s].step # "consume"
      BY <3>1 DEF TokenKept
    <3>3. (\A s \in Requests : s # r => req'[s] = req[s]) /\ req'[r].step = "audit"
      BY <1>3, EmbedEdges DEF Moves
    <3> QED BY <1>1, <3>1, <3>2, <3>3
  <2>2. CASE ~MayOpen(req[r])
    <3>1. \A s \in Requests : ~Issuing(req'[s]) /\ req'[s].step # "consume"
      BY <1>3, <2>1, <2>2, EmbedEdges DEF Issuing, MayOpen, Keeps
    <3> QED BY <1>1, <1>3, <2>1, <2>2, <3>1 DEF Issue, TokenKept, EmbedOpensOnce
  <2>3. CASE MayOpen(req[r])
    <3>1. Buffered("issue") = AuditRequired
      BY <1>1 DEF Buffered, SensitiveRead
    <3>2. token'.state = "fresh" /\ token'.known = ~AuditRequired
      BY <1>1, <1>3, <2>3, <3>1 DEF Issue, Token
    <3>3. \A s \in Requests : (Issuing(req'[s]) => s = r) /\ req'[s].step # "consume"
      BY <2>1
    <3> QED BY <1>1, <2>1, <3>2, <3>3 DEF TokenKept, EmbedOpensOnce
  <2> QED BY <2>2, <2>3
<1>4. ASSUME NEW r \in Requests, Report(r) PROVE TokenKept'
  <2>1. PICK accepted \in BOOLEAN :
          /\ Reported(r, accepted)
          /\ token' = IF ~MayOpen(req[r]) THEN token
                      ELSE [token EXCEPT !.audited = accepted,
                                         !.known = @ \/ req'[r].step = "served"]
    BY <1>4 DEF Report
  <2>2. /\ UNCHANGED opened /\ req[r].step = "audit"
        /\ \A s \in Requests : s # r => req'[s] = req[s]
        /\ req'[r].step # "audit" /\ req'[r].step # "consume"
    BY <1>4, EmbedEdges DEF Report, Moves, Over
  <2>3. \A s \in Requests : (Issuing(req'[s]) => s # r /\ Issuing(req[s]))
                            /\ (req'[s].step = "consume" => s # r /\ req[s].step = "consume")
    BY <2>2 DEF Issuing
  <2>4. CASE ~MayOpen(req[r])
    BY <1>1, <2>1, <2>2, <2>3, <2>4 DEF TokenKept, EmbedOpensOnce
  <2>5. CASE MayOpen(req[r])
    <3>1. Issuing(req[r]) /\ token.state # "none" /\ (AuditRequired => ~token.known)
          /\ \A s \in Requests : ~Issuing(req'[s])
      BY <2>2, <2>3, <2>5 DEF TokenKept, Issuing, MayOpen
    <3>2. /\ token'.state = token.state /\ token'.audited = accepted
          /\ token'.known = (token.known \/ req'[r].step = "served")
      BY <1>1, <2>1, <2>5 DEF Token
    <3>3. AuditRequired /\ req'[r].step = "served" => accepted
      <4> SUFFICES ASSUME AuditRequired, ~accepted PROVE req'[r].step # "served"
        OBVIOUS
      <4>1. Becomes(r, Refused(req[r]))
        BY <2>1 DEF Reported
      <4> QED BY <4>1, Ending, ParamType DEF Over
    <3> QED BY <1>1, <2>2, <2>3, <3>1, <3>2, <3>3 DEF TokenKept, EmbedOpensOnce
  <2> QED BY <2>4, <2>5
<1>5. ASSUME NEW r \in Requests, ConsumeToken(r) PROVE TokenKept'
  <2>1. /\ req[r].step = "consume" /\ token.known
        /\ \A s \in Requests : s # r => req'[s] = req[s]
        /\ req'[r].step # "audit" /\ req'[r].step # "consume"
    BY <1>5, EmbedEdges DEF Moves, Over, TokenKept
  <2>2. \A s \in Requests : (Issuing(req'[s]) => Issuing(req[s]))
                            /\ (req'[s].step = "consume" => req[s].step = "consume")
    BY <2>1 DEF Issuing
  <2>3. CASE UNCHANGED embedVars
    BY <1>1, <2>2, <2>3 DEF TokenKept, EmbedOpensOnce, embedVars
  <2>4. CASE ~UNCHANGED embedVars
    <3>1. /\ token.state = "fresh" /\ token' = [token EXCEPT !.state = "consumed"]
          /\ opened' = opened \/ opened' = opened + 1
      BY <1>5, <2>4 DEF ConsumeToken, Consumes
    <3>2. token'.state = "consumed" /\ token'.known = token.known
          /\ token'.audited = token.audited /\ opened = 0
      BY <1>1, <3>1 DEF Token, TokenKept
    <3> QED BY <1>1, <2>1, <2>2, <3>1, <3>2 DEF TokenKept, EmbedOpensOnce
  <2> QED BY <2>3, <2>4
<1> QED BY <1>2, <1>3, <1>4, <1>5, TokenChanges

-----------------------------------------------------------------------------
(* The lock of the row and the refresh token *)

\* A request in a transaction keeps the lock of the row.
LEMMA LockKept ==
  ASSUME Typed, LocksHeld, Next, NEW r \in Requests, Holding(req[r]), Holding(req'[r])
  PROVE  lock' = r
<1>1. lock = r /\ lock # NoOne
  BY SlotsAssumption DEF LocksHeld
<1>2. ASSUME lock' = NoOne, \/ Fails(r) \/ Inactive(r) \/ Denied(r) \/ LoseRotation(r)
                            \/ PersistAuthorization(r)
      PROVE  FALSE
  BY <1>2, EndingEdges, RotationEdges, FetchEdges DEF Over, Holding
<1>3. ASSUME NEW s \in Requests, Lock(s) PROVE lock' = r
  BY <1>1, <1>3, LockEdge
<1>4. ASSUME NEW s \in Requests, Locked(s) PROVE lock' = r
  <2>1. Holding(req[s])
    BY <1>4, LockedEdge DEF Holding
  <2>2. s = r
    BY <1>1, <2>1 DEF LocksHeld
  <2> QED BY <1>1, <1>4, <2>2, LockedEdge DEF Holding
<1>5. ASSUME NEW s \in Requests, PresentRefreshToken(s) \/ CommitRotation(s) PROVE lock' = r
  <2>1. Holding(req[s])
    BY <1>5, RotationEdges DEF Holding, LocksHeld
  <2>2. s = r
    BY <1>1, <2>1 DEF LocksHeld
  <2>3. CASE PresentRefreshToken(r)
    BY <1>1, <2>3, RotationEdges, Ending, ParamType DEF PresentRefreshToken, Holding, Over
  <2>4. CASE CommitRotation(r)
    BY <2>4, RotationEdges DEF Holding
  <2> QED BY <1>5, <2>2, <2>3, <2>4
<1> QED BY <1>1, <1>2, <1>3, <1>4, <1>5, LockChanges

\* A transaction begins with the lock, and only the rotation presents a refresh token.
LEMMA LockTaken ==
  ASSUME Typed, LocksHeld, Next, NEW r \in Requests
  PROVE  /\ Holding(req'[r]) /\ ~Holding(req[r]) => lock' = r
         /\ req'[r].step \in {"present", "rotated"} => req'[r].phase = 1
<1> DEFINE Fits == /\ Holding(req'[r]) /\ ~Holding(req[r]) => lock' = r
                   /\ req'[r].step \in {"present", "rotated"} => req'[r].phase = 1
<1>1. /\ req[r].step \in {"present", "rotated"} => req[r].phase = 1
      /\ Over(req'[r]) => Fits
      /\ req'[r].phase = 0 /\ req'[r].step \notin {"present", "rotated"} => Fits
  BY DEF LocksHeld, Over, Holding
<1>2. CASE Stays(r)
  BY <1>1, <1>2 DEF Stays, Holding
<1>3. ASSUME NEW kind \in Guarded, Authenticate(r, kind) \/ AuthenticateCentral(r, kind)
      PROVE  Fits
  BY <1>1, <1>3, AuthenticateEdge, AuthenticateCentralEdge DEF Arrived
<1>4. ASSUME \/ ResolveAuthorizationContext(r) \/ PersistAuthorization(r)
             \/ ReadActivity(r) \/ TouchActivity(r)
             \/ CommitLogout(r) \/ AuditUnavailable(r) \/ Fails(r) \/ Respond(r)
      PROVE  Fits
  BY <1>1, <1>4, FetchEdges, ActivityEdges, EndingEdges DEF Holding
<1>5. ASSUME BackchannelLogout(r) PROVE Fits
  BY <1>1, <1>5, BackchannelEdge DEF Holding
<1>6. ASSUME \/ ReadCentral(r) \/ State(r) \/ StateAnswered(r) \/ Inactive(r) \/ Verified(r)
      PROVE  Fits
  BY <1>1, <1>6, VerdictEdges, EndingEdges, VerifiedEdge DEF Holding
<1>7. ASSUME Lock(r) \/ Locked(r) PROVE Fits
  BY <1>1, <1>7, LockEdge, LockedEdge DEF Holding
<1>8. ASSUME PresentRefreshToken(r) \/ CommitRotation(r) \/ LoseRotation(r) \/ Leaves(r)
      PROVE  Fits
  BY <1>1, <1>8, RotationEdges DEF Holding
<1>9. ASSUME Denied(r) \/ Lifecycle(r) \/ LifecycleAnswered(r) PROVE Fits
  BY <1>1, <1>9, EndingEdges, LifecycleEdges DEF Holding
<1>10. ASSUME \/ ReadLogin(r) \/ DeleteLogin(r) \/ ConsumeCentralLogin(r)
              \/ Exchange(r) \/ CreateSession(r)
       PROVE  Fits
  BY <1>1, <1>10, LoginEdges DEF Holding
<1>11. ASSUME Issue(r) \/ Report(r) \/ Proxy(r) \/ ConsumeToken(r) \/ ProxyResource(r)
       PROVE  Fits
  BY <1>1, <1>11, EmbedEdges DEF Holding
<1> QED BY <1>2, <1>3, <1>4, <1>5, <1>6, <1>7, <1>8, <1>9, <1>10, <1>11, StaysOrActs DEF Acts

LEMMA LocksHeldNext ==
  ASSUME Typed, LocksHeld, Next
  PROVE  LocksHeld'
BY LockKept, LockTaken DEF LocksHeld

\* What a rotation has got it stores, or loses.
LEMMA RotatedStays ==
  ASSUME Typed, Next, NEW r \in Requests, req[r].step = "rotated"
  PROVE  req'[r].step = "rotated" \/ CommitRotation(r) \/ LoseRotation(r)
<1>1. CASE Stays(r)
  BY <1>1 DEF Stays
<1>2. CASE Leaves(r)
  BY <1>2, RotationEdges
<1>3. CASE BackchannelLogout(r)
  BY <1>3 DEF BackchannelLogout
<1>4. \A kind \in Guarded : ~Authenticate(r, kind) /\ ~AuthenticateCentral(r, kind)
  BY DEF Authenticate, AuthenticateCentral
<1>5. /\ ~ResolveAuthorizationContext(r) /\ ~PersistAuthorization(r) /\ ~ReadActivity(r)
      /\ ~TouchActivity(r) /\ ~CommitLogout(r) /\ ~AuditUnavailable(r) /\ ~Fails(r)
      /\ ~Respond(r)
  BY DEF ResolveAuthorizationContext, PersistAuthorization, ReadActivity, TouchActivity,
         CommitLogout, AuditUnavailable, Fails, Respond
<1>6. /\ ~ReadCentral(r) /\ ~State(r) /\ ~StateAnswered(r) /\ ~Inactive(r) /\ ~Verified(r)
      /\ ~Lock(r) /\ ~Locked(r) /\ ~PresentRefreshToken(r) /\ ~Denied(r) /\ ~Lifecycle(r)
      /\ ~LifecycleAnswered(r)
  BY DEF ReadCentral, State, StateAnswered, Inactive, Verified, Lock, Locked,
         PresentRefreshToken, Denied, Lifecycle, LifecycleAnswered
<1>7. /\ ~ReadLogin(r) /\ ~DeleteLogin(r) /\ ~ConsumeCentralLogin(r) /\ ~Exchange(r)
      /\ ~CreateSession(r) /\ ~Issue(r) /\ ~Report(r) /\ ~Proxy(r) /\ ~ConsumeToken(r)
      /\ ~ProxyResource(r)
  BY DEF ReadLogin, DeleteLogin, ConsumeCentralLogin, Exchange, CreateSession, Issue, Reaches,
         Report, Reported, Proxy, ConsumeToken, ProxyResource
<1> QED BY <1>1, <1>2, <1>3, <1>4, <1>5, <1>6, <1>7, StaysOrActs DEF Acts

LEMMA TokensKnownNext ==
  ASSUME Typed, LocksHeld, TokensKnown, Next
  PROVE  TokensKnown'
<1>1. row \in Row /\ platform \in Platform
  BY DEF Typed, TypeOK
<1>2. ASSUME NEW r \in Requests, PresentRefreshToken(r) PROVE TokensKnown'
  <2>1. req[r].step = "present" /\ Holding(req[r]) /\ lock = r
    BY <1>2 DEF PresentRefreshToken, LocksHeld, Holding
  <2>2. \A s \in Requests : req[s].step # "rotated"
    BY <2>1 DEF LocksHeld, Holding
  <2>3. ~platform.lost => row.refresh = platform.refresh
    BY <2>2 DEF TokensKnown
  <2>4. CASE platform.alive /\ row.refresh = platform.refresh
    <3>1. platform' = [platform EXCEPT !.refresh = @ + 1] /\ To(r, "rotated")
      BY <1>2, <2>4 DEF PresentRefreshToken
    <3>2. req'[r].step = "rotated"
      <4>1. "rotated" \in Steps
        BY DEF Steps
      <4> QED BY <3>1, <4>1, Going
    <3>3. platform'.lost = platform.lost /\ platform'.reused = platform.reused
      BY <1>1, <3>1 DEF Platform
    <3> QED BY <3>2, <3>3 DEF TokensKnown, RefreshTokenSpentOnce
  <2>5. CASE ~(platform.alive /\ row.refresh = platform.refresh)
    <3>1. /\ platform' = [platform EXCEPT !.reused = @ \/ row.refresh # platform.refresh]
          /\ row' = [row EXCEPT !.revoked = TRUE]
      BY <1>2, <2>5 DEF PresentRefreshToken
    <3>2. /\ platform'.lost = platform.lost /\ platform'.refresh = platform.refresh
          /\ platform'.reused = (platform.reused \/ row.refresh # platform.refresh)
          /\ row'.refresh = row.refresh
      BY <1>1, <3>1 DEF Platform, Row
    <3> QED BY <2>3, <3>2 DEF TokensKnown, RefreshTokenSpentOnce
  <2> QED BY <2>4, <2>5
<1>3. ASSUME NEW r \in Requests, LoseRotation(r) PROVE TokensKnown'
  BY <1>1, <1>3 DEF LoseRotation, Platform, TokensKnown, RefreshTokenSpentOnce
<1>4. ASSUME NEW r \in Requests, CommitRotation(r) PROVE TokensKnown'
  BY <1>1, <1>4 DEF CommitRotation, RotationCancelled, Row, TokensKnown, RefreshTokenSpentOnce
<1>5. CASE \A r \in Requests : ~PresentRefreshToken(r) /\ ~LoseRotation(r) /\ ~CommitRotation(r)
  <2>1. /\ platform'.lost = platform.lost /\ platform'.refresh = platform.refresh
        /\ platform'.reused = platform.reused
    BY <1>1, <1>5, PlatformChanges DEF Tick, Withdraw, End, Platform
  <2>2. row'.refresh = row.refresh
    BY <1>1, <1>5, RowChanges DEF Tick, PersistAuthorization, Stored, TouchActivity, Row
  <2>3. \A r \in Requests : req[r].step = "rotated" => req'[r].step = "rotated"
    BY <1>5, RotatedStays
  <2> QED BY <2>1, <2>2, <2>3 DEF TokensKnown, RefreshTokenSpentOnce
<1> QED BY <1>2, <1>3, <1>4, <1>5

-----------------------------------------------------------------------------
(* Rights *)

\* Rights and verdicts are answers the platform gives now.
LEMMA Answers ==
  ASSUME Typed, Next, NEW r \in Requests, req'[r].step \in {"store", "answer"}
  PROVE  Stays(r) \/ ResolveAuthorizationContext(r) \/ State(r)
<1>1. ~Over(req'[r])
  BY DEF Over
<1>2. ASSUME NEW kind \in Guarded, Authenticate(r, kind) \/ AuthenticateCentral(r, kind)
      PROVE  FALSE
  BY <1>1, <1>2, AuthenticateEdge, AuthenticateCentralEdge
<1>3. ASSUME \/ PersistAuthorization(r) \/ ReadActivity(r) \/ TouchActivity(r)
             \/ CommitLogout(r) \/ AuditUnavailable(r) \/ Fails(r) \/ Respond(r)
      PROVE  FALSE
  BY <1>1, <1>3, FetchEdges, ActivityEdges, EndingEdges
<1>4. BackchannelLogout(r) => Stays(r)
  BY BackchannelEdge DEF Stays, Keeps
<1>5. ASSUME ReadCentral(r) \/ StateAnswered(r) \/ Inactive(r) \/ Verified(r) \/ Lock(r) \/ Locked(r)
      PROVE  State(r)
  BY <1>1, <1>5, VerdictEdges, EndingEdges, VerifiedEdge, LockEdge, LockedEdge
<1>6. ASSUME \/ PresentRefreshToken(r) \/ CommitRotation(r) \/ LoseRotation(r)
             \/ Denied(r) \/ Lifecycle(r) \/ LifecycleAnswered(r)
      PROVE  FALSE
  BY <1>1, <1>6, RotationEdges, EndingEdges, LifecycleEdges
<1>7. Leaves(r) => Stays(r)
  BY RotationEdges DEF Stays
<1>8. ASSUME \/ ReadLogin(r) \/ DeleteLogin(r) \/ ConsumeCentralLogin(r)
             \/ Exchange(r) \/ CreateSession(r)
      PROVE  FALSE
  BY <1>1, <1>8, LoginEdges
<1>9. ASSUME Issue(r) \/ Report(r) \/ Proxy(r) \/ ConsumeToken(r) \/ ProxyResource(r)
      PROVE  FALSE
  BY <1>1, <1>9, EmbedEdges
<1> QED BY <1>2, <1>3, <1>4, <1>5, <1>6, <1>7, <1>8, <1>9, StaysOrActs DEF Acts

\* Rights are taken once, and the time since then is counted.
LEMMA RightsMove ==
  ASSUME Typed, RightsKnown, Next
  PROVE  /\ ~platform.rights => ~platform'.rights /\ platform'.withdrawn >= platform.withdrawn
         /\ platform.rights /\ ~platform'.rights => platform'.withdrawn = 0
         /\ platform'.rights => platform'.withdrawn = 0
         /\ ~Tick /\ ~platform.rights => platform'.withdrawn = platform.withdrawn
<1>1. /\ platform \in Platform /\ platform.withdrawn \in 0..(CheckEvery + 1)
      /\ CheckEvery \in Nat /\ (platform.rights => platform.withdrawn = 0)
  BY Times DEF Typed, TypeOK, Platform, RightsKnown
<1>2. CASE Tick
  <2>1. platform'.rights = platform.rights
        /\ platform'.withdrawn = IF platform.rights THEN platform.withdrawn
                                 ELSE AtMost(platform.withdrawn + 1, CheckEvery + 1)
    BY <1>1, <1>2 DEF Tick, Platform
  <2>2. AtMost(platform.withdrawn + 1, CheckEvery + 1) >= platform.withdrawn
    BY <1>1 DEF AtMost
  <2> QED BY <1>1, <1>2, <2>1, <2>2
<1>3. CASE ~Tick
  <2>1. CASE Withdraw
    BY <1>1, <1>3, <2>1 DEF Withdraw, Platform
  <2>2. CASE platform'.rights = platform.rights /\ platform'.withdrawn = platform.withdrawn
    BY <1>1, <1>3, <2>2
  <2> QED BY <1>1, <1>3, <2>1, <2>2, PlatformChanges
          DEF End, PresentRefreshToken, LoseRotation, Platform
<1> QED BY <1>2, <1>3

LEMMA LifeGoesOn ==
  ASSUME Typed, Next
  PROVE  /\ row.life \in Nat /\ row'.life \in Nat /\ row'.life >= row.life
         /\ ~Tick => row'.life = row.life
<1>1. row \in Row /\ row' \in Row
  BY TypedNext DEF Typed, TypeOK
<1>2. row.life \in Nat /\ row'.life \in Nat
  BY <1>1, Times DEF Row
<1>3. Tick => row'.life = row.life + 1
  BY <1>1 DEF Tick, Row
<1>4. ~Tick => row'.life = row.life
  BY <1>1, RowChanges DEF PersistAuthorization, Stored, TouchActivity, CommitRotation, Row
<1> QED BY <1>2, <1>3, <1>4

LEMMA RightsKnownNext ==
  ASSUME Typed, RightsKnown, Next
  PROVE  RightsKnown'
<1>1. /\ row \in Row /\ platform \in Platform /\ CheckEvery \in Nat
      /\ row.check \in 0..(CheckEvery + 1) /\ platform.withdrawn \in 0..(CheckEvery + 1)
      /\ platform'.withdrawn \in 0..(CheckEvery + 1) /\ row'.check \in 0..(CheckEvery + 1)
      /\ \A r \in Requests : req[r].call \in Nat /\ req'[r].call \in Nat
  <2>1. Typed'
    BY TypedNext
  <2>2. /\ row' \in Row /\ platform' \in Platform /\ req' \in [Requests -> Request]
        /\ \A r \in Requests : req'[r] \in Request
    BY <2>1 DEF Typed, TypeOK
  <2> QED BY <2>2, Times, ParamType DEF Typed, TypeOK, Row, Platform, Request
<1>2. platform'.rights => platform'.withdrawn = 0
  BY RightsMove
<1>3. ASSUME ~platform'.rights, platform.rights PROVE RightsKnown'
  BY <1>1, <1>3, RightsMove DEF RightsKnown, Checked
<1>4. ASSUME ~platform'.rights, ~platform.rights, row'.rights
      PROVE  Checked'
  <2>1. CASE Tick
    <3>1. /\ row'.rights = row.rights /\ row'.check = AtMost(row.check + 1, CheckEvery + 1)
          /\ platform'.withdrawn = AtMost(platform.withdrawn + 1, CheckEvery + 1)
      BY <1>1, <1>4, <2>1 DEF Tick, Row, Platform
    <3>2. Checked
      BY <1>4, <3>1 DEF RightsKnown
    <3>3. row'.life = row.life + 1 /\ row.life \in Nat
      BY <1>1, <2>1, LifeGoesOn DEF Tick, Row
    <3> QED BY <1>1, <3>1, <3>2, <3>3 DEF AtMost, Checked
  <2>2. ASSUME NEW r \in Requests, PersistAuthorization(r)
        PROVE  Checked'
    <3>1. /\ req[r].step = "store" /\ row'.rights = req[r].rights
          /\ row'.check = AtMost(req[r].call, CheckEvery + 1)
          /\ platform' = platform
      BY <1>1, <2>2 DEF PersistAuthorization, Stored, Row
    <3>2. platform.withdrawn <= req[r].call
      BY <1>4, <3>1 DEF RightsKnown
    <3> QED BY <1>1, <3>1, <3>2 DEF AtMost, Checked
  <2>3. ASSUME NEW r \in Requests, CommitRotation(r)
        PROVE  Checked'
    <3>1. row'.check = CheckEvery + 1
      BY <1>1, <2>3 DEF CommitRotation, RotationCancelled, Row
    <3> QED BY <1>1, <3>1 DEF Checked
  <2>4. CASE /\ ~Tick /\ row'.rights = row.rights /\ row'.check = row.check
    BY <1>1, <1>4, <2>4, RightsMove, LifeGoesOn DEF RightsKnown, Checked
  <2>5. CASE UNCHANGED row \/ row' = [row EXCEPT !.revoked = TRUE]
    <3>1. row'.rights = row.rights /\ row'.check = row.check
      BY <1>1, <2>5 DEF Row
    <3> QED BY <2>1, <2>4, <3>1
  <2>6. ASSUME NEW r \in Requests, TouchActivity(r)
        PROVE  Checked'
    <3>1. row'.rights = row.rights /\ row'.check = row.check
      BY <1>1, <2>6 DEF TouchActivity, Row
    <3> QED BY <2>1, <2>4, <3>1
  <2> QED BY <2>1, <2>2, <2>3, <2>5, <2>6, RowChanges
<1>5. ASSUME NEW r \in Requests, ~platform'.rights, ~platform.rights,
             req'[r].step = "store", req'[r].rights
      PROVE  platform'.withdrawn <= req'[r].call
  <2>1. CASE Tick
    <3>1. req[r] \in Request /\ Counted(req[r]) /\ MayWait(req[r]) /\ req'[r] = Older(req[r])
      BY <2>1, ParamType, TickRequests
    <3>2. /\ req[r].step = "store" /\ req[r].rights /\ req'[r].call = req[r].call + 1
      BY <1>5, <3>1, OlderType
    <3>3. platform'.withdrawn = AtMost(platform.withdrawn + 1, CheckEvery + 1)
      BY <1>1, <1>5, <2>1 DEF Tick, Platform
    <3>4. platform.withdrawn <= req[r].call
      BY <1>5, <3>2 DEF RightsKnown
    <3> QED BY <1>1, <3>2, <3>3, <3>4 DEF AtMost
  <2>2. CASE ~Tick /\ Stays(r)
    <3>1. req[r].step = "store" /\ req[r].rights /\ req'[r].call = req[r].call
      BY <1>5, <2>2 DEF Stays, Keeps
    <3> QED BY <1>1, <1>5, <2>2, <3>1, RightsMove DEF RightsKnown
  <2>3. CASE ResolveAuthorizationContext(r)
    BY <1>5, <2>3, FetchEdges
  <2>4. CASE State(r)
    BY <1>5, <2>4, VerdictEdges DEF ReadCentral, StateAnswered
  <2> QED BY <1>5, <2>1, <2>2, <2>3, <2>4, Answers
<1> QED BY <1>2, <1>3, <1>4, <1>5 DEF RightsKnown

\* A request that came too late without rights gets none, whatever it read.
LEMMA LateRightsNext ==
  ASSUME Typed, RightsKnown, LateRightsGo, Next
  PROVE  LateRightsGo'
<1> DEFINE since == CheckEvery + (IF Central THEN 0 ELSE 1)
<1>1. /\ CheckEvery \in Nat /\ platform.withdrawn \in Nat /\ platform'.withdrawn \in Nat
      /\ row.check \in Nat /\ row.life \in Nat /\ (Central' <=> Central) /\ since \in Nat
  <2>1. platform' \in Platform /\ platform \in Platform /\ row \in Row
    BY TypedNext DEF Typed, TypeOK
  <2> QED BY <2>1, Times, LogoutChanges DEF Platform, Row, Central
<1>2. GoneFor(since) => ~platform'.rights /\ platform'.withdrawn >= since /\ row'.life >= since
  BY <1>1, RightsMove, LifeGoesOn DEF GoneFor
<1> SUFFICES ASSUME NEW r \in Requests, "rights" \in req'[r].late PROVE LateChecks(req[r])'
  BY DEF LateRightsGo
<1> DEFINE Goes(q) == q.rights =>
              \/ q.phase = 0 /\ q.due /\ q.step \in {"state", "asked", "answer", "ok", "inactive"}
              \/ q.phase \in {1, 2} /\ q.step \in {"lock", "state", "asked", "answer", "ok",
                                                   "inactive", "present", "rotated", "fetch"}
<1>3. ASSUME GoneFor(since), Goes(req'[r])
      PROVE  LateChecks(req[r])'
  BY <1>1, <1>2, <1>3 DEF LateChecks, GoneFor
<1> HIDE DEF since
<1>4. ASSUME req'[r].late = Late PROVE GoneFor(since)
  BY <1>4 DEF Late, since
<1>5. ASSUME req'[r].late = req[r].late
      PROVE  GoneFor(since) /\ Goes(req[r])
  BY <1>5 DEF LateRightsGo, LateChecks, since
<1> HIDE DEF Goes
<1>6. ~Over(req'[r]) /\ req'[r].late # {}
  BY DEF Over
<1>7. ASSUME NEW n \in Nat, GoneFor(n), row.rights PROVE row.check >= n
  BY <1>1, <1>7 DEF RightsKnown, Checked, GoneFor
<1>8. CASE Stays(r)
  BY <1>3, <1>5, <1>8 DEF Stays, Keeps, Goes
<1>9. ASSUME NEW kind \in Guarded, Authenticate(r, kind) PROVE LateChecks(req[r])'
  <2>1. req'[r].late = Late /\ ~Central
    BY <1>6, <1>9, AuthenticateEdge DEF Arrived
  <2>2. GoneFor(CheckEvery + 1)
    BY <1>1, <1>4, <2>1 DEF since
  <2>3. ~req'[r].rights
    <3>1. \/ req'[r].rights = FALSE
          \/ row.check <= CheckEvery /\ req'[r].rights = row.rights
      BY <1>6, <1>9, AuthenticateEdge
    <3>2. ASSUME row.check <= CheckEvery PROVE ~row.rights
      BY <1>1, <1>7, <2>2, <3>2
    <3> QED BY <3>1, <3>2
  <2> QED BY <1>3, <1>4, <2>1, <2>3 DEF Goes
<1>10. ASSUME NEW kind \in Guarded, AuthenticateCentral(r, kind) PROVE LateChecks(req[r])'
  <2>1. /\ req'[r].late = Late /\ Central /\ req'[r].phase = 0 /\ req'[r].step = "state"
        /\ req'[r].rights = row.rights /\ req'[r].due = NeedsRefresh
    BY <1>6, <1>10, AuthenticateCentralEdge DEF Arrived
  <2>2. GoneFor(CheckEvery)
    BY <1>1, <1>4, <2>1 DEF since
  <2>3. row.rights => NeedsRefresh
    BY <1>1, <1>7, <2>2 DEF NeedsRefresh
  <2> QED BY <1>3, <1>4, <2>1, <2>3 DEF Goes
<1>11. CASE ResolveAuthorizationContext(r)
  <2>1. req'[r].rights = platform.rights /\ req'[r].late = req[r].late
    BY <1>11, FetchEdges
  <2> QED BY <1>3, <1>5, <2>1 DEF Goes, GoneFor
<1>12. CASE PersistAuthorization(r)
  BY <1>3, <1>5, <1>12, FetchEdges DEF Goes, Keeps
<1>13. CASE ReadActivity(r) \/ TouchActivity(r)
  BY <1>3, <1>5, <1>6, <1>13, ActivityEdges DEF Goes, Keeps
<1>14. CASE BackchannelLogout(r)
  <2>1. UNCHANGED req
    BY <1>6, <1>14, BackchannelEdge
  <2> QED BY <1>3, <1>5, <2>1 DEF Goes
<1>15. CASE \/ Fails(r) \/ Respond(r) \/ Inactive(r) \/ Denied(r) \/ AuditUnavailable(r)
            \/ CommitLogout(r)
  BY <1>6, <1>15, EndingEdges
<1>16. CASE ReadCentral(r) \/ State(r) \/ StateAnswered(r)
  BY <1>3, <1>5, <1>16, VerdictEdges DEF Goes, Keeps
<1>17. CASE Verified(r)
  BY <1>3, <1>5, <1>17, VerifiedEdge DEF Goes, Keeps
<1>18. CASE Lock(r)
  BY <1>3, <1>5, <1>6, <1>18, LockEdge DEF Goes, Keeps
<1>19. CASE Locked(r)
  <2>1. GoneFor(since) /\ Goes(req[r])
    BY <1>5, <1>19, LockedEdge
  <2>2. ASSUME ~NeedsRefresh PROVE ~row.rights
    <3>1. ~(row.check >= CheckEvery)
      BY <2>2 DEF NeedsRefresh
    <3>2. since >= CheckEvery
      BY <1>1 DEF since
    <3> QED BY <1>1, <1>7, <2>1, <3>1, <3>2
  <2>3. Goes(req'[r])
    BY <1>19, <2>2, LockedEdge DEF Goes
  <2> QED BY <1>3, <2>1, <2>3
<1>20. CASE PresentRefreshToken(r) \/ CommitRotation(r) \/ LoseRotation(r) \/ Leaves(r)
  BY <1>3, <1>5, <1>6, <1>20, RotationEdges DEF Goes, Keeps
<1>21. CASE Lifecycle(r) \/ LifecycleAnswered(r)
  BY <1>3, <1>5, <1>6, <1>21, LifecycleEdges DEF Goes, Keeps
<1>22. CASE ReadLogin(r) \/ ConsumeCentralLogin(r)
  BY <1>6, <1>22, LoginEdges
<1>23. CASE DeleteLogin(r) \/ Exchange(r) \/ CreateSession(r)
  <2>1. CASE DeleteLogin(r) \/ CreateSession(r)
    BY <1>3, <1>5, <2>1, LoginEdges DEF Goes, Keeps, DeleteLogin
  <2>2. CASE Exchange(r)
    <3>1. req'[r].rights = platform.rights /\ req'[r].late = req[r].late
      BY <2>2, LoginEdges
    <3> QED BY <1>3, <1>5, <3>1 DEF Goes, GoneFor
  <2> QED BY <1>23, <2>1, <2>2
<1>24. CASE Issue(r) \/ Report(r) \/ ConsumeToken(r)
  BY <1>3, <1>5, <1>6, <1>24, EmbedEdges DEF Goes, Keeps
<1>25. CASE Proxy(r) \/ ProxyResource(r)
  BY <1>6, <1>25, EmbedEdges
<1> QED BY <1>8, <1>9, <1>10, <1>11, <1>12, <1>13, <1>14, <1>15, <1>16, <1>17, <1>18, <1>19,
           <1>20, <1>21, <1>22, <1>23, <1>24, <1>25, StaysOrActs DEF Acts

-----------------------------------------------------------------------------
(* Verdicts on the central session *)

\* The central session ends once, and the time since then is counted.
LEMMA EndMoves ==
  ASSUME Typed, VerdictsAge, Next
  PROVE  /\ ~platform.alive => ~platform'.alive /\ platform'.ended >= platform.ended
         /\ platform.alive /\ ~platform'.alive => platform'.ended = 0
         /\ platform'.alive => platform'.ended = 0
         /\ ~platform'.alive => Central'
         /\ ~Tick /\ ~platform.alive => platform'.ended = platform.ended
         /\ Tick /\ ~platform.alive => platform'.ended <= platform.ended + 1
<1>1. /\ platform \in Platform /\ platform.ended \in 0..Noticed /\ Noticed \in Nat
      /\ (platform.alive => platform.ended = 0) /\ (~platform.alive => Central)
      /\ (Central' <=> Central)
  BY Times, LogoutChanges DEF Typed, TypeOK, Platform, VerdictsAge, Central
<1>2. CASE Tick
  <2>1. platform'.alive = platform.alive
        /\ platform'.ended = IF platform.alive THEN platform.ended
                             ELSE AtMost(platform.ended + 1, Noticed)
    BY <1>1, <1>2 DEF Tick, Platform
  <2>2. /\ AtMost(platform.ended + 1, Noticed) >= platform.ended
        /\ AtMost(platform.ended + 1, Noticed) <= platform.ended + 1
    BY <1>1 DEF AtMost
  <2> QED BY <1>1, <1>2, <2>1, <2>2
<1>3. CASE ~Tick
  <2>1. CASE End
    <3>1. platform.alive /\ ~platform'.alive /\ platform'.ended = platform.ended
      BY <1>1, <2>1 DEF End, Platform
    <3>2. Central
      BY <2>1, MixesAssumption DEF End, Central, Typed, TypeOK
    <3> QED BY <1>1, <1>3, <3>1, <3>2
  <2>2. CASE platform'.alive = platform.alive /\ platform'.ended = platform.ended
    BY <1>1, <1>3, <2>2
  <2> QED BY <1>1, <1>3, <2>1, <2>2, PlatformChanges
          DEF Withdraw, PresentRefreshToken, LoseRotation, Platform
<1> QED BY <1>2, <1>3

\* A good verdict was asked for at most StateTimeout before it is cached.
LEMMA VerdictsAgeNext ==
  ASSUME Typed, VerdictsAge, Next
  PROVE  VerdictsAge'
<1>1. /\ platform.ended \in Nat /\ platform'.ended \in Nat /\ cache \in 0..CacheTTL
      /\ StateTimeout \in Nat /\ CacheTTL \in Nat
      /\ \A r \in Requests : req[r].call \in Nat /\ req'[r].call \in Nat
  <2>1. Typed'
    BY TypedNext
  <2>2. /\ platform' \in Platform /\ req' \in [Requests -> Request]
        /\ \A r \in Requests : req'[r] \in Request
    BY <2>1 DEF Typed, TypeOK
  <2> QED BY <2>2, Times, ParamType DEF Typed, TypeOK, Platform, Request
<1>2. (platform'.alive => platform'.ended = 0) /\ (~platform'.alive => Central')
  BY EndMoves
<1>3. ASSUME ~platform'.alive, platform.alive PROVE VerdictsAge'
  <2>1. platform'.ended = 0
    BY <1>3, EndMoves
  <2>2. cache' \in Nat
    BY TypedNext, Times DEF Typed, TypeOK
  <2>3. platform'.ended <= cache' + StateTimeout
    <3>1. \A m, n \in Nat : 0 <= m + n
      OBVIOUS
    <3> QED BY <1>1, <2>1, <2>2, <3>1, Zenon
  <2>4. \A r \in Requests : platform'.ended <= req'[r].call
    BY <1>1, <2>1
  <2> QED BY <1>2, <2>3, <2>4 DEF VerdictsAge
<1>4. ASSUME ~platform'.alive, ~platform.alive, cache' < CacheTTL
      PROVE  platform'.ended <= cache' + StateTimeout
  <2>1. CASE Tick
    <3>1. cache' = AtMost(cache + 1, CacheTTL) /\ platform'.ended <= platform.ended + 1
      BY <1>4, <2>1, EndMoves DEF Tick, NoEntry
    <3>2. cache' = cache + 1 /\ cache < CacheTTL
      BY <1>1, <1>4, <3>1 DEF AtMost
    <3>3. platform.ended <= cache + StateTimeout
      BY <1>4, <3>2 DEF VerdictsAge
    <3> QED BY <1>1, <3>1, <3>2, <3>3
  <2>2. CASE ~Tick /\ UNCHANGED cache
    BY <1>1, <1>4, <2>2, EndMoves DEF VerdictsAge
  <2>3. ASSUME NEW r \in Requests, StateAnswered(r), ~Tick, ~UNCHANGED cache
        PROVE  platform'.ended <= cache' + StateTimeout
    <3>1. req[r].step = "answer" /\ req[r].alive /\ cache' = 0 /\ platform' = platform
      <4>1. cache' = Cached(r) /\ cache' # CacheTTL /\ cache' # cache
        BY <1>1, <1>4, <2>3 DEF StateAnswered
      <4>2. req[r].alive /\ cache' = 0
        BY <4>1 DEF Cached, NoEntry
      <4> QED BY <2>3, <4>2 DEF StateAnswered
    <3>2. platform.ended <= req[r].call /\ req[r].call <= StateTimeout
      <4>1. Counted(req[r])
        BY ParamType
      <4> QED BY <1>4, <3>1, <4>1 DEF VerdictsAge, Counted
    <3> QED BY <1>1, <3>1, <3>2
  <2> QED BY <2>1, <2>2, <2>3, CacheChanges
<1>5. ASSUME NEW r \in Requests, ~platform'.alive, ~platform.alive,
             req'[r].step = "answer", req'[r].alive
      PROVE  platform'.ended <= req'[r].call
  <2>1. CASE Tick
    <3>1. req[r] \in Request /\ Counted(req[r]) /\ MayWait(req[r]) /\ req'[r] = Older(req[r])
      BY <2>1, ParamType, TickRequests
    <3>2. req[r].step = "answer" /\ req[r].alive /\ req'[r].call = req[r].call + 1
      BY <1>5, <3>1, OlderType
    <3>3. platform.ended <= req[r].call /\ platform'.ended <= platform.ended + 1
      BY <1>5, <2>1, <3>2, EndMoves DEF VerdictsAge
    <3> QED BY <1>1, <3>2, <3>3
  <2>2. CASE ~Tick /\ Stays(r)
    <3>1. req[r].step = "answer" /\ req[r].alive /\ req'[r].call = req[r].call
      BY <1>5, <2>2 DEF Stays
    <3> QED BY <1>1, <1>5, <2>2, <3>1, EndMoves DEF VerdictsAge
  <2>3. CASE State(r)
    <3>1. req'[r].alive = platform.alive
      BY <1>5, <2>3, VerdictEdges DEF ReadCentral, StateAnswered
    <3> QED BY <1>5, <3>1
  <2>4. CASE ResolveAuthorizationContext(r)
    BY <1>5, <2>4, FetchEdges
  <2> QED BY <1>5, <2>1, <2>2, <2>3, <2>4, Answers
<1> QED BY <1>2, <1>3, <1>4, <1>5 DEF VerdictsAge

\* A request that comes too late for the central session gets no further than its verdict.
LEMMA LateVerdictsNext ==
  ASSUME Typed, VerdictsAge, LateVerdictsFail, Next
  PROVE  LateVerdictsFail'
<1>1. /\ platform.ended \in Nat /\ platform'.ended \in Nat /\ Noticed \in Nat
      /\ cache \in Nat /\ StateTimeout \in Nat /\ CacheTTL \in Nat \ {0}
      /\ Noticed = StateTimeout + CacheTTL
  <2>1. platform' \in Platform /\ platform \in Platform
    BY TypedNext DEF Typed, TypeOK
  <2> QED BY <2>1, Times DEF Platform, Typed, TypeOK
<1>2. ~platform.alive /\ platform.ended >= Noticed
        => ~platform'.alive /\ platform'.ended >= Noticed
  BY <1>1, EndMoves
<1> DEFINE Asking(q) == q.step \in {"state", "asked", "answer", "inactive"}
<1> SUFFICES ASSUME NEW r \in Requests, "ended" \in req'[r].late
             PROVE  ~platform.alive /\ platform.ended >= Noticed /\ Asking(req'[r])
  BY <1>2 DEF LateVerdictsFail
<1>3. ASSUME req'[r].late = Late PROVE ~platform.alive /\ platform.ended >= Noticed
  BY <1>3 DEF Late
<1>4. ASSUME req'[r].late = req[r].late
      PROVE  ~platform.alive /\ platform.ended >= Noticed /\ Asking(req[r])
  BY <1>4 DEF LateVerdictsFail
<1> DEFINE Goal == ~platform.alive /\ platform.ended >= Noticed /\ Asking(req'[r])
<1>5. ~Over(req'[r]) /\ req'[r].late # {}
  BY DEF Over
<1>6. CASE Stays(r)
  BY <1>4, <1>6 DEF Stays, Keeps
<1>7. ASSUME NEW kind \in Guarded, Authenticate(r, kind) PROVE FALSE
  <2>1. req'[r].late = Late /\ ~Central
    BY <1>5, <1>7, AuthenticateEdge DEF Arrived
  <2> QED BY <1>3, <2>1 DEF VerdictsAge
<1>8. ASSUME NEW kind \in Guarded, AuthenticateCentral(r, kind) PROVE Goal
  BY <1>3, <1>5, <1>8, AuthenticateCentralEdge DEF Arrived
<1>9. CASE ResolveAuthorizationContext(r) \/ PersistAuthorization(r)
  BY <1>4, <1>9, FetchEdges DEF Keeps
<1>10. CASE ReadActivity(r) \/ TouchActivity(r)
  BY <1>4, <1>5, <1>10, ActivityEdges DEF Keeps
<1>11. CASE BackchannelLogout(r)
  <2>1. UNCHANGED req
    BY <1>5, <1>11, BackchannelEdge
  <2> QED BY <1>4, <2>1
<1>12. CASE \/ Fails(r) \/ Respond(r) \/ Inactive(r) \/ Denied(r) \/ AuditUnavailable(r)
            \/ CommitLogout(r)
  BY <1>5, <1>12, EndingEdges
<1>13. CASE ReadCentral(r) \/ State(r) \/ StateAnswered(r)
  <2>1. ~platform.alive /\ platform.ended >= Noticed
    BY <1>4, <1>13, VerdictEdges DEF Keeps
  <2>2. ~Hit(r)
    BY <1>1, <2>1 DEF Hit, VerdictsAge
  <2>3. ~(req[r].step = "answer" /\ req[r].alive)
    <3> SUFFICES ASSUME req[r].step = "answer", req[r].alive PROVE FALSE
      OBVIOUS
    <3>1. Counted(req[r]) /\ req[r].call \in Nat
      BY ParamType
    <3>2. platform.ended <= req[r].call /\ req[r].call <= StateTimeout
      BY <2>1, <3>1 DEF VerdictsAge, Counted
    <3> QED BY <1>1, <2>1, <3>1, <3>2
  <2> QED BY <1>13, <2>1, <2>2, <2>3, VerdictEdges
<1>14. CASE Verified(r)
  BY <1>4, <1>14, VerifiedEdge DEF Keeps
<1>15. CASE Lock(r) \/ Locked(r)
  BY <1>4, <1>5, <1>15, LockEdge, LockedEdge DEF Keeps
<1>16. CASE PresentRefreshToken(r) \/ CommitRotation(r) \/ LoseRotation(r) \/ Leaves(r)
  BY <1>4, <1>5, <1>16, RotationEdges DEF Keeps
<1>17. CASE Lifecycle(r) \/ LifecycleAnswered(r)
  BY <1>4, <1>5, <1>17, LifecycleEdges DEF Keeps
<1>18. CASE ReadLogin(r) \/ ConsumeCentralLogin(r)
  BY <1>5, <1>18, LoginEdges
<1>19. CASE DeleteLogin(r) \/ Exchange(r) \/ CreateSession(r)
  BY <1>4, <1>19, LoginEdges DEF Keeps, DeleteLogin
<1>20. CASE Issue(r) \/ Report(r) \/ ConsumeToken(r)
  BY <1>4, <1>5, <1>20, EmbedEdges DEF Keeps
<1>21. CASE Proxy(r) \/ ProxyResource(r)
  BY <1>5, <1>21, EmbedEdges
<1> QED BY <1>6, <1>7, <1>8, <1>9, <1>10, <1>11, <1>12, <1>13, <1>14, <1>15, <1>16, <1>17,
           <1>18, <1>19, <1>20, <1>21, StaysOrActs DEF Acts

-----------------------------------------------------------------------------
(* The theorems *)

Inv ==
  /\ Typed /\ LocksHeld /\ TokensKnown /\ LogoutKept /\ LoginSpent /\ TokenKept
  /\ RightsKnown /\ LateRightsGo /\ VerdictsAge /\ LateVerdictsFail

LEMMA InvInit == Init => Inv
<1> SUFFICES ASSUME Init PROVE Inv
  OBVIOUS
<1>1. Typed
  BY TypedInit
<1>2. \A r \in Requests : /\ req[r].step = "free" /\ req[r].phase = 0
                          /\ req[r].late = {} /\ ~req[r].rights
  BY NoRequestType DEF Init, SessionInit
<1>3. LocksHeld
  BY <1>2 DEF LocksHeld, Holding
<1>4. TokensKnown
  BY DEF Init, SessionInit, NewRow, NewPlatform, TokensKnown, RefreshTokenSpentOnce
<1>5. LogoutKept
  BY SlotsAssumption DEF Init, SessionInit, LogoutKept
<1>6. LoginSpent
  BY <1>2 DEF Init, LoginInit, LoginSpent, Creating, OneSessionPerLogin
<1>7. TokenKept
  BY <1>2 DEF Init, EmbedInit, TokenKept, Issuing, EmbedOpensOnce
<1>8. RightsKnown
  <2>1. (platform.rights => platform.withdrawn = 0) /\ row.life <= row.check
    BY DEF Init, SessionInit, NewRow, NewPlatform
  <2> QED BY <1>2, <2>1 DEF RightsKnown, Checked
<1>9. LateRightsGo
  BY <1>2 DEF LateRightsGo
<1>10. VerdictsAge
  BY <1>2 DEF Init, SessionInit, NewPlatform, VerdictsAge
<1>11. LateVerdictsFail
  BY <1>2 DEF LateVerdictsFail
<1> QED BY <1>1, <1>3, <1>4, <1>5, <1>6, <1>7, <1>8, <1>9, <1>10, <1>11 DEF Inv

LEMMA InvNext == Inv /\ [Next]_vars => Inv'
<1>1. ASSUME Inv, Next PROVE Inv'
  BY <1>1, TypedNext, LocksHeldNext, TokensKnownNext, LogoutNext, LoginSpentNext,
     TokenKeptNext, RightsKnownNext, LateRightsNext, VerdictsAgeNext, LateVerdictsNext DEF Inv
<1>2. ASSUME Inv, UNCHANGED vars PROVE Inv'
  <2>1. UNCHANGED <<mix, row, lock, req, platform, cache, replay, acked, login, created,
                    token, opened>>
    BY <1>2 DEF vars, sessionVars, loginVars, embedVars
  <2>2. Typed'
    BY <1>2, <2>1 DEF Inv, Typed, TypeOK
  <2>3. LocksHeld' /\ TokensKnown' /\ LogoutKept'
    BY <1>2, <2>1 DEF Inv, LocksHeld, TokensKnown, RefreshTokenSpentOnce, LogoutKept
  <2>4. LoginSpent' /\ TokenKept'
    BY <1>2, <2>1 DEF Inv, LoginSpent, OneSessionPerLogin, TokenKept, EmbedOpensOnce, AuditRequired
  <2>5. RightsKnown' /\ LateRightsGo'
    BY <1>2, <2>1 DEF Inv, RightsKnown, Checked, LateRightsGo, LateChecks, GoneFor, Central
  <2>6. VerdictsAge' /\ LateVerdictsFail'
    BY <1>2, <2>1 DEF Inv, VerdictsAge, LateVerdictsFail, Central
  <2> QED BY <2>2, <2>3, <2>4, <2>5, <2>6 DEF Inv
<1> QED BY <1>1, <1>2

\* The variables of the session, its requests, logins and embed tokens keep their types.
THEOREM TypeCorrect == Spec => []TypeOK
<1>1. Inv => TypeOK
  BY DEF Inv, Typed
<1> QED BY <1>1, InvInit, InvNext, PTL DEF Spec

\* No write of a request that read the session before its revocation undoes it
\* (service.go:512-519, session_governance.go:136).
THEOREM RevokedStays == Spec => RevokedForGood
<1>1. Inv /\ [Next]_vars => [row.revoked => row'.revoked]_vars
  BY NeverUnrevoked DEF Inv
<1> QED BY <1>1, InvInit, InvNext, PTL DEF Spec, RevokedForGood

\* A logout the platform has its 200 for has revoked the session, in whatever order its
\* deliveries ran and failed (backchannel_logout.go:57-89).
THEOREM LogoutHolds == Spec => []AcknowledgedLogoutHolds
<1>1. Inv => AcknowledgedLogoutHolds
  BY DEF Inv, LogoutKept, AcknowledgedLogoutHolds
<1> QED BY <1>1, InvInit, InvNext, PTL DEF Spec

\* Rights that were taken are not served to a request that comes more than CheckEvery
\* later (service.go:495-512).
THEOREM RightsGo == Spec => []WithdrawnRightsGo
<1>1. Inv => WithdrawnRightsGo
  BY DEF Inv, LateRightsGo, LateChecks, WithdrawnRightsGo
<1> QED BY <1>1, InvInit, InvNext, PTL DEF Spec

\* A request that comes StateTimeout + CacheTTL after the end of the central session is
\* not served (client.go:131-152, 207-220).
THEOREM EndIsNoticed == Spec => []EndedSessionIsNoticed
<1>1. Inv => EndedSessionIsNoticed
  BY DEF Inv, LateVerdictsFail, EndedSessionIsNoticed
<1> QED BY <1>1, InvInit, InvNext, PTL DEF Spec

\* A refresh token is presented twice only if what a rotation got was lost
\* (session_rotation.go:25).
THEOREM TokensSpentOnce == Spec => []RefreshTokenSpentOnce
<1>1. Inv => RefreshTokenSpentOnce
  BY DEF Inv, TokensKnown
<1> QED BY <1>1, InvInit, InvNext, PTL DEF Spec

\* A login creates one session, however many callbacks come with its state
\* (service.go:644-653, session_governance_http.go:16-31).
THEOREM SingleSession == Spec => []OneSessionPerLogin
<1>1. Inv => OneSessionPerLogin
  BY DEF Inv, LoginSpent
<1> QED BY <1>1, InvInit, InvNext, PTL DEF Spec

\* An embed token opens its dashboard once (embed.go:268-291).
THEOREM SingleOpening == Spec => []EmbedOpensOnce
<1>1. Inv => EmbedOpensOnce
  BY DEF Inv, TokenKept
<1> QED BY <1>1, InvInit, InvNext, PTL DEF Spec

\* Where the audit is required no dashboard is opened with a token the platform has no
\* event of (audit.go:71-107).
THEOREM AuditedDashboards == Spec => []DashboardsAreAudited
<1>1. Inv => DashboardsAreAudited
  BY DEF Inv, TokenKept, AuditRequired, DashboardsAreAudited
<1> QED BY <1>1, InvInit, InvNext, PTL DEF Spec
=============================================================================
