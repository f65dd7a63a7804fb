----------------------- MODULE ProjectProjectionProofs -----------------------
(* Proofs about ProjectProjection for any workers, snapshots and limits. *)
EXTENDS ProjectProjectionProps, FiniteSetTheorems, TLAPS

-----------------------------------------------------------------------------
(* Lemmas *)

\* The rows built from a set of projects are as many as the projects, both as
\* rows of the staging table and as rows of dim_project.
LEMMA RowsCount ==
  ASSUME NEW S \in SUBSET Projects, NEW run, NEW q
  PROVE  /\ IsFiniteSet(S)
         /\ Cardinality([run : {run}, snapshot : {q}, project : S]) = Cardinality(S)
         /\ Cardinality([snapshot : {q}, project : S]) = Cardinality(S)
<1>1. IsFiniteSet(S)
  BY ProjectsAssumption, FS_Subset
<1>2. ASSUME NEW T, NEW f \in [S -> T],
             \A a, b \in S : f[a] = f[b] => a = b,
             \A t \in T : \E s \in S : f[s] = t
      PROVE  Cardinality(T) = Cardinality(S)
  <2>1. f \in Bijection(S, T)
    BY <1>2 DEF Bijection, Injection, Surjection, IsInjective
  <2> QED BY <1>1, <2>1, FS_Bijection DEF ExistsBijection
<1>3. Cardinality([run : {run}, snapshot : {q}, project : S]) = Cardinality(S)
  <2> DEFINE T == [run : {run}, snapshot : {q}, project : S]
             f == [p \in S |-> [run |-> run, snapshot |-> q, project |-> p]]
  <2>1. f \in [S -> T]
    OBVIOUS
  <2>2. \A a, b \in S : f[a] = f[b] => a = b
    <3> SUFFICES ASSUME NEW a \in S, NEW b \in S, f[a] = f[b] PROVE a = b
      OBVIOUS
    <3>1. f[a].project = a /\ f[b].project = b
      OBVIOUS
    <3> QED BY <3>1
  <2>3. \A t \in T : \E s \in S : f[s] = t
    <3> SUFFICES ASSUME NEW t \in T PROVE f[t.project] = t /\ t.project \in S
      OBVIOUS
    <3> QED OBVIOUS
  <2> HIDE DEF T, f
  <2>4. Cardinality(T) = Cardinality(S)
    BY <1>2, <2>1, <2>2, <2>3
  <2> QED BY <2>4 DEF T
<1>4. Cardinality([snapshot : {q}, project : S]) = Cardinality(S)
  <2> DEFINE T == [snapshot : {q}, project : S]
             f == [p \in S |-> [snapshot |-> q, project |-> p]]
  <2>1. f \in [S -> T]
    OBVIOUS
  <2>2. \A a, b \in S : f[a] = f[b] => a = b
    <3> SUFFICES ASSUME NEW a \in S, NEW b \in S, f[a] = f[b] PROVE a = b
      OBVIOUS
    <3>1. f[a].project = a /\ f[b].project = b
      OBVIOUS
    <3> QED BY <3>1
  <2>3. \A t \in T : \E s \in S : f[s] = t
    <3> SUFFICES ASSUME NEW t \in T PROVE f[t.project] = t /\ t.project \in S
      OBVIOUS
    <3> QED OBVIOUS
  <2> HIDE DEF T, f
  <2>4. Cardinality(T) = Cardinality(S)
    BY <1>2, <2>1, <2>2, <2>3
  <2> QED BY <2>4 DEF T
<1> QED BY <1>1, <1>3, <1>4

\* A fresh or finished attempt has its type.
LEMMA IdleType == Idle \in Attempt
BY DEF Idle, Attempt, Stages, NoRun

\* Only one attempt has the turn.
LEMMA OneOwner ==
  ASSUME Inv, NEW v \in Workers, NEW w \in Workers,
         wk[v].pc # "idle", wk[w].pc # "idle", Owns(v), Owns(w)
  PROVE  v = w
BY DEF Inv, TurnsAreDrawn, Owns

\* A worker that goes on with its attempt, or ends it, keeps the invariant if it
\* keeps its own part; it writes tables only if it has the turn.
LEMMA AttemptKeepsInv ==
  ASSUME Inv, NEW w \in Workers, NEW attempt \in Attempt,
         Becomes(w, attempt), wk[w].pc # "idle",
         attempt = Idle \/ (attempt.pc # "idle" /\ attempt.run = wk[w].run),
         Owns(w) \/ UNCHANGED <<state, stage>>,
         state' \in StateRow, state'.gen = state.gen,
         stage' \in SUBSET StageRow, \A r \in stage' : r.run <= state.gen,
         dim' \in SUBSET DimRow,
         HasStaging(w)', StagingHoldsOneRun', EndedLeavesNothing', PublishedIsWhole'
  PROVE  Inv'
<1>1. wk \in [Workers -> Attempt] /\ state \in StateRow
  BY DEF Inv, TypeOK
<1>2. wk' \in [Workers -> Attempt]
      /\ \A v \in Workers : wk'[v] = IF v = w THEN attempt ELSE wk[v]
  BY <1>1 DEF Becomes
<1>3. TypeOK'
  BY <1>2 DEF TypeOK
<1>4. Idle.pc = "idle" /\ Idle.run = NoRun
  BY DEF Idle
<1>5. state.gen \in Nat /\ wk[w].run \in Nat
  BY <1>1 DEF StateRow, Attempt
<1>6. TurnsAreDrawn'
  <2>1. \A v \in Workers :
          wk'[v].run <= state.gen /\ (wk'[v].pc # "idle" => wk'[v].run # NoRun)
    BY <1>2, <1>4, <1>5 DEF Inv, TurnsAreDrawn, NoRun
  <2>2. \A v \in Workers : wk'[v].pc # "idle" =>
          wk[v].pc # "idle" /\ wk'[v].run = wk[v].run
    BY <1>2, <1>4
  <2>3. \A u, v \in Workers :
          wk'[u].pc # "idle" /\ wk'[v].pc # "idle" /\ wk'[u].run = wk'[v].run => u = v
    BY <2>2 DEF Inv, TurnsAreDrawn
  <2> QED BY <2>1, <2>3 DEF TurnsAreDrawn
<1>7. ASSUME NEW v \in Workers PROVE HasStaging(v)'
  <2>1. CASE v = w
    BY <2>1
  <2>2. CASE v # w /\ UNCHANGED <<state, stage>>
    <3>1. HasStaging(v) /\ wk'[v] = wk[v]
      BY <1>2, <2>2 DEF Inv
    <3> QED BY <2>2, <3>1 DEF HasStaging, Owns, Projected
  <2>3. CASE v # w /\ Owns(w)
    <3>1. wk'[v] = wk[v]
      BY <1>2, <2>3
    <3>2. ~(wk[v].pc # "idle" /\ wk[v].run = state.gen)
      BY <2>3 DEF Inv, TurnsAreDrawn, Owns
    <3> QED BY <3>1, <3>2 DEF HasStaging, Owns
  <2> QED BY <2>1, <2>2, <2>3
<1> QED BY <1>3, <1>6, <1>7 DEF Inv

-----------------------------------------------------------------------------
(* The inductive invariant, action by action *)

LEMMA InvInit == Init => Inv
<1> SUFFICES ASSUME Init PROVE Inv
  OBVIOUS
<1>1. TypeOK
  BY IdleType DEF Init, TypeOK, StateRow, DimRow, NoRun
<1>2. TurnsAreDrawn
  BY DEF Init, TurnsAreDrawn, Idle, NoRun
<1>3. \A w \in Workers : HasStaging(w)
  BY DEF Init, HasStaging, Idle
<1>4. StagingHoldsOneRun /\ EndedLeavesNothing /\ PublishedIsWhole
  BY DEF Init, StagingHoldsOneRun, EndedLeavesNothing, PublishedIsWhole, NoRun
<1> QED BY <1>1, <1>2, <1>3, <1>4 DEF Inv

\* A new attempt takes the turn from every other one.
LEMMA BeginKeepsInv ==
  ASSUME Inv, NEW w \in Workers, Begin(w)
  PROVE  Inv'
<1> DEFINE g       == state.gen + 1
           attempt == [Idle EXCEPT !.pc = "reclaim", !.run = g]
<1>1. /\ wk \in [Workers -> Attempt] /\ state \in StateRow /\ state.gen \in Nat
      /\ stage \in SUBSET StageRow
  BY DEF Inv, TypeOK, StateRow
<1>a. g \in Nat
  BY <1>1
<1> HIDE DEF g
<1>2. /\ attempt \in Attempt /\ attempt.pc = "reclaim" /\ attempt.run = g
      /\ attempt.batch = {}
  BY <1>a, IdleType DEF Attempt, Stages, Idle
<1>b. state' = [state EXCEPT !.gen = g, !.status = "RUNNING"]
  BY DEF Begin, g
<1> HIDE DEF attempt
<1>3. wk' = [wk EXCEPT ![w] = attempt]
  BY DEF Begin, Becomes, attempt, g
<1>4. \A v \in Workers : wk'[v] = IF v = w THEN attempt ELSE wk[v]
  BY <1>1, <1>3
<1>5. /\ state' \in StateRow /\ state'.gen = g
      /\ state'.status = "RUNNING" /\ state'.pubRun = state.pubRun
      /\ state'.pubSnapshot = state.pubSnapshot /\ state'.pubTotal = state.pubTotal
  BY <1>1, <1>a, <1>b DEF StateRow
<1>c. g = state.gen + 1
  BY DEF g
<1>6. stage' = stage /\ dim' = dim
  BY DEF Begin
<1>7. TypeOK'
  BY <1>2, <1>3, <1>5, <1>6 DEF Inv, TypeOK
<1>8. \A v \in Workers : wk[v].run \in Nat /\ wk[v].run <= state.gen
  BY <1>1 DEF Inv, TurnsAreDrawn, Attempt
<1>9. \A r \in stage : r.run \in Nat /\ r.run <= state.gen
  BY <1>1 DEF Inv, TurnsAreDrawn, StageRow
<1>10. TurnsAreDrawn'
  <2>1. \A r \in stage' : r.run <= state'.gen
    BY <1>1, <1>c, <1>5, <1>6, <1>9
  <2>2. \A v \in Workers :
          wk'[v].run <= state'.gen /\ (wk'[v].pc # "idle" => wk'[v].run # NoRun)
    BY <1>1, <1>c, <1>2, <1>4, <1>5, <1>8 DEF Inv, TurnsAreDrawn, NoRun
  <2>3. ASSUME NEW u \in Workers, NEW v \in Workers, wk'[u].pc # "idle",
               wk'[v].pc # "idle", wk'[u].run = wk'[v].run
        PROVE  u = v
    BY <1>1, <1>c, <1>2, <1>4, <1>8, <2>3 DEF Inv, TurnsAreDrawn
  <2> QED BY <2>1, <2>2, <2>3 DEF TurnsAreDrawn
<1>11. ASSUME NEW v \in Workers PROVE HasStaging(v)'
  <2>1. CASE v = w
    <3>1. wk'[v] = attempt /\ \A r \in stage' : r.run # wk'[v].run
      BY <1>1, <1>c, <1>2, <1>4, <1>6, <1>9, <2>1
    <3> QED BY <1>2, <3>1 DEF HasStaging
  <2>2. CASE v # w
    <3>1. ~Owns(v)'
      BY <1>1, <1>c, <1>4, <1>5, <1>8, <2>2 DEF Owns
    <3> QED BY <3>1 DEF HasStaging
  <2> QED BY <2>1, <2>2
<1>12. StagingHoldsOneRun' /\ EndedLeavesNothing' /\ PublishedIsWhole'
  BY <1>5, <1>6 DEF Inv, StagingHoldsOneRun, EndedLeavesNothing, PublishedIsWhole
<1> QED BY <1>7, <1>10, <1>11, <1>12 DEF Inv

\* What a step that leaves the tables alone has to show.
LEMMA LocalKeepsInv ==
  ASSUME Inv, NEW w \in Workers, NEW attempt \in Attempt,
         Becomes(w, attempt), wk[w].pc # "idle",
         attempt = Idle \/ (attempt.pc # "idle" /\ attempt.run = wk[w].run),
         UNCHANGED <<state, stage, dim>>, HasStaging(w)'
  PROVE  Inv'
<1>1. /\ state' \in StateRow /\ state'.gen = state.gen
      /\ stage' \in SUBSET StageRow /\ \A r \in stage' : r.run <= state.gen
      /\ dim' \in SUBSET DimRow
  BY DEF Inv, TypeOK, TurnsAreDrawn
<1>2. StagingHoldsOneRun' /\ EndedLeavesNothing' /\ PublishedIsWhole'
  BY DEF Inv, StagingHoldsOneRun, EndedLeavesNothing, PublishedIsWhole
<1> QED BY <1>1, <1>2, AttemptKeepsInv

\* An idle worker has nothing to keep.
LEMMA IdleHasStaging ==
  ASSUME Inv, NEW w \in Workers, Becomes(w, Idle)
  PROVE  HasStaging(w)'
<1>1. wk'[w] = Idle
  BY DEF Becomes, Inv, TypeOK
<1> QED BY <1>1 DEF HasStaging, Idle

LEMMA VanishKeepsInv ==
  ASSUME Inv, NEW w \in Workers, Vanish(w)
  PROVE  Inv'
<1>1. Becomes(w, Idle) /\ wk[w].pc # "idle" /\ UNCHANGED <<state, stage, dim>>
  BY DEF Vanish
<1>2. HasStaging(w)'
  BY <1>1, IdleHasStaging
<1> QED BY <1>1, <1>2, IdleType, LocalKeepsInv

\* A failed attempt keeps nothing but its staged rows.
LEMMA StumbleKeepsInv ==
  ASSUME Inv, NEW w \in Workers, Stumble(w)
  PROVE  Inv'
<1>1. wk[w] \in Attempt /\ wk \in [Workers -> Attempt]
  BY DEF Inv, TypeOK
<1>2. wk[w].pc # "idle" /\ UNCHANGED <<state, stage, dim>>
  BY DEF Stumble
<1>3. CASE wk[w].pc = "reclaim"
  BY <1>2, <1>3, IdleType, IdleHasStaging, LocalKeepsInv DEF Stumble
<1>4. CASE wk[w].pc # "reclaim"
  <2> DEFINE attempt == [wk[w] EXCEPT !.pc = "fail"]
  <2>1. /\ attempt \in Attempt /\ attempt.pc = "fail" /\ attempt.run = wk[w].run
        /\ Becomes(w, attempt)
    BY <1>1, <1>4 DEF Stumble, Attempt, Stages
  <2> HIDE DEF attempt
  <2>2. wk'[w] = attempt
    BY <1>1, <2>1 DEF Becomes
  <2>3. HasStaging(w)
    BY DEF Inv
  <2>4. HasStaging(w)'
    BY <1>2, <1>4, <2>1, <2>2, <2>3 DEF HasStaging, Owns
  <2> QED BY <1>2, <2>1, <2>4, LocalKeepsInv
<1> QED BY <1>3, <1>4

LEMMA RequestKeepsInv ==
  ASSUME Inv, NEW w \in Workers, NEW q \in Snapshots, Request(w, q)
  PROVE  Inv'
<1> DEFINE attempt == [wk[w] EXCEPT !.pc = "read", !.snapshot = q, !.rest = Content[q]]
<1>1. wk[w] \in Attempt /\ wk \in [Workers -> Attempt] /\ wk[w].pc = "request"
  BY DEF Inv, TypeOK, Request
<1>2. Content[q] \in SUBSET Projects
  BY ProjectsAssumption
<1>3. /\ attempt \in Attempt /\ attempt.pc = "read" /\ attempt.run = wk[w].run
      /\ attempt.snapshot = q /\ attempt.rest = Content[q]
      /\ attempt.batch = wk[w].batch
  BY <1>1, <1>2 DEF Attempt, Stages
<1>4. Becomes(w, attempt) /\ UNCHANGED <<state, stage, dim>>
  BY DEF Request
<1> HIDE DEF attempt
<1>5. wk'[w] = attempt
  BY <1>1, <1>4 DEF Becomes
<1>6. HasStaging(w)
  BY DEF Inv
<1>7. HasStaging(w)'
  <2> SUFFICES ASSUME Owns(w)' PROVE HasStaging(w)'
    BY DEF HasStaging
  <2>1. Owns(w)
    BY <1>3, <1>4, <1>5 DEF Owns
  <2>2. stage' = {} /\ Projected' = {}
    BY <1>1, <1>4, <1>6, <2>1 DEF HasStaging, Projected
  <2>3. wk[w].batch = {}
    BY <1>1, <1>6, <2>1 DEF HasStaging
  <2> QED BY <1>3, <1>5, <2>2, <2>3 DEF HasStaging
<1> QED BY <1>1, <1>3, <1>4, <1>7, LocalKeepsInv

LEMMA ReadRowKeepsInv ==
  ASSUME Inv, NEW w \in Workers, ReadRow(w)
  PROVE  Inv'
<1>1. wk[w] \in Attempt /\ wk \in [Workers -> Attempt] /\ wk[w].pc = "read"
  BY DEF Inv, TypeOK, ReadRow
<1>2. PICK p \in wk[w].rest, lost \in BOOLEAN : 
        LET batch == IF lost THEN wk[w].batch ELSE wk[w].batch \cup {p}
            full  == Cardinality(batch) = BatchSize
        IN  Becomes(w, [wk[w] EXCEPT !.pc = IF full THEN "flush" ELSE "read",
                          !.rest = @ \ {p}, !.batch = batch,
                          !.total = IF lost THEN @ ELSE @ + 1,
                          !.whole = @ /\ ~lost])
  BY DEF ReadRow
<1> DEFINE batch == IF lost THEN wk[w].batch ELSE wk[w].batch \cup {p}
           pc    == IF Cardinality(batch) = BatchSize THEN "flush" ELSE "read"
           total == IF lost THEN wk[w].total ELSE wk[w].total + 1
           rest  == wk[w].rest \ {p}
           whole == wk[w].whole /\ ~lost
           attempt == [wk[w] EXCEPT !.pc = pc, !.rest = rest, !.batch = batch,
                                    !.total = total, !.whole = whole]
<1>3. Becomes(w, attempt) /\ UNCHANGED <<state, stage, dim>>
  BY <1>2 DEF ReadRow
<1>4. /\ wk[w].rest \in SUBSET Projects /\ wk[w].batch \in SUBSET Projects
      /\ wk[w].total \in Nat /\ wk[w].whole \in BOOLEAN
  BY <1>1 DEF Attempt
<1>5. /\ batch \in SUBSET Projects /\ rest \in SUBSET Projects /\ total \in Nat
      /\ whole \in BOOLEAN /\ pc \in {"flush", "read"}
      /\ whole => wk[w].whole /\ batch \cup rest = wk[w].batch \cup wk[w].rest
  BY <1>4
<1> HIDE DEF batch, rest, total, whole, pc
<1>6. /\ attempt \in Attempt /\ attempt.pc = pc /\ attempt.run = wk[w].run
      /\ attempt.snapshot = wk[w].snapshot /\ attempt.rest = rest
      /\ attempt.batch = batch /\ attempt.whole = whole
  BY <1>1, <1>5 DEF Attempt, Stages
<1> HIDE DEF attempt
<1>7. wk'[w] = attempt
  BY <1>1, <1>3 DEF Becomes
<1>8. HasStaging(w)'
  <2> SUFFICES ASSUME Owns(w)' PROVE HasStaging(w)'
    BY DEF HasStaging
  <2>1. Owns(w)
    BY <1>3, <1>6, <1>7 DEF Owns
  <2>2. /\ \A r \in stage : r.run = wk[w].run
        /\ wk[w].snapshot \in Snapshots
        /\ \A r \in stage : r.snapshot = wk[w].snapshot
        /\ wk[w].whole =>
             Projected \cup wk[w].batch \cup wk[w].rest = Content[wk[w].snapshot]
    BY <1>1, <2>1 DEF Inv, HasStaging
  <2>3. whole => Projected \cup batch \cup rest = Content[wk[w].snapshot]
    BY <1>5, <2>2
  <2>4. Projected' = Projected
    BY <1>3 DEF Projected
  <2> QED BY <1>3, <1>5, <1>6, <1>7, <2>2, <2>3, <2>4 DEF HasStaging
<1> QED BY <1>1, <1>3, <1>5, <1>6, <1>8, LocalKeepsInv

LEMMA ReadEndKeepsInv ==
  ASSUME Inv, NEW w \in Workers, ReadEnd(w)
  PROVE  Inv'
<1> DEFINE pc == IF ~wk[w].whole THEN "fail" 
                 ELSE IF wk[w].batch = {} THEN "publish" ELSE "last"
           attempt == [wk[w] EXCEPT !.pc = pc]
<1>1. /\ wk[w] \in Attempt /\ wk \in [Workers -> Attempt]
      /\ wk[w].pc = "read" /\ wk[w].rest = {}
  BY DEF Inv, TypeOK, ReadEnd
<1>2. Becomes(w, attempt) /\ UNCHANGED <<state, stage, dim>>
  BY DEF ReadEnd
<1>3. /\ pc \in {"fail", "publish", "last"}
      /\ pc # "fail" => wk[w].whole
      /\ pc = "publish" => wk[w].batch = {}
  OBVIOUS
<1> HIDE DEF pc
<1>4. /\ attempt \in Attempt /\ attempt.pc = pc /\ attempt.run = wk[w].run
      /\ attempt.snapshot = wk[w].snapshot /\ attempt.rest = wk[w].rest
      /\ attempt.batch = wk[w].batch /\ attempt.whole = wk[w].whole
  BY <1>1, <1>3 DEF Attempt, Stages
<1> HIDE DEF attempt
<1>5. wk'[w] = attempt
  BY <1>1, <1>2 DEF Becomes
<1>6. HasStaging(w)'
  <2> SUFFICES ASSUME Owns(w)' PROVE HasStaging(w)'
    BY DEF HasStaging
  <2>1. Owns(w)
    BY <1>2, <1>4, <1>5 DEF Owns
  <2>2. /\ \A r \in stage : r.run = wk[w].run
        /\ wk[w].snapshot \in Snapshots
        /\ \A r \in stage : r.snapshot = wk[w].snapshot
        /\ wk[w].whole =>
             Projected \cup wk[w].batch \cup wk[w].rest = Content[wk[w].snapshot]
    BY <1>1, <2>1 DEF Inv, HasStaging
  <2>3. Projected' = Projected
    BY <1>2 DEF Projected
  <2> QED BY <1>1, <1>2, <1>3, <1>4, <1>5, <2>2, <2>3 DEF HasStaging
<1> QED BY <1>1, <1>2, <1>3, <1>4, <1>6, LocalKeepsInv

\* The batch joins the staged rows of the attempt, which has the table to itself.
LEMMA StageKeepsInv ==
  ASSUME Inv, NEW w \in Workers, Stage(w)
  PROVE  Inv'
<1> DEFINE pc == IF wk[w].pc = "flush" THEN "read" ELSE "publish"
           attempt == [wk[w] EXCEPT !.pc = pc, !.batch = {}]
           rows == [run : {wk[w].run}, snapshot : {wk[w].snapshot},
                    project : wk[w].batch]
<1>1. /\ wk[w] \in Attempt /\ wk \in [Workers -> Attempt]
      /\ wk[w].pc \in {"flush", "last"} /\ Owns(w) /\ state \in StateRow
      /\ stage \in SUBSET StageRow /\ dim \in SUBSET DimRow
  BY DEF Inv, TypeOK, Stage
<1>2. Becomes(w, attempt) /\ UNCHANGED <<state, dim>> /\ stage' = stage \cup rows
  BY DEF Stage
<1>3. /\ pc \in {"read", "publish"}
      /\ pc = "publish" => wk[w].pc = "last"
  BY <1>1
<1> HIDE DEF pc
<1>4. /\ attempt \in Attempt /\ attempt.pc = pc /\ attempt.run = wk[w].run
      /\ attempt.snapshot = wk[w].snapshot /\ attempt.rest = wk[w].rest
      /\ attempt.batch = {} /\ attempt.whole = wk[w].whole
  BY <1>1, <1>3 DEF Attempt, Stages
<1> HIDE DEF attempt
<1>5. wk'[w] = attempt
  BY <1>1, <1>2 DEF Becomes
<1>6. /\ \A r \in stage : r.run = wk[w].run
      /\ wk[w].snapshot \in Snapshots
      /\ \A r \in stage : r.snapshot = wk[w].snapshot
      /\ wk[w].whole =>
           Projected \cup wk[w].batch \cup wk[w].rest = Content[wk[w].snapshot]
      /\ wk[w].pc = "last" => wk[w].whole /\ wk[w].rest = {}
  BY <1>1 DEF Inv, HasStaging
<1>7. /\ wk[w].run \in Nat /\ wk[w].batch \in SUBSET Projects
      /\ wk[w].run = state.gen /\ state.status = "RUNNING"
  BY <1>1 DEF Attempt, Owns
<1>8. /\ rows \in SUBSET StageRow
      /\ \A r \in rows : r.run = wk[w].run /\ r.snapshot = wk[w].snapshot
      /\ {r.project : r \in rows} = wk[w].batch
  <2>1. rows \in SUBSET StageRow
    BY <1>6, <1>7 DEF StageRow
  <2>2. \A r \in rows : r.run = wk[w].run /\ r.snapshot = wk[w].snapshot
    OBVIOUS
  <2>3. ASSUME NEW p \in wk[w].batch PROVE p \in {r.project : r \in rows}
    <3> DEFINE row == [run |-> wk[w].run, snapshot |-> wk[w].snapshot, project |-> p]
    <3>1. row \in rows /\ row.project = p
      OBVIOUS
    <3> HIDE DEF row, rows
    <3> QED BY <3>1
  <2>4. ASSUME NEW r \in rows PROVE r.project \in wk[w].batch
    OBVIOUS
  <2> QED BY <2>1, <2>2, <2>3, <2>4
<1> HIDE DEF rows
<1>9. Projected' = Projected \cup wk[w].batch
  BY <1>2, <1>8 DEF Projected
<1>10. \A r \in stage' : r.run = wk[w].run /\ r.snapshot = wk[w].snapshot
  BY <1>2, <1>6, <1>8
<1>11. HasStaging(w)'
  <2>1. wk[w].whole => Projected' \cup {} \cup wk[w].rest = Content[wk[w].snapshot]
    BY <1>6, <1>9
  <2> QED BY <1>3, <1>4, <1>5, <1>6, <1>10, <2>1 DEF HasStaging
<1>12. stage' \in SUBSET StageRow /\ \A r \in stage' : r.run <= state.gen
  <2>1. \A r \in stage' : r.run <= state.gen
    BY <1>7, <1>10
  <2> QED BY <1>1, <1>2, <1>8, <2>1
<1>13. StagingHoldsOneRun'
  BY <1>10 DEF StagingHoldsOneRun
<1>14. EndedLeavesNothing' /\ PublishedIsWhole'
  BY <1>2, <1>7 DEF Inv, EndedLeavesNothing, PublishedIsWhole
<1>15. wk[w].pc # "idle" /\ attempt.pc # "idle"
  BY <1>1, <1>3, <1>4
<1>16. state' \in StateRow /\ state'.gen = state.gen /\ dim' \in SUBSET DimRow
  BY <1>1, <1>2
<1> QED BY <1>1, <1>2, <1>4, <1>11, <1>12, <1>13, <1>14, <1>15, <1>16, AttemptKeepsInv

\* Reclaiming removes rows of others only; a short batch leaves none of them.
LEMMA ReclaimKeepsInv ==
  ASSUME Inv, NEW w \in Workers, Reclaim(w)
  PROVE  Inv'
<1>1. /\ wk[w] \in Attempt /\ wk \in [Workers -> Attempt]
      /\ wk[w].pc = "reclaim" /\ Owns(w) /\ state \in StateRow
      /\ stage \in SUBSET StageRow /\ dim \in SUBSET DimRow
  BY DEF Inv, TypeOK, Reclaim
<1> DEFINE count == wk[w].reclaimed + 1
           old   == {r \in stage : r.run # wk[w].run}
           next  == [wk[w] EXCEPT !.pc = "request"]
           again == [wk[w] EXCEPT !.reclaimed = count]
<1>2. PICK rows \in Reclaimable(wk[w].run) :
        /\ stage' = stage \ rows /\ UNCHANGED <<state, dim>>
        /\ Becomes(w, IF Cardinality(rows) < BatchSize THEN next
                      ELSE IF count = MaxBatches THEN Idle ELSE again)
  BY DEF Reclaim
<1>3. Cardinality(rows) < BatchSize => rows = old
  BY <1>2 DEF Reclaimable
<1>4. wk[w].reclaimed \in Nat /\ count \in Nat
  BY <1>1 DEF Attempt
<1> HIDE DEF count
<1>5. /\ next \in Attempt /\ next.pc = "request" /\ next.run = wk[w].run
      /\ next.batch = wk[w].batch
      /\ again \in Attempt /\ again.pc = "reclaim" /\ again.run = wk[w].run
      /\ again.batch = wk[w].batch
  BY <1>1, <1>4 DEF Attempt, Stages
<1> HIDE DEF next, again
<1>6. /\ \A r \in stage : r.run # wk[w].run
      /\ wk[w].batch = {}
  BY <1>1 DEF Inv, HasStaging
<1>7. /\ stage' \in SUBSET StageRow /\ \A r \in stage' : r.run <= state.gen
      /\ \A r \in stage' : r.run # wk[w].run
      /\ state' \in StateRow /\ state'.gen = state.gen /\ dim' \in SUBSET DimRow
  BY <1>1, <1>2, <1>6 DEF Inv, TurnsAreDrawn
<1>8. StagingHoldsOneRun' /\ EndedLeavesNothing' /\ PublishedIsWhole'
  BY <1>1, <1>2
     DEF Inv, StagingHoldsOneRun, EndedLeavesNothing, PublishedIsWhole, Owns
<1>9. CASE Cardinality(rows) < BatchSize
  <2>1. stage' = {} /\ Becomes(w, next)
    BY <1>2, <1>3, <1>6, <1>9
  <2>2. wk'[w] = next
    BY <1>1, <2>1 DEF Becomes
  <2>3. HasStaging(w)'
    BY <1>5, <1>6, <2>1, <2>2 DEF HasStaging
  <2> QED BY <1>1, <1>5, <1>7, <1>8, <2>1, <2>3, AttemptKeepsInv
<1>10. CASE ~(Cardinality(rows) < BatchSize) /\ count = MaxBatches
  <2>1. Becomes(w, Idle)
    BY <1>2, <1>10
  <2>2. HasStaging(w)'
    BY <2>1, IdleHasStaging
  <2> QED BY <1>1, <1>7, <1>8, <2>1, <2>2, IdleType, AttemptKeepsInv
<1>11. CASE ~(Cardinality(rows) < BatchSize) /\ count # MaxBatches
  <2>1. Becomes(w, again)
    BY <1>2, <1>11
  <2>2. wk'[w] = again
    BY <1>1, <2>1 DEF Becomes
  <2>3. HasStaging(w)'
    BY <1>5, <1>6, <1>7, <2>2 DEF HasStaging
  <2> QED BY <1>1, <1>5, <1>7, <1>8, <2>1, <2>3, AttemptKeepsInv
<1> QED BY <1>9, <1>10, <1>11

\* The attempt with the turn owns every staged row.
LEMMA OwnedIsAll ==
  ASSUME Inv, NEW w \in Workers, wk[w].pc \in {"publish", "fail"}, Owns(w)
  PROVE  Staged(wk[w].run) = stage
BY DEF Inv, HasStaging, Staged

LEMMA FailKeepsInv ==
  ASSUME Inv, NEW w \in Workers, Fail(w)
  PROVE  Inv'
<1>1. /\ wk[w].pc = "fail" /\ Owns(w) /\ Becomes(w, Idle)
      /\ state' = [state EXCEPT !.status = "FAILED"]
      /\ stage' = stage \ Staged(wk[w].run) /\ dim' = dim
  BY DEF Fail
<1>2. stage' = {}
  BY <1>1, OwnedIsAll
<1>3. state \in StateRow /\ dim \in SUBSET DimRow
  BY DEF Inv, TypeOK
<1>4. /\ state' \in StateRow /\ state'.gen = state.gen
      /\ state'.pubRun = state.pubRun /\ state'.pubSnapshot = state.pubSnapshot
      /\ state'.pubTotal = state.pubTotal
  BY <1>1, <1>3 DEF StateRow
<1>5. StagingHoldsOneRun' /\ EndedLeavesNothing'
  BY <1>2 DEF StagingHoldsOneRun, EndedLeavesNothing
<1>6. PublishedIsWhole'
  BY <1>1, <1>4 DEF Inv, PublishedIsWhole
<1>7. HasStaging(w)'
  BY <1>1, IdleHasStaging
<1>8. /\ stage' \in SUBSET StageRow /\ \A r \in stage' : r.run <= state.gen
      /\ dim' \in SUBSET DimRow
  BY <1>1, <1>2, <1>3
<1> QED BY <1>1, <1>4, <1>5, <1>6, <1>7, <1>8, IdleType, AttemptKeepsInv

\* What publication writes to dim_project.
LEMMA PublishedRows ==
  ASSUME Inv, NEW w \in Workers, Publish(w)
  PROVE  /\ wk[w].snapshot \in Snapshots
         /\ dim' = [snapshot : {wk[w].snapshot}, project : Content[wk[w].snapshot]]
         /\ Cardinality(dim') = wk[w].total
<1> DEFINE q == wk[w].snapshot
           run == wk[w].run
<1>1. /\ wk[w] \in Attempt /\ stage \in SUBSET StageRow
      /\ wk[w].pc = "publish" /\ Owns(w)
  BY DEF Inv, TypeOK, Publish
<1>2. /\ q \in Snapshots /\ Projected = Content[q]
      /\ \A r \in stage : r.run = run /\ r.snapshot = q
  <2>1. HasStaging(w)
    BY DEF Inv
  <2>2. /\ wk[w].batch = {} /\ wk[w].whole /\ wk[w].rest = {}
        /\ q \in Snapshots /\ \A r \in stage : r.run = run /\ r.snapshot = q
        /\ wk[w].whole => Projected \cup wk[w].batch \cup wk[w].rest = Content[q]
    BY <1>1, <2>1 DEF HasStaging
  <2> QED BY <2>2
<1>3. Staged(run) = stage
  BY <1>1, OwnedIsAll
<1>4. /\ dim' = {[snapshot |-> r.snapshot, project |-> r.project] : r \in stage}
      /\ Cardinality(stage) = wk[w].total
  BY <1>3 DEF Publish, Matches
<1>5. Content[q] \in SUBSET Projects
  BY <1>2, ProjectsAssumption
<1> HIDE DEF q, run
<1>6. stage = [run : {run}, snapshot : {q}, project : Content[q]]
  <2>1. ASSUME NEW r \in stage
        PROVE  r \in [run : {run}, snapshot : {q}, project : Content[q]]
    <3>1. r.project \in Content[q]
      BY <1>2 DEF Projected
    <3>2. r \in StageRow
      BY <1>1
    <3> QED BY <1>2, <3>1, <3>2 DEF StageRow
  <2>2. ASSUME NEW x \in [run : {run}, snapshot : {q}, project : Content[q]]
        PROVE  x \in stage
    <3>1. PICK r \in stage : r.project = x.project
      BY <1>2 DEF Projected
    <3>2. r \in StageRow
      BY <1>1
    <3>3. r = x
      BY <1>2, <3>1, <3>2 DEF StageRow
    <3> QED BY <3>3
  <2> QED BY <2>1, <2>2
<1>7. dim' = [snapshot : {q}, project : Content[q]]
  <2>1. dim' = {[snapshot |-> r.snapshot, project |-> r.project] :
                 r \in [run : {run}, snapshot : {q}, project : Content[q]]}
    BY <1>4, <1>6
  <2>2. ASSUME NEW d \in dim' PROVE d \in [snapshot : {q}, project : Content[q]]
    BY <2>1
  <2>3. ASSUME NEW d \in [snapshot : {q}, project : Content[q]] PROVE d \in dim'
    <3> DEFINE row == [run |-> run, snapshot |-> q, project |-> d.project]
    <3> DEFINE S == [run : {run}, snapshot : {q}, project : Content[q]]
               F(r) == [snapshot |-> r.snapshot, project |-> r.project]
    <3>1. row \in S /\ row.snapshot = q /\ row.project = d.project
      OBVIOUS
    <3>2. d = [snapshot |-> q, project |-> d.project]
      OBVIOUS
    <3> HIDE DEF row
    <3>3. d = F(row)
      BY <3>1, <3>2
    <3>4. dim' = {F(r) : r \in S}
      BY <2>1
    <3> HIDE DEF S, F
    <3> QED BY <3>1, <3>3, <3>4
  <2> QED BY <2>2, <2>3
<1>8. Cardinality(dim') = wk[w].total
  <2>1. Cardinality([run : {run}, snapshot : {q}, project : Content[q]])
        = Cardinality(Content[q])
    BY <1>5, RowsCount, Zenon
  <2>2. Cardinality([snapshot : {q}, project : Content[q]]) = Cardinality(Content[q])
    BY <1>5, RowsCount, Zenon
  <2>3. Cardinality(dim') = Cardinality([snapshot : {q}, project : Content[q]])
    BY <1>7, Zenon
  <2>4. Cardinality(stage) = Cardinality([run : {run}, snapshot : {q}, project : Content[q]])
    BY <1>6, Zenon
  <2> QED BY <1>4, <2>1, <2>2, <2>3, <2>4, Zenon
<1> QED BY <1>2, <1>7, <1>8 DEF q

LEMMA PublishKeepsInv ==
  ASSUME Inv, NEW w \in Workers, Publish(w)
  PROVE  Inv'
<1>1. /\ wk[w].pc = "publish" /\ Owns(w) /\ Becomes(w, Idle)
      /\ state' = [state EXCEPT !.status = "SUCCESS", !.pubRun = wk[w].run,
                     !.pubSnapshot = wk[w].snapshot, !.pubTotal = wk[w].total]
      /\ stage' = stage \ Staged(wk[w].run)
  BY DEF Publish
<1>2. stage' = {}
  BY <1>1, OwnedIsAll
<1>3. state \in StateRow /\ wk[w] \in Attempt
  BY DEF Inv, TypeOK
<1>4. /\ state' \in StateRow /\ state'.gen = state.gen
      /\ state'.pubSnapshot = wk[w].snapshot /\ state'.pubTotal = wk[w].total
  BY <1>1, <1>3 DEF StateRow, Attempt
<1>5. /\ wk[w].snapshot \in Snapshots
      /\ dim' = [snapshot : {wk[w].snapshot}, project : Content[wk[w].snapshot]]
      /\ Cardinality(dim') = wk[w].total
  BY PublishedRows
<1>6. StagingHoldsOneRun' /\ EndedLeavesNothing'
  BY <1>2 DEF StagingHoldsOneRun, EndedLeavesNothing
<1>7. PublishedIsWhole'
  BY <1>4, <1>5 DEF PublishedIsWhole
<1>8. HasStaging(w)'
  BY <1>1, IdleHasStaging
<1>9. dim' \in SUBSET DimRow
  BY <1>5, ProjectsAssumption DEF DimRow
<1>10. stage' \in SUBSET StageRow /\ \A r \in stage' : r.run <= state.gen
  BY <1>2
<1> QED BY <1>1, <1>4, <1>6, <1>7, <1>8, <1>9, <1>10, IdleType, AttemptKeepsInv

LEMMA InvNext == Inv /\ [Next]_vars => Inv'
<1> SUFFICES ASSUME Inv, [Next]_vars PROVE Inv'
  OBVIOUS
<1>1. ASSUME NEW w \in Workers, NEW q \in Snapshots, Request(w, q) PROVE Inv'
  BY <1>1, RequestKeepsInv
<1>2. ASSUME NEW w \in Workers, Begin(w) PROVE Inv'
  BY <1>2, BeginKeepsInv
<1>3. ASSUME NEW w \in Workers, Reclaim(w) PROVE Inv'
  BY <1>3, ReclaimKeepsInv
<1>4. ASSUME NEW w \in Workers, ReadRow(w) PROVE Inv'
  BY <1>4, ReadRowKeepsInv
<1>5. ASSUME NEW w \in Workers, ReadEnd(w) PROVE Inv'
  BY <1>5, ReadEndKeepsInv
<1>6. ASSUME NEW w \in Workers, Stage(w) PROVE Inv'
  BY <1>6, StageKeepsInv
<1>7. ASSUME NEW w \in Workers, Publish(w) PROVE Inv'
  BY <1>7, PublishKeepsInv
<1>8. ASSUME NEW w \in Workers, Fail(w) PROVE Inv'
  BY <1>8, FailKeepsInv
<1>9. ASSUME NEW w \in Workers, Stumble(w) PROVE Inv'
  BY <1>9, StumbleKeepsInv
<1>10. ASSUME NEW w \in Workers, Vanish(w) PROVE Inv'
  BY <1>10, VanishKeepsInv
<1>11. CASE UNCHANGED vars
  BY <1>11 DEF vars, Inv, TypeOK, StateRow, TurnsAreDrawn, HasStaging, Owns, Projected,
               StagingHoldsOneRun, EndedLeavesNothing, PublishedIsWhole
<1> QED BY <1>1, <1>2, <1>3, <1>4, <1>5, <1>6, <1>7, <1>8, <1>9, <1>10, <1>11 DEF Next

-----------------------------------------------------------------------------
(* What an attempt writes, and what readers see *)

\* A step of an attempt that changes a table is taken with the turn.
LEMMA WriterHasTheTurn ==
  ASSUME Inv, Next, NEW w \in Workers, wk[w].pc # "idle", wk'[w] # wk[w],
         <<state, stage, dim>>' # <<state, stage, dim>>
  PROVE  Owns(w)
<1>1. wk \in [Workers -> Attempt]
  BY DEF Inv, TypeOK
<1>2. ASSUME NEW v \in Workers, NEW attempt, Becomes(v, attempt) PROVE v = w
  BY <1>1, <1>2 DEF Becomes
<1>3. PICK v \in Workers :
        \/ Begin(v) \/ Reclaim(v) \/ ReadRow(v) \/ ReadEnd(v) \/ Stage(v)
        \/ Publish(v) \/ Fail(v) \/ Stumble(v) \/ Vanish(v)
        \/ \E q \in Snapshots : Request(v, q)
  BY DEF Next
<1>4. CASE Reclaim(v)
  BY <1>2, <1>4 DEF Reclaim
<1>5. CASE Stage(v)
  BY <1>2, <1>5 DEF Stage
<1>6. CASE Publish(v) \/ Fail(v)
  BY <1>2, <1>6 DEF Publish, Fail
<1>7. CASE Begin(v)
  BY <1>2, <1>7 DEF Begin
<1>8. CASE ReadRow(v) \/ ReadEnd(v) \/ Stumble(v) \/ Vanish(v)
           \/ \E q \in Snapshots : Request(v, q)
  BY <1>8 DEF ReadRow, ReadEnd, Stumble, Vanish, Request
<1> QED BY <1>3, <1>4, <1>5, <1>6, <1>7, <1>8

\* A step that touches neither dim_project nor what the state row publishes shows
\* readers nothing new.
LEMMA SameView ==
  ASSUME dim' = dim, state'.pubRun = state.pubRun,
         state'.pubSnapshot = state.pubSnapshot
  PROVE  Visible' = Visible
BY DEF Visible

\* Publication shows readers the whole snapshot.
LEMMA PublishShows ==
  ASSUME Inv, NEW w \in Workers, Publish(w)
  PROVE  Visible' = Content[wk[w].snapshot]
<1> DEFINE q == wk[w].snapshot
<1>1. state \in StateRow /\ wk[w] \in Attempt /\ wk[w].run # NoRun
  BY DEF Inv, TypeOK, TurnsAreDrawn, Publish
<1>2. state'.pubRun # NoRun /\ state'.pubSnapshot = q
  BY <1>1 DEF Publish, StateRow
<1>3. dim' = [snapshot : {q}, project : Content[q]]
  BY PublishedRows
<1> HIDE DEF q
<1>4. {x \in dim' : x.snapshot = q} = dim'
  BY <1>3
<1>5. Visible' = {r.project : r \in dim'}
  BY <1>2, <1>4 DEF Visible
<1>6. ASSUME NEW p \in Content[q] PROVE p \in {r.project : r \in dim'}
  <2> DEFINE row == [snapshot |-> q, project |-> p]
  <2>1. row \in dim' /\ row.project = p
    BY <1>3
  <2> HIDE DEF row
  <2> QED BY <2>1
<1>7. \A r \in dim' : r.project \in Content[q]
  BY <1>3
<1> QED BY <1>5, <1>6, <1>7 DEF q

\* Every step is one of ProjectView, or shows readers nothing.
LEMMA ViewNext == Inv /\ [Next]_vars => [View!Next]_View!vars
<1> SUFFICES ASSUME Inv, [Next]_vars PROVE [View!Next]_View!vars
  OBVIOUS
<1>1. state \in StateRow
  BY DEF Inv, TypeOK
<1>2. ASSUME UNCHANGED <<state, dim>> PROVE UNCHANGED View!vars
  BY <1>2, SameView DEF View!vars
<1>3. ASSUME NEW w \in Workers, Begin(w) PROVE View!Begin
  <2>1. state' = [state EXCEPT !.gen = @ + 1, !.status = "RUNNING"] /\ dim' = dim
    BY <1>3 DEF Begin
  <2>2. /\ state'.gen = state.gen + 1 /\ state'.status = "RUNNING"
        /\ state'.pubRun = state.pubRun /\ state'.pubSnapshot = state.pubSnapshot
    BY <1>1, <2>1 DEF StateRow
  <2> QED BY <2>1, <2>2, SameView DEF View!Begin
<1>4. ASSUME NEW w \in Workers, Fail(w) PROVE View!Fail
  <2>1. state' = [state EXCEPT !.status = "FAILED"] /\ dim' = dim /\ Owns(w)
    BY <1>4 DEF Fail
  <2>2. /\ state'.gen = state.gen /\ state'.status = "FAILED"
        /\ state'.pubRun = state.pubRun /\ state'.pubSnapshot = state.pubSnapshot
    BY <1>1, <2>1 DEF StateRow
  <2> QED BY <2>1, <2>2, SameView DEF View!Fail, Owns
<1>5. ASSUME NEW w \in Workers, Publish(w)
      PROVE  \E q \in Snapshots : View!Publish(q)
  <2>1. /\ state' = [state EXCEPT !.status = "SUCCESS", !.pubRun = wk[w].run,
                       !.pubSnapshot = wk[w].snapshot, !.pubTotal = wk[w].total]
        /\ Owns(w)
    BY <1>5 DEF Publish
  <2>2. /\ state'.gen = state.gen /\ state'.status = "SUCCESS"
        /\ state'.pubSnapshot = wk[w].snapshot
    BY <1>1, <2>1 DEF StateRow
  <2>3. wk[w].snapshot \in Snapshots
    BY <1>5, PublishedRows
  <2>4. View!Publish(wk[w].snapshot)
    BY <1>5, <2>1, <2>2, PublishShows DEF View!Publish, Owns
  <2> QED BY <2>3, <2>4
<1>6. ASSUME NEW w \in Workers,
             \/ Reclaim(w) \/ ReadRow(w) \/ ReadEnd(w) \/ Stage(w)
             \/ Stumble(w) \/ Vanish(w) \/ \E q \in Snapshots : Request(w, q)
      PROVE  UNCHANGED <<state, dim>>
  BY <1>6 DEF Reclaim, ReadRow, ReadEnd, Stage, Stumble, Vanish, Request
<1>7. CASE Next
  BY <1>2, <1>3, <1>4, <1>5, <1>6, <1>7 DEF Next, View!Next
<1>8. CASE UNCHANGED vars
  BY <1>2, <1>8 DEF vars
<1> QED BY <1>7, <1>8

-----------------------------------------------------------------------------
(* The theorems *)

\* The inductive invariant holds in every reachable state.
THEOREM Invariance == Spec => []Inv
BY InvInit, InvNext, PTL DEF Spec

\* Every variable keeps its type, for any workers, snapshots and limits.
THEOREM TypeCorrect == Spec => []TypeOK
<1>1. Inv => TypeOK
  BY DEF Inv
<1> QED BY <1>1, Invariance, PTL

\* dim_project always holds exactly the snapshot the state row names.
THEOREM PublicationIsWhole == Spec => []PublishedIsWhole
<1>1. Inv => PublishedIsWhole
  BY DEF Inv
<1> QED BY <1>1, Invariance, PTL

\* The staging table never mixes attempts and is empty once the last one ended.
THEOREM StagingStaysBounded == Spec => []StagingIsBounded
<1>1. Inv => StagingIsBounded
  BY DEF Inv, StagingIsBounded
<1> QED BY <1>1, Invariance, PTL

\* A superseded attempt writes no table any more.
THEOREM SupersededIsSilent == Spec => SupersededWritesNothing
<1> DEFINE Silent ==
      \A w \in Workers :
        /\ wk[w].pc # "idle" /\ wk'[w] # wk[w]
        /\ <<state, stage, dim>>' # <<state, stage, dim>>
        => \A v \in Workers : wk[v].run <= wk[w].run
<1>1. Inv /\ [Next]_vars => [Silent]_vars
  <2> SUFFICES ASSUME Inv, Next, NEW w \in Workers, wk[w].pc # "idle",
                      wk'[w] # wk[w],
                      <<state, stage, dim>>' # <<state, stage, dim>>,
                      NEW v \in Workers
               PROVE  wk[v].run <= wk[w].run
    BY DEF vars
  <2>1. Owns(w)
    BY WriterHasTheTurn
  <2> QED BY <2>1 DEF Owns, Inv, TurnsAreDrawn
<1> QED BY <1>1, Invariance, PTL DEF Spec, SupersededWritesNothing

\* Overlapping attempts, batches and failures implement what ProjectView promises.
THEOREM ViewIsKept == Spec => KeepsView
<1>1. Init => View!Init
  <2> SUFFICES ASSUME Init PROVE View!Init
    OBVIOUS
  <2>1. /\ state.gen = 0 /\ state.status = "UNKNOWN" /\ state.pubRun = NoRun
        /\ state.pubSnapshot = NoSnapshot
    BY DEF Init
  <2> QED BY <2>1 DEF View!Init, Visible
<1>2. Inv /\ [Next]_vars => [View!Next]_View!vars
  BY ViewNext
<1> QED BY <1>1, <1>2, Invariance, PTL DEF Spec, KeepsView, View!Spec
=============================================================================
