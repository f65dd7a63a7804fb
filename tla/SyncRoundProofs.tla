--------------------------- MODULE SyncRoundProofs ---------------------------
(* Proofs about SyncRound for any workers, rows and limits. *)
EXTENDS SyncRoundProps, SequenceTheorems, TLAPS

Scanning == {"read", "upsert"}

\* What a round with the state st has promised: what it has passed in its scan is in the
\* mirror m as the sources s were at its start, or newer; so is what it has just read.
Promise(st, m, s) ==
  /\ \A r \in Rows : st.asOf[r] <= s[r]
  /\ st.pc \in Scanning =>
       /\ st.at \in Sources /\ st.pos \in 1..Len(Scan[st.at])
       /\ \A n \in 1..(st.pos - 1) : st.asOf[Scan[st.at][n]] <= m[Scan[st.at][n]]
  /\ st.pc = "upsert" => st.asOf[Scan[st.at][st.pos]] <= st.version

Promises == \A w \in Workers : Promise(wk[w], mirror, source)

\* The facts come from the mirror, which only grows.
FactsAreMirrored == \A r \in Rows : facts[r] <= mirror[r]

Inv == TypeOK /\ Promises /\ FactsAreMirrored

-----------------------------------------------------------------------------
(* Lemmas *)

LEMMA ListType ==
  /\ Contract \in Seq(Rows) /\ Approval \in Seq(Rows) /\ CRM \in Seq(Rows)
  /\ Len(Contract) \in Nat \ {0} /\ Len(Approval) \in Nat \ {0} /\ Len(CRM) \in Nat \ {0}
BY RowsAssumption

\* The contract source is scanned through the contracts and then the approvals.
LEMMA ScanParts ==
  /\ \A s \in Sources : Scan[s] \in Seq(Rows) /\ Len(Scan[s]) \in Nat \ {0}
  /\ Len(Scan["contract_management"]) = Len(Contract) + Len(Approval)
  /\ \A n \in 1..Len(Contract) : Scan["contract_management"][n] = Contract[n]
  /\ \A n \in 1..Len(Approval) :
       Scan["contract_management"][Len(Contract) + n] = Approval[n]
  /\ Scan["customer_and_opportunity"] = CRM
<1>1. /\ Scan["contract_management"] = Contract \o Approval
      /\ Scan["customer_and_opportunity"] = CRM
  BY DEF Scan, Sources
<1>2. /\ Contract \o Approval \in Seq(Rows)
      /\ Len(Contract \o Approval) = Len(Contract) + Len(Approval)
      /\ \A n \in 1..Len(Contract) + Len(Approval) :
           (Contract \o Approval)[n] = IF n <= Len(Contract) THEN Contract[n]
                                       ELSE Approval[n - Len(Contract)]
  BY ListType, ConcatProperties
<1>3. \A n \in 1..Len(Approval) :
        (Contract \o Approval)[Len(Contract) + n] = Approval[n]
  BY <1>2, ListType
<1>4. \A n \in 1..Len(Contract) : (Contract \o Approval)[n] = Contract[n]
  BY <1>2, ListType
<1>5. \A s \in Sources : s = "contract_management" \/ s = "customer_and_opportunity"
  BY DEF Sources
<1>6. Len(Contract) + Len(Approval) \in Nat \ {0}
  BY ListType
<1>7. \A s \in Sources : Scan[s] \in Seq(Rows) /\ Len(Scan[s]) \in Nat \ {0}
  BY <1>1, <1>2, <1>5, <1>6, ListType
<1> QED BY <1>1, <1>2, <1>3, <1>4, <1>7

\* A row of a channel has its place in the scan of the source.
LEMMA Places ==
  /\ \A r \in RowsOf["contract_management"] :
       \E n \in 1..Len(Contract) : r = Scan["contract_management"][n]
  /\ \A r \in RowsOf["contract_approval"] :
       \E n \in 1..Len(Scan["contract_management"]) : r = Scan["contract_management"][n]
  /\ \A r \in RowsOf["customer_and_opportunity"] :
       \E n \in 1..Len(CRM) : r = Scan["customer_and_opportunity"][n]
<1>1. /\ RowsOf["contract_management"] = Elements(Contract)
      /\ RowsOf["contract_approval"] = Elements(Approval)
      /\ RowsOf["customer_and_opportunity"] = Elements(CRM)
  BY DEF RowsOf, Channels, Sources
<1>2. \A r \in Elements(Approval) :
        \E n \in 1..Len(Scan["contract_management"]) : r = Scan["contract_management"][n]
  <2> SUFFICES ASSUME NEW n \in 1..Len(Approval)
               PROVE  \E k \in 1..Len(Scan["contract_management"]) :
                        Approval[n] = Scan["contract_management"][k]
    BY DEF Elements
  <2>1. Len(Contract) + n \in 1..Len(Scan["contract_management"])
    BY ScanParts, ListType
  <2> QED BY <2>1, ScanParts
<1> QED BY <1>1, <1>2, ScanParts DEF Elements

LEMMA VersionsType ==
  /\ None \in Versions /\ \A r \in Rows : None[r] = 0
  /\ \A f \in Versions, r \in Rows : f[r] \in Nat
BY RowsAssumption DEF None, Versions, Version

LEMMA IdleType == Idle \in WorkerState /\ [Idle EXCEPT !.pc = "down"] \in WorkerState
<1>1. 0 \in Version /\ 0 \in 0..MaxAge
  BY RowsAssumption DEF Version
<1> QED BY <1>1, VersionsType DEF Idle, WorkerState

LEMMA BecomesType ==
  ASSUME TypeOK, NEW w \in Workers, NEW st \in WorkerState, Becomes(w, st)
  PROVE  /\ wk' \in [Workers -> WorkerState] /\ wk'[w] = st
         /\ \A v \in Workers : v # w => wk'[v] = wk[v]
BY DEF TypeOK, Becomes

\* Nothing that is copied breaks a promise.
LEMMA PromiseLasts ==
  ASSUME NEW st \in WorkerState, NEW m \in Versions, NEW s \in Versions,
         NEW m2 \in Versions, NEW s2 \in Versions,
         \A r \in Rows : m[r] <= m2[r] /\ s[r] <= s2[r],
         Promise(st, m, s)
  PROVE  Promise(st, m2, s2)
<1>1. \A r \in Rows : st.asOf[r] \in Nat
  BY VersionsType DEF WorkerState
<1>2. \A r \in Rows : st.asOf[r] <= s2[r]
  BY <1>1, VersionsType DEF Promise
<1>3. CASE st.pc \in Scanning
  <2>1. \A n \in 1..(st.pos - 1) : Scan[st.at][n] \in Rows
    BY <1>3, ScanParts DEF Promise, WorkerState
  <2> QED BY <1>1, <1>2, <1>3, <2>1, VersionsType DEF Promise
<1>4. CASE st.pc \notin Scanning
  BY <1>2, <1>4 DEF Promise, Scanning
<1> QED BY <1>3, <1>4

\* A round that is not in a scan promises only to have started in the past.
LEMMA NoPromise ==
  ASSUME TypeOK, NEW st \in WorkerState, st.pc \notin Scanning,
         \/ st.asOf = None \/ st.asOf = source
         \/ \E w \in Workers : Promise(wk[w], mirror, source) /\ st.asOf = wk[w].asOf
  PROVE  Promise(st, mirror, source)
<1>1. /\ \A r \in Rows : source[r] \in Nat
      /\ st.pc # "upsert"
  BY VersionsType DEF TypeOK, Scanning
<1>2. \A r \in Rows : st.asOf[r] <= source[r]
  <2>1. CASE st.asOf = None
    BY <1>1, <2>1, VersionsType
  <2>2. CASE st.asOf = source
    BY <1>1, <2>2
  <2>3. CASE \E w \in Workers : Promise(wk[w], mirror, source) /\ st.asOf = wk[w].asOf
    BY <2>3 DEF Promise
  <2> QED BY <2>1, <2>2, <2>3
<1> QED BY <1>1, <1>2 DEF Promise

LEMMA MarkType ==
  ASSUME TypeOK, NEW w \in Workers, NEW states, DOMAIN states \subseteq Channels,
         \A c \in DOMAIN states : states[c] \in Status,
         Mark(w, states)
  PROVE  status' \in [Channels -> Status] /\ lastRun' \in [Sources -> 0..Old]
<1>1. wk[w].age \in 0..Old
  BY RowsAssumption DEF TypeOK, WorkerState, Old
<1> QED BY <1>1 DEF Mark, TypeOK

LEMMA MarksType ==
  ASSUME TypeOK, NEW w \in Workers, NEW states, DOMAIN states \subseteq Channels,
         \A c \in DOMAIN states : states[c] \in Status,
         Marks(w, states)
  PROVE  status' \in [Channels -> Status] /\ lastRun' \in [Sources -> 0..Old]
         /\ faults' \in 0..MaxFaults
<1>1. CASE Mark(w, states) /\ NoFault
  BY <1>1, MarkType DEF NoFault, TypeOK
<1>2. CASE UNCHANGED <<status, lastRun>> /\ Fault
  BY <1>2, RowsAssumption DEF Fault, TypeOK
<1> QED BY <1>1, <1>2 DEF Marks

LEMMA FaultType ==
  ASSUME TypeOK, NoFault \/ Fault
  PROVE  faults' \in 0..MaxFaults
BY RowsAssumption DEF TypeOK, NoFault, Fault

LEMMA InvInit == Init => Inv
<1> SUFFICES ASSUME Init PROVE Inv
  OBVIOUS
<1>1. TypeOK
  BY IdleType, VersionsType, RowsAssumption DEF Init, TypeOK, Status, Channels, Sources, Old
<1>2. Promises
  <2> SUFFICES ASSUME NEW w \in Workers PROVE Promise(wk[w], mirror, source)
    BY DEF Promises
  <2>1. wk[w] = Idle /\ Idle.pc \notin Scanning /\ Idle.asOf = None
    BY DEF Init, Idle, Scanning
  <2> QED BY <1>1, <2>1, IdleType, NoPromise
<1>3. FactsAreMirrored
  BY VersionsType DEF Init, FactsAreMirrored
<1> QED BY <1>1, <1>2, <1>3 DEF Inv

-----------------------------------------------------------------------------
(* Steps of one round that copy nothing *)

LEMMA Quiet ==
  ASSUME Inv, NEW w \in Workers, NEW st \in WorkerState, Becomes(w, st),
         Promise(st, mirror, source), UNCHANGED data,
         lock' \in [Sources -> SUBSET Workers], open' \subseteq 0..MaxAge + Stale,
         closed' \subseteq 0..MaxAge,
         status' \in [Channels -> Status], lastRun' \in [Sources -> 0..Old],
         faults' \in 0..MaxFaults
  PROVE  Inv'
<1>1. TypeOK'
  BY BecomesType DEF Inv, TypeOK, data
<1>2. Promises'
  <2> SUFFICES ASSUME NEW v \in Workers PROVE Promise(wk'[v], mirror, source)
    BY DEF Promises, Promise, data
  <2> QED BY BecomesType DEF Inv, Promises
<1>3. FactsAreMirrored'
  BY DEF Inv, FactsAreMirrored, data
<1> QED BY <1>1, <1>2, <1>3 DEF Inv

\* The same for a step that leaves the tables of the rounds alone, and one round idle.
LEMMA QuietMove ==
  ASSUME Inv, NEW w \in Workers, NEW st \in WorkerState, Becomes(w, st),
         st.pc \notin Scanning, st.asOf = wk[w].asOf \/ st.asOf = None,
         UNCHANGED <<data, lock, runs, status, lastRun>>, NoFault \/ Fault
  PROVE  Inv'
<1>1. Promise(st, mirror, source)
  BY NoPromise DEF Inv, Promises
<1> QED BY <1>1, Quiet, FaultType DEF Inv, TypeOK, runs

LEMMA WorkerType ==
  ASSUME TypeOK, NEW w \in Workers
  PROVE  wk[w] \in WorkerState /\ wk[w].age \in 0..MaxAge + Stale
BY RowsAssumption DEF TypeOK, WorkerState

LEMMA RecordSteps ==
  ASSUME Inv, NEW w \in Workers,
         BeginSyncRun(w) \/ BeginFails(w) \/ FinishSyncRun(w) \/ FinishFails(w)
  PROVE  Inv'
<1>1. /\ TypeOK /\ wk[w] \in WorkerState /\ wk[w].age \in 0..MaxAge + Stale
      /\ wk[w].age \in 0..MaxAge /\ open \subseteq 0..MaxAge + Stale /\ closed \subseteq 0..MaxAge
  BY WorkerType DEF Inv, TypeOK, WorkerState
<1>2. Idle \in WorkerState /\ Idle.pc \notin Scanning /\ Idle.asOf = None
  BY IdleType DEF Idle, Scanning
<1>3. CASE BeginSyncRun(w)
  <2> DEFINE st == [wk[w] EXCEPT !.pc = "sources", !.recorded = wk[w].age \notin open \cup closed]
  <2>1. st \in WorkerState /\ st.pc \notin Scanning /\ st.asOf = wk[w].asOf
    BY <1>1 DEF WorkerState, Scanning
  <2>2. Promise(st, mirror, source)
    BY <1>1, <2>1, NoPromise DEF Inv, Promises
  <2>3. Becomes(w, st) /\ UNCHANGED <<data, lock, closed, status, lastRun>> /\ NoFault
        /\ open' = open \cup ({wk[w].age} \ closed)
    BY <1>3 DEF BeginSyncRun
  <2> HIDE DEF st
  <2> QED BY <1>1, <2>1, <2>2, <2>3, Quiet, FaultType DEF TypeOK
<1>4. CASE BeginFails(w)
  <2> DEFINE st == [wk[w] EXCEPT !.pc = "sources"]
  <2>1. st \in WorkerState /\ st.pc \notin Scanning /\ st.asOf = wk[w].asOf
    BY <1>1 DEF WorkerState, Scanning
  <2>2. Becomes(w, st) /\ UNCHANGED <<data, lock, runs, status, lastRun>> /\ Fault
    BY <1>4 DEF BeginFails, Goes
  <2> HIDE DEF st
  <2> QED BY <2>1, <2>2, QuietMove
<1>5. CASE FinishSyncRun(w)
  <2>1. Promise(Idle, mirror, source)
    BY <1>1, <1>2, NoPromise
  <2>2. closed' \subseteq 0..MaxAge
    BY <1>1, <1>5 DEF FinishSyncRun
  <2> QED BY <1>1, <1>2, <1>5, <2>1, <2>2, Quiet, FaultType DEF FinishSyncRun, TypeOK
<1>6. CASE FinishFails(w)
  BY <1>2, <1>6, QuietMove DEF FinishFails
<1> QED BY <1>3, <1>4, <1>5, <1>6

LEMMA SourceSteps ==
  ASSUME Inv, NEW w \in Workers, Skip(w) \/ LockFails(w) \/ Returns(w)
  PROVE  Inv'
<1>1. wk[w] \in WorkerState
  BY WorkerType DEF Inv
<1>2. CASE Skip(w) \/ LockFails(w)
  <2>1. PICK s \in wk[w].todo : Becomes(w, [wk[w] EXCEPT !.todo = @ \ {s}])
    BY <1>2 DEF Skip, LockFails
  <2> DEFINE st == [wk[w] EXCEPT !.todo = @ \ {s}]
  <2>2. st \in WorkerState /\ st.pc \notin Scanning /\ st.asOf = wk[w].asOf
    BY <1>1, <1>2 DEF WorkerState, Scanning, Skip, LockFails
  <2>3. UNCHANGED <<data, lock, runs, status, lastRun>> /\ (NoFault \/ Fault)
    BY <1>2 DEF Skip, LockFails
  <2> HIDE DEF st
  <2> QED BY <2>1, <2>2, <2>3, QuietMove DEF st
<1>3. CASE Returns(w)
  <2> DEFINE st == [wk[w] EXCEPT !.pc = "finish", !.todo = {}, !.ok = {}, !.asOf = None]
  <2>1. st \in WorkerState /\ st.pc \notin Scanning /\ st.asOf = None
    BY <1>1, VersionsType DEF WorkerState, Scanning
  <2>2. Becomes(w, st) /\ UNCHANGED <<data, lock, runs, status, lastRun>> /\ Fault
    BY <1>3 DEF Returns
  <2> HIDE DEF st
  <2> QED BY <2>1, <2>2, QuietMove
<1> QED BY <1>2, <1>3

\* A round that ends its scans, begins to compute or goes on with it.
LEMMA EndsType ==
  ASSUME Inv, NEW w \in Workers, Ends(w) \/ Computes(w) \/ Goes(w, "conversion")
  PROVE  \E st \in WorkerState :
           /\ Becomes(w, st) /\ st.pc \notin Scanning
           /\ st.asOf = wk[w].asOf \/ st.asOf = None
<1>1. wk[w] \in WorkerState
  BY WorkerType DEF Inv
<1> DEFINE ends == [wk[w] EXCEPT !.pc = "finish", !.ok = {}, !.asOf = None]
           computes == [wk[w] EXCEPT !.pc = "signing"]
           goes == [wk[w] EXCEPT !.pc = "conversion"]
<1>2. ends \in WorkerState /\ ends.pc \notin Scanning /\ ends.asOf = None
  BY <1>1, VersionsType DEF WorkerState, Scanning
<1>3. computes \in WorkerState /\ computes.pc \notin Scanning /\ computes.asOf = wk[w].asOf
  BY <1>1 DEF WorkerState, Scanning
<1>4. goes \in WorkerState /\ goes.pc \notin Scanning /\ goes.asOf = wk[w].asOf
  BY <1>1 DEF WorkerState, Scanning
<1>5. Becomes(w, ends) \/ Becomes(w, computes) \/ Becomes(w, goes)
  BY DEF Ends, Computes, Goes
<1> HIDE DEF ends, computes, goes
<1> QED BY <1>2, <1>3, <1>4, <1>5

LEMMA CountSteps ==
  ASSUME Inv, NEW w \in Workers, Count(w) \/ CountFails(w) \/ PrecomputeFails(w)
  PROVE  Inv'
<1>1. Ends(w) \/ Computes(w) \/ Goes(w, "conversion")
  BY DEF Count, CountFails, PrecomputeFails, AfterSigning
<1>2. UNCHANGED <<data, lock, runs, status, lastRun>> /\ (NoFault \/ Fault)
  BY DEF Count, CountFails, PrecomputeFails
<1> QED BY <1>1, <1>2, EndsType, QuietMove

LEMMA ProcessSteps ==
  ASSUME Inv, NEW w \in Workers, Crash(w) \/ Restart(w)
  PROVE  Inv'
<1> DEFINE down == [Idle EXCEPT !.pc = "down"]
<1>1. /\ Idle \in WorkerState /\ Idle.pc \notin Scanning /\ Idle.asOf = None
      /\ down \in WorkerState /\ down.pc \notin Scanning /\ down.asOf = None
  BY IdleType DEF Idle, Scanning
<1>2. CASE Crash(w)
  <2>1. Promise(down, mirror, source)
    BY <1>1, NoPromise DEF Inv
  <2>2. /\ Becomes(w, down) /\ UNCHANGED <<data, runs, status, lastRun>> /\ Fault
        /\ lock' = [s \in Sources |-> lock[s] \ {w}]
    BY <1>2 DEF Crash
  <2> HIDE DEF down
  <2> QED BY <1>1, <2>1, <2>2, Quiet, FaultType DEF Inv, TypeOK, runs
<1>3. CASE Restart(w)
  BY <1>1, <1>3, QuietMove DEF Restart
<1> QED BY <1>2, <1>3

-----------------------------------------------------------------------------
(* A round starts: every other one is older *)

LEMMA StartStep ==
  ASSUME Inv, NEW w \in Workers, Start(w)
  PROVE  Inv'
<1>1. PICK gap \in {0, 1} :
        /\ \A v \in Running : wk[v].age + gap <= MaxAge
        /\ wk' = [v \in Workers |->
                    CASE v = w -> [Idle EXCEPT !.pc = "record", !.todo = Sources, !.asOf = source]
                      [] v \in Running -> [wk[v] EXCEPT !.age = @ + gap]
                      [] OTHER -> wk[v]]
        /\ open' = {n \in {age + gap : age \in open} : \E age \in Ages' : n <= age + Stale}
        /\ closed' = {age + gap : age \in closed} \cap Ages'
        /\ lastRun' = [s \in Sources |-> IF \E age \in Ages' : lastRun[s] + gap <= age
                                          THEN lastRun[s] + gap ELSE Old]
  BY DEF Start
<1>2. UNCHANGED <<data, lock, status, faults>>
  BY DEF Start, NoFault
<1> DEFINE begun == [Idle EXCEPT !.pc = "record", !.todo = Sources, !.asOf = source]
           aged(v) == [wk[v] EXCEPT !.age = @ + gap]
<1>3. begun \in WorkerState /\ begun.pc \notin Scanning /\ begun.asOf = source
  BY IdleType DEF Idle, WorkerState, Scanning, Inv, TypeOK
<1>4. ASSUME NEW v \in Running
      PROVE  /\ aged(v) \in WorkerState /\ aged(v).pc = wk[v].pc /\ aged(v).at = wk[v].at
             /\ aged(v).pos = wk[v].pos /\ aged(v).version = wk[v].version
             /\ aged(v).asOf = wk[v].asOf
  <2>1. wk[v] \in WorkerState /\ v \in Workers
    BY WorkerType DEF Running, Inv
  <2>2. wk[v].age + gap \in 0..MaxAge
    BY <1>1, <1>4, <2>1, RowsAssumption DEF WorkerState
  <2> QED BY <2>1, <2>2 DEF WorkerState
<1>5. ASSUME NEW v \in Workers
      PROVE  \/ v = w /\ wk'[v] = begun
             \/ v \in Running /\ wk'[v] = aged(v)
             \/ wk'[v] = wk[v]
  BY <1>1
<1> HIDE DEF begun, aged
<1>6. wk' \in [Workers -> WorkerState]
  <2>1. ASSUME NEW v \in Workers PROVE wk'[v] \in WorkerState
    BY <1>3, <1>4, <1>5, WorkerType DEF Inv
  <2> QED BY <1>1, <2>1
<1>7. \A age \in Ages' : age \in 0..MaxAge
  BY <1>6 DEF Ages, WorkerState
<1>8. TypeOK'
  <2>1. ASSUME NEW s \in Sources, NEW age \in Ages', lastRun[s] + gap <= age
        PROVE  lastRun[s] + gap \in 0..Old
    BY <1>7, <2>1, RowsAssumption DEF Inv, TypeOK, Old
  <2>2. Old \in 0..Old
    BY RowsAssumption DEF Old
  <2>3. lastRun' \in [Sources -> 0..Old]
    BY <1>1, <2>1, <2>2
  <2>4. open' \subseteq 0..MaxAge + Stale
    <3> SUFFICES ASSUME NEW n \in open, NEW age \in Ages', n + gap <= age + Stale
                 PROVE  n + gap \in 0..MaxAge + Stale
      BY <1>1
    <3> QED BY <1>7, RowsAssumption DEF Inv, TypeOK
  <2>5. closed' \subseteq 0..MaxAge
    BY <1>1, <1>7
  <2> QED BY <1>2, <1>6, <2>3, <2>4, <2>5 DEF Inv, TypeOK, data
<1>9. Promises'
  <2> SUFFICES ASSUME NEW v \in Workers PROVE Promise(wk'[v], mirror, source)
    BY <1>2 DEF Promises, Promise, data
  <2>1. Promise(begun, mirror, source)
    BY <1>3, NoPromise DEF Inv
  <2>2. Promise(wk[v], mirror, source)
    BY DEF Inv, Promises
  <2>3. ASSUME v \in Running PROVE Promise(aged(v), mirror, source)
    BY <1>4, <2>2, <2>3 DEF Promise
  <2> QED BY <1>5, <2>1, <2>2, <2>3
<1>10. FactsAreMirrored'
  BY <1>2 DEF Inv, FactsAreMirrored, data
<1> QED BY <1>8, <1>9, <1>10 DEF Inv

-----------------------------------------------------------------------------
(* The scan *)

LEMMA AcquireStep ==
  ASSUME Inv, NEW w \in Workers, Acquire(w)
  PROVE  Inv'
<1>1. PICK s \in wk[w].todo :
        /\ lock' = [lock EXCEPT ![s] = {w}]
        /\ Marks(w, [c \in {s} |-> "RUNNING"])
        /\ Becomes(w, [wk[w] EXCEPT !.pc = "read", !.at = s, !.pos = 1])
  BY DEF Acquire
<1> DEFINE st == [wk[w] EXCEPT !.pc = "read", !.at = s, !.pos = 1]
<1>2. wk[w] \in WorkerState /\ Promise(wk[w], mirror, source) /\ s \in Sources
  BY WorkerType DEF Inv, Promises, WorkerState
<1>3. st \in WorkerState /\ st.pc = "read" /\ st.at = s /\ st.pos = 1
      /\ st.asOf = wk[w].asOf
  BY <1>2 DEF WorkerState
<1>4. Promise(st, mirror, source)
  BY <1>2, <1>3, ScanParts DEF Promise, Scanning
<1>5. /\ status' \in [Channels -> Status] /\ lastRun' \in [Sources -> 0..Old]
      /\ faults' \in 0..MaxFaults
  BY <1>1, <1>2, MarksType DEF Inv, Channels, Status
<1>6. /\ Becomes(w, st) /\ UNCHANGED <<data, runs>>
      /\ lock' \in [Sources -> SUBSET Workers]
  BY <1>1, <1>2 DEF Acquire, Inv, TypeOK
<1> HIDE DEF st
<1> QED BY <1>3, <1>4, <1>5, <1>6, Quiet DEF Inv, TypeOK, runs

\* The row a round is at.
LEMMA CurrentType ==
  ASSUME Inv, NEW w \in Workers, wk[w].pc \in Scanning
  PROVE  /\ wk[w].at \in Sources /\ wk[w].pos \in 1..Len(Scan[wk[w].at])
         /\ Scan[wk[w].at] \in Seq(Rows) /\ Len(Scan[wk[w].at]) \in Nat
         /\ Current(w) = Scan[wk[w].at][wk[w].pos] /\ Current(w) \in Rows
<1>1. wk[w].at \in Sources /\ wk[w].pos \in 1..Len(Scan[wk[w].at])
  BY DEF Inv, Promises, Promise
<1>2. Scan[wk[w].at] \in Seq(Rows) /\ Len(Scan[wk[w].at]) \in Nat
  BY <1>1, ScanParts
<1> QED BY <1>1, <1>2 DEF Current

LEMMA ReadStep ==
  ASSUME Inv, NEW w \in Workers, Read(w)
  PROVE  Inv'
<1> DEFINE st == [wk[w] EXCEPT !.pc = "upsert", !.version = source[Current(w)]]
<1>1. wk[w] \in WorkerState /\ wk[w].pc \in Scanning /\ Promise(wk[w], mirror, source)
  BY WorkerType DEF Inv, Promises, Read, Scanning
<1>2. Current(w) \in Rows /\ Current(w) = Scan[wk[w].at][wk[w].pos]
  BY <1>1, CurrentType
<1>3. source[Current(w)] \in Version
  BY <1>2 DEF Inv, TypeOK, Versions
<1>4. /\ st \in WorkerState /\ st.pc = "upsert" /\ st.at = wk[w].at /\ st.pos = wk[w].pos
      /\ st.asOf = wk[w].asOf /\ st.version = source[Current(w)]
  BY <1>1, <1>3 DEF WorkerState
<1>5. Becomes(w, st) /\ UNCHANGED <<data, lock, runs, status, lastRun>> /\ NoFault
  BY DEF Read
<1> HIDE DEF st
<1>6. Promise(st, mirror, source)
  BY <1>1, <1>2, <1>4 DEF Promise, Scanning
<1> QED BY <1>4, <1>5, <1>6, Quiet, FaultType DEF Inv, TypeOK, runs

\* A batch is stored: the mirror grows, and holds what was read or newer.
LEMMA StoresGrows ==
  ASSUME Inv, NEW w \in Workers, wk[w].pc \in Scanning, Stores(w)
  PROVE  /\ mirror' \in Versions
         /\ \A r \in Rows : mirror[r] \in Nat /\ mirror'[r] \in Nat /\ mirror[r] <= mirror'[r]
         /\ wk[w].version <= mirror'[Current(w)]
<1>1. Current(w) \in Rows
  BY CurrentType
<1>2. mirror \in Versions /\ wk[w].version \in Version
  BY WorkerType DEF Inv, TypeOK, WorkerState
<1>3. \A n \in Version : n \in Nat
  BY RowsAssumption DEF Version
<1>4. /\ Upserted(Current(w), wk[w].version) \in Version
      /\ mirror[Current(w)] <= Upserted(Current(w), wk[w].version)
      /\ wk[w].version <= Upserted(Current(w), wk[w].version)
  BY <1>1, <1>2, <1>3 DEF Upserted, Versions
<1>5. mirror' \in Versions
  BY <1>1, <1>2, <1>4 DEF Stores, Versions
<1> QED BY <1>1, <1>2, <1>3, <1>4, <1>5 DEF Stores, Versions

\* Having stored a row, a round has it behind it.
LEMMA Passed ==
  ASSUME Inv, NEW w \in Workers, wk[w].pc = "upsert", Stores(w)
  PROVE  \A n \in 1..wk[w].pos :
           wk[w].asOf[Scan[wk[w].at][n]] <= mirror'[Scan[wk[w].at][n]]
<1>1. /\ wk[w] \in WorkerState /\ wk[w].pc \in Scanning
      /\ Promise(wk[w], mirror, source)
  BY WorkerType DEF Inv, Promises, Scanning
<1> SUFFICES ASSUME NEW n \in 1..wk[w].pos
             PROVE  wk[w].asOf[Scan[wk[w].at][n]] <= mirror'[Scan[wk[w].at][n]]
  OBVIOUS
<1>2. /\ wk[w].pos \in 1..Len(Scan[wk[w].at]) /\ Len(Scan[wk[w].at]) \in Nat
      /\ Scan[wk[w].at] \in Seq(Rows) /\ Current(w) = Scan[wk[w].at][wk[w].pos]
  BY <1>1, CurrentType
<1>3. Scan[wk[w].at][n] \in Rows
  BY <1>2
<1>4. wk[w].asOf[Scan[wk[w].at][n]] \in Nat
  BY <1>1, <1>3, VersionsType DEF WorkerState
<1>5. CASE n = wk[w].pos
  <2>1. wk[w].asOf[Current(w)] <= wk[w].version /\ wk[w].version \in Nat
    BY <1>1, <1>2, RowsAssumption DEF Promise, WorkerState, Version
  <2> QED BY <1>1, <1>2, <1>3, <1>4, <1>5, <2>1, StoresGrows
<1>6. CASE n # wk[w].pos
  <2>1. n \in 1..(wk[w].pos - 1)
    BY <1>2, <1>6
  <2>2. wk[w].asOf[Scan[wk[w].at][n]] <= mirror[Scan[wk[w].at][n]]
    BY <1>1, <2>1 DEF Promise
  <2> QED BY <1>1, <1>3, <1>4, <2>2, StoresGrows
<1> QED BY <1>5, <1>6

\* A step that stores a batch and goes on with the scan or leaves it.
LEMMA Copying ==
  ASSUME Inv, NEW w \in Workers, wk[w].pc \in Scanning, Stores(w),
         UNCHANGED <<source, facts>>, wk' \in [Workers -> WorkerState],
         Promise(wk'[w], mirror', source),
         \A v \in Workers : v # w =>
           wk'[v] = wk[v] \/ wk'[v] = [wk[v] EXCEPT !.latest = FALSE],
         lock' \in [Sources -> SUBSET Workers], open' \subseteq 0..MaxAge + Stale,
         closed' \subseteq 0..MaxAge,
         status' \in [Channels -> Status], lastRun' \in [Sources -> 0..Old],
         faults' \in 0..MaxFaults
  PROVE  Inv'
<1>1. /\ mirror' \in Versions
      /\ \A r \in Rows : mirror[r] \in Nat /\ mirror'[r] \in Nat /\ mirror[r] <= mirror'[r]
  BY StoresGrows
<1>2. TypeOK'
  BY <1>1 DEF Inv, TypeOK
<1>3. Promises'
  <2> SUFFICES ASSUME NEW v \in Workers, v # w PROVE Promise(wk'[v], mirror', source)
    BY DEF Promises, Promise
  <2>1. wk[v] \in WorkerState /\ Promise(wk[v], mirror, source)
    BY WorkerType DEF Inv, Promises
  <2>2. source \in Versions /\ mirror \in Versions /\ \A r \in Rows : source[r] <= source[r]
    BY VersionsType DEF Inv, TypeOK
  <2>3. Promise(wk[v], mirror', source)
    BY <1>1, <2>1, <2>2, PromiseLasts
  <2>4. /\ wk'[v].asOf = wk[v].asOf /\ wk'[v].pc = wk[v].pc /\ wk'[v].at = wk[v].at
        /\ wk'[v].pos = wk[v].pos /\ wk'[v].version = wk[v].version
    BY <2>1 DEF WorkerState
  <2> QED BY <2>3, <2>4 DEF Promise
<1>4. FactsAreMirrored'
  BY <1>1, VersionsType DEF Inv, TypeOK, FactsAreMirrored
<1> QED BY <1>2, <1>3, <1>4 DEF Inv

LEMMA UpsertStep ==
  ASSUME Inv, NEW w \in Workers, Upsert(w)
  PROVE  Inv'
<1> DEFINE next == [wk[w] EXCEPT !.pc = "read", !.pos = @ + 1, !.version = 0]
           last == [next EXCEPT !.latest = TRUE]
           older(v) == [wk[v] EXCEPT !.latest = FALSE]
<1>1. /\ wk[w] \in WorkerState /\ wk[w].pc = "upsert" /\ wk[w].pc \in Scanning
      /\ Promise(wk[w], mirror, source) /\ Stores(w)
  BY WorkerType DEF Inv, Promises, Upsert, Scanning
<1>2. /\ next \in WorkerState /\ next.pc = "read" /\ next.at = wk[w].at
      /\ next.pos = wk[w].pos + 1 /\ next.asOf = wk[w].asOf
  <2>1. 0 \in Version
    BY RowsAssumption DEF Version
  <2>2. wk[w].pos \in Nat /\ wk[w].pos + 1 \in Nat
    BY <1>1 DEF WorkerState
  <2> QED BY <1>1, <2>1, <2>2 DEF WorkerState
<1>3. /\ last \in WorkerState /\ last.pc = "read" /\ last.at = wk[w].at
      /\ last.pos = wk[w].pos + 1 /\ last.asOf = wk[w].asOf
  BY <1>2 DEF WorkerState
<1>4. /\ wk' \in [Workers -> WorkerState]
      /\ wk'[w] = next \/ wk'[w] = last
      /\ \A v \in Workers : v # w => wk'[v] = wk[v] \/ wk'[v] = older(v)
  <2>1. CASE wk' = [v \in Workers |-> IF v = w THEN last ELSE older(v)]
    <3>1. \A v \in Workers : older(v) \in WorkerState
      BY WorkerType DEF Inv, WorkerState
    <3> HIDE DEF next, last, older
    <3> QED BY <1>3, <2>1, <3>1
  <2>2. CASE Becomes(w, next)
    BY <1>2, <2>2, BecomesType DEF Inv
  <2> QED BY <2>1, <2>2 DEF Upsert
<1>5. wk'[w].pc = "read" /\ wk'[w].at = wk[w].at /\ wk'[w].pos = wk[w].pos + 1
      /\ wk'[w].asOf = wk[w].asOf
  BY <1>2, <1>3, <1>4
<1>6. /\ wk[w].pos \in 1..Len(Scan[wk[w].at]) /\ wk[w].pos # Len(Scan[wk[w].at])
      /\ Len(Scan[wk[w].at]) \in Nat
  BY <1>1, CurrentType DEF Upsert, AtLast
<1>7. Promise(wk'[w], mirror', source)
  BY <1>1, <1>5, <1>6, Passed DEF Promise, Scanning
<1>8. status' \in [Channels -> Status]
  BY DEF Upsert, Inv, TypeOK, Status
<1>9. UNCHANGED <<source, facts, lock, runs, lastRun>> /\ faults' \in 0..MaxFaults
  BY FaultType DEF Upsert, Inv
<1>10. \A v \in Workers : v # w =>
         wk'[v] = wk[v] \/ wk'[v] = [wk[v] EXCEPT !.latest = FALSE]
  BY <1>4
<1>11. lock' \in [Sources -> SUBSET Workers] /\ open' \subseteq 0..MaxAge + Stale
       /\ closed' \subseteq 0..MaxAge /\ lastRun' \in [Sources -> 0..Old]
  BY <1>9 DEF Inv, TypeOK, runs
<1> HIDE DEF next, last, older
<1> QED BY <1>1, <1>4, <1>7, <1>8, <1>9, <1>10, <1>11, Copying

LEMMA LeavesType ==
  ASSUME Inv, NEW w \in Workers, wk[w].pc \in Scanning, NEW ok \in BOOLEAN, Leaves(w, ok)
  PROVE  /\ lock' \in [Sources -> SUBSET Workers]
         /\ \E st \in WorkerState :
              Becomes(w, st) /\ st.pc \notin Scanning /\ st.asOf = wk[w].asOf
<1> DEFINE st == [wk[w] EXCEPT !.pc = "sources", !.todo = @ \ {wk[w].at}, !.at = NoSource,
                               !.pos = 0, !.version = 0, !.latest = FALSE,
                               !.ok = IF ok THEN @ \cup {wk[w].at} ELSE @]
<1>1. wk[w] \in WorkerState /\ wk[w].at \in Sources /\ 0 \in Version
  BY WorkerType, CurrentType, RowsAssumption DEF Inv, Version
<1>2. st \in WorkerState /\ st.pc \notin Scanning /\ st.asOf = wk[w].asOf
  BY <1>1 DEF WorkerState, Scanning
<1>3. Becomes(w, st) /\ lock' = [lock EXCEPT ![wk[w].at] = @ \ {w}]
  BY DEF Leaves
<1>4. lock' \in [Sources -> SUBSET Workers]
  BY <1>1, <1>3 DEF Inv, TypeOK
<1> HIDE DEF st
<1> QED BY <1>2, <1>3, <1>4

LEMMA UpsertLastStep ==
  ASSUME Inv, NEW w \in Workers, UpsertLast(w)
  PROVE  Inv'
<1>1. /\ wk[w].pc \in Scanning /\ Promise(wk[w], mirror, source) /\ Stores(w)
      /\ wk[w].at \in Sources
  BY CurrentType DEF Inv, Promises, UpsertLast, Scanning
<1>2. PICK st \in WorkerState :
        Becomes(w, st) /\ st.pc \notin Scanning /\ st.asOf = wk[w].asOf
  BY <1>1, LeavesType DEF UpsertLast
<1>3. lock' \in [Sources -> SUBSET Workers]
  BY <1>1, LeavesType DEF UpsertLast
<1>4. /\ wk' \in [Workers -> WorkerState] /\ wk'[w] = st
      /\ \A v \in Workers : v # w => wk'[v] = wk[v]
  BY <1>2, BecomesType DEF Inv
<1>5. Promise(wk'[w], mirror', source)
  BY <1>1, <1>2, <1>4 DEF Promise, Scanning
<1>6. /\ status' \in [Channels -> Status] /\ lastRun' \in [Sources -> 0..Old]
      /\ faults' \in 0..MaxFaults
  BY <1>1, MarksType DEF UpsertLast, Inv, Channels, Status
<1>7. UNCHANGED <<source, facts, runs>>
  BY DEF UpsertLast
<1> QED BY <1>1, <1>3, <1>4, <1>5, <1>6, <1>7, Copying DEF Inv, TypeOK, runs

LEMMA ScanFailsStep ==
  ASSUME Inv, NEW w \in Workers, ScanFails(w)
  PROVE  Inv'
<1>1. wk[w].pc \in Scanning /\ wk[w].at \in Sources /\ InApproval(w) \in BOOLEAN
  BY CurrentType DEF ScanFails, Scanning, InApproval
<1>2. PICK st \in WorkerState :
        Becomes(w, st) /\ st.pc \notin Scanning /\ st.asOf = wk[w].asOf
  BY <1>1, LeavesType DEF ScanFails
<1>3. lock' \in [Sources -> SUBSET Workers]
  BY <1>1, LeavesType DEF ScanFails
<1>4. status' \in [Channels -> Status] /\ lastRun' \in [Sources -> 0..Old]
  <2>1. DOMAIN Failed(w) \subseteq Channels /\ \A c \in DOMAIN Failed(w) : Failed(w)[c] \in Status
    BY <1>1 DEF Failed, Channels, Status
  <2> QED BY <2>1, MarkType DEF ScanFails, Inv
<1>5. Promise(st, mirror, source)
  BY <1>2, NoPromise DEF Inv, Promises
<1>6. UNCHANGED <<data, runs>> /\ faults' \in 0..MaxFaults
  BY FaultType DEF ScanFails, Inv
<1> QED BY <1>2, <1>3, <1>4, <1>5, <1>6, Quiet DEF Inv, TypeOK, runs

-----------------------------------------------------------------------------
(* Precompute and the environment *)

\* The facts are taken from the mirror.
LEMMA ComputeType ==
  ASSUME Inv, NEW list, Compute(list)
  PROVE  facts' \in Versions /\ \A r \in Rows : facts[r] <= facts'[r] /\ facts'[r] <= mirror[r]
<1>1. \A r \in Rows : /\ mirror[r] \in Version /\ facts[r] \in Version
                     /\ mirror[r] \in Nat /\ facts[r] \in Nat /\ facts[r] <= mirror[r]
  BY VersionsType DEF Inv, TypeOK, Versions, FactsAreMirrored
<1> QED BY <1>1 DEF Compute, Versions

LEMMA PrecomputeSteps ==
  ASSUME Inv, NEW w \in Workers, PrecomputeSigning(w) \/ PrecomputeConversion(w)
  PROVE  Inv'
<1>1. /\ Ends(w) \/ Goes(w, "conversion")
      /\ UNCHANGED <<source, mirror, lock, runs, status, lastRun, faults>>
      /\ \E list \in {Contract, CRM} : Compute(list)
  BY DEF PrecomputeSigning, PrecomputeConversion, AfterSigning, NoFault
<1>2. facts' \in Versions /\ \A r \in Rows : facts'[r] <= mirror[r]
  BY <1>1, ComputeType
<1>3. PICK st \in WorkerState :
        /\ Becomes(w, st) /\ st.pc \notin Scanning
        /\ st.asOf = wk[w].asOf \/ st.asOf = None
  BY <1>1, EndsType
<1>4. Promise(st, mirror, source)
  BY <1>3, NoPromise DEF Inv, Promises
<1>5. TypeOK'
  BY <1>1, <1>2, <1>3, BecomesType DEF Inv, TypeOK, runs
<1>6. Promises'
  <2> SUFFICES ASSUME NEW v \in Workers PROVE Promise(wk'[v], mirror, source)
    BY <1>1 DEF Promises, Promise
  <2> QED BY <1>3, <1>4, BecomesType DEF Inv, Promises
<1>7. FactsAreMirrored'
  BY <1>1, <1>2 DEF FactsAreMirrored
<1> QED BY <1>5, <1>6, <1>7 DEF Inv

LEMMA SourceChangesStep ==
  ASSUME Inv, SourceChanges
  PROVE  Inv'
<1>1. PICK newest \in 0..(MaxChanges - 1), r \in Rows :
        /\ \A q \in Rows : source[q] <= newest
        /\ source' = [source EXCEPT ![r] = newest + 1]
  BY DEF SourceChanges
<1>2. UNCHANGED <<mirror, facts, lock, runs, status, lastRun, wk, faults>>
  BY DEF SourceChanges, NoFault
<1>3. source \in Versions /\ mirror \in Versions
      /\ \A q \in Rows : source[q] \in Nat /\ mirror[q] \in Nat
  BY VersionsType DEF Inv, TypeOK
<1>4. newest + 1 \in Version
  BY <1>1, RowsAssumption DEF Version
<1>5. source' \in Versions
  BY <1>1, <1>3, <1>4 DEF Versions
<1>6. \A q \in Rows : mirror[q] <= mirror[q] /\ source[q] <= source'[q]
  BY <1>1, <1>3 DEF Versions
<1>7. TypeOK'
  BY <1>2, <1>5 DEF Inv, TypeOK, runs
<1>8. Promises'
  <2> SUFFICES ASSUME NEW v \in Workers PROVE Promise(wk[v], mirror, source')
    BY <1>2 DEF Promises, Promise
  <2> QED BY <1>3, <1>5, <1>6, PromiseLasts, WorkerType DEF Inv, Promises
<1>9. FactsAreMirrored'
  BY <1>2 DEF Inv, FactsAreMirrored
<1> QED BY <1>7, <1>8, <1>9 DEF Inv

LEMMA LoseLockStep ==
  ASSUME Inv, NEW s \in Sources, LoseLock(s)
  PROVE  Inv'
<1>1. UNCHANGED <<data, runs, status, lastRun, wk>> /\ lock' = [lock EXCEPT ![s] = {}]
  BY DEF LoseLock
<1>2. TypeOK'
  BY <1>1, FaultType DEF LoseLock, Inv, TypeOK, data, runs
<1>3. Promises' /\ FactsAreMirrored'
  BY <1>1 DEF Inv, Promises, Promise, FactsAreMirrored, data
<1> QED BY <1>2, <1>3 DEF Inv

LEMMA InvNext == Inv /\ [Next]_vars => Inv'
<1> SUFFICES ASSUME Inv, [Next]_vars PROVE Inv'
  OBVIOUS
<1>1. CASE SourceChanges
  BY <1>1, SourceChangesStep
<1>2. CASE \E s \in Sources : LoseLock(s)
  BY <1>2, LoseLockStep
<1>3. CASE \E w \in Workers : Round(w)
  BY <1>3, StartStep, RecordSteps, AcquireStep, SourceSteps, ReadStep, UpsertStep,
     UpsertLastStep, CountSteps, PrecomputeSteps DEF Round
<1>4. CASE \E w \in Workers : Fails(w) \/ Restart(w)
  BY <1>4, RecordSteps, SourceSteps, ScanFailsStep, CountSteps, ProcessSteps DEF Fails
<1>5. CASE UNCHANGED vars
  BY <1>5 DEF vars, data, runs, Inv, TypeOK, Promises, Promise, FactsAreMirrored
<1> QED BY <1>1, <1>2, <1>3, <1>4, <1>5 DEF Next

-----------------------------------------------------------------------------
(* The theorems *)

\* Every variable of the rounds keeps its type.
THEOREM TypeCorrect == Spec => []TypeOK
<1>1. Inv => TypeOK
  BY DEF Inv
<1> QED BY <1>1, InvInit, InvNext, PTL DEF Spec

\* The mirror changes only where a batch is stored.
LEMMA MirrorGrows ==
  ASSUME Inv, Next
  PROVE  \A r \in Rows : mirror'[r] >= mirror[r]
<1>1. \A r \in Rows : mirror[r] >= mirror[r]
  BY VersionsType DEF Inv, TypeOK
<1>2. CASE \E w \in Workers : Upsert(w) \/ UpsertLast(w)
  <2>1. PICK w \in Workers : wk[w].pc \in Scanning /\ Stores(w)
    BY <1>2 DEF Upsert, UpsertLast, Scanning
  <2> QED BY <2>1, StoresGrows
<1>3. CASE UNCHANGED mirror
  BY <1>1, <1>3
<1>4. \/ \E w \in Workers : Upsert(w) \/ UpsertLast(w)
      \/ UNCHANGED mirror
  BY DEF Next, Round, Fails, Restart, SourceChanges, LoseLock, Start, BeginSyncRun,
         FinishSyncRun, Acquire, Skip, Read, Count, PrecomputeSigning, PrecomputeConversion,
         BeginFails, FinishFails, LockFails, ScanFails, Returns, CountFails,
         PrecomputeFails, Crash, data
<1> QED BY <1>2, <1>3, <1>4

\* The facts change only where they are computed.
LEMMA FactsGrow ==
  ASSUME Inv, Next
  PROVE  \A r \in Rows : facts'[r] >= facts[r]
<1>1. /\ \A r \in Rows : facts[r] >= facts[r] /\ facts[r] \in Nat
      /\ facts' \in Versions
  BY InvNext, VersionsType DEF Inv, TypeOK
<1>2. CASE \E w \in Workers : PrecomputeSigning(w) \/ PrecomputeConversion(w)
  <2>1. \E list \in {Contract, CRM} : Compute(list)
    BY <1>2 DEF PrecomputeSigning, PrecomputeConversion
  <2>2. \A r \in Rows : facts'[r] \in Nat
    BY <1>1, VersionsType
  <2> QED BY <1>1, <2>1, <2>2, ComputeType
<1>3. CASE UNCHANGED facts
  BY <1>1, <1>3
<1>4. \/ \E w \in Workers : PrecomputeSigning(w) \/ PrecomputeConversion(w)
      \/ UNCHANGED facts
  BY DEF Next, Round, Fails, Restart, SourceChanges, LoseLock, Start, BeginSyncRun,
         FinishSyncRun, Acquire, Skip, Read, Count, Upsert, UpsertLast,
         BeginFails, FinishFails, LockFails, ScanFails, Returns, CountFails,
         PrecomputeFails, Crash, data
<1> QED BY <1>2, <1>3, <1>4

\* Whatever rounds overlap and whichever locks are lost, no row goes back to an older
\* version, in the mirror or in the facts.
THEOREM NothingRollsBack == Spec => NeverRollsBack
<1>1. Inv /\ [Next]_vars =>
        [\A r \in Rows : mirror'[r] >= mirror[r] /\ facts'[r] >= facts[r]]_vars
  BY MirrorGrows, FactsGrow
<1> QED BY <1>1, InvInit, InvNext, PTL DEF Spec, NeverRollsBack

\* A status becomes SUCCESS only where a scan ends.
LEMMA SuccessSteps ==
  ASSUME Inv, Next, NEW c \in Channels, status'[c] = "SUCCESS", status[c] # "SUCCESS"
  PROVE  \E w \in Workers : UpsertLast(w) \/ ScanFails(w)
<1>1. \A w \in Workers : ~Acquire(w)
  <2> SUFFICES ASSUME NEW w \in Workers, Acquire(w) PROVE FALSE
    OBVIOUS
  <2>1. PICK s \in Sources : Marks(w, [d \in {s} |-> "RUNNING"])
    BY WorkerType DEF Acquire, Inv, WorkerState
  <2> QED BY <2>1 DEF Marks, Mark
<1>2. \A w \in Workers : ~Upsert(w)
  BY DEF Upsert, Inv, TypeOK
<1>3. status' # status
  OBVIOUS
<1> QED
  BY <1>1, <1>2, <1>3
  DEF Next, Round, Fails, Restart, SourceChanges, LoseLock, Start, BeginSyncRun,
      FinishSyncRun, Skip, Read, Count, PrecomputeSigning, PrecomputeConversion,
      BeginFails, FinishFails, LockFails, Returns, CountFails, PrecomputeFails, Crash

\* What is behind a round in its scan covers the channel it marks.
LEMMA ChannelCovered ==
  ASSUME Inv, NEW w \in Workers, wk[w].pc \in Scanning, NEW c \in Channels, NEW last \in Nat,
         NEW m,
         \/ c = wk[w].at /\ last = Len(Scan[wk[w].at])
         \/ c = "contract_approval" /\ wk[w].at = "contract_management"
            /\ last = Len(Scan[wk[w].at])
         \/ c = "contract_management" /\ wk[w].at = c /\ last >= Len(Contract),
         \A n \in 1..last : wk[w].asOf[Scan[wk[w].at][n]] <= m[Scan[wk[w].at][n]]
  PROVE  \A r \in RowsOf[c] : wk[w].asOf[r] <= m[r]
<1>1. wk[w].at = "contract_management" \/ wk[w].at = "customer_and_opportunity"
  BY CurrentType DEF Sources
<1>2. \A n \in 1..Len(Contract) : n \in 1..Len(Scan["contract_management"])
  BY ScanParts, ListType
<1>3. CASE wk[w].at = "customer_and_opportunity"
  BY <1>3, Places, ScanParts
<1>4. CASE wk[w].at = "contract_management" /\ c = "contract_approval"
  BY <1>4, Places
<1>5. CASE wk[w].at = "contract_management" /\ c = "contract_management"
  <2>1. \A n \in 1..Len(Contract) : n \in 1..last
    BY <1>2, <1>5, ListType
  <2> QED BY <1>5, <2>1, Places
<1> QED BY <1>1, <1>3, <1>4, <1>5

LEMMA SuccessCovered ==
  ASSUME Inv, Next, NEW w \in Workers, NEW c \in Channels,
         wk'[w] # wk[w], status'[c] = "SUCCESS", status[c] # "SUCCESS"
  PROVE  \A r \in RowsOf[c] : mirror'[r] >= wk[w].asOf[r]
<1>1. \A r \in RowsOf[c] : r \in Rows
  BY DEF RowsOf, Rows
<1>2. \A r \in Rows : wk[w].asOf[r] \in Nat /\ mirror'[r] \in Nat
  BY InvNext, VersionsType, WorkerType DEF Inv, TypeOK, WorkerState
<1> SUFFICES \A r \in RowsOf[c] : wk[w].asOf[r] <= mirror'[r]
  BY <1>1, <1>2
<1>3. PICK v \in Workers : UpsertLast(v) \/ ScanFails(v)
  BY SuccessSteps
<1>4. v = w
  <2>1. wk[v].pc \in Scanning
    BY <1>3 DEF UpsertLast, ScanFails, Scanning
  <2>2. \E ok \in BOOLEAN : Leaves(v, ok)
    BY <1>3 DEF UpsertLast, ScanFails, InApproval
  <2> QED BY <2>1, <2>2, LeavesType, BecomesType DEF Inv
<1>5. CASE UpsertLast(w)
  <2>1. /\ wk[w].pc = "upsert" /\ wk[w].pc \in Scanning /\ Stores(w) /\ AtLast(w)
        /\ Marks(w, [d \in {wk[w].at} \cup
                       (IF InApproval(w) THEN {"contract_approval"} ELSE {}) |-> "SUCCESS"])
    BY <1>5 DEF UpsertLast, Scanning
  <2>2. c = wk[w].at \/ (c = "contract_approval" /\ InApproval(w))
    BY <2>1 DEF Marks, Mark
  <2>3. /\ wk[w].pos = Len(Scan[wk[w].at]) /\ wk[w].pos \in Nat
        /\ \A n \in 1..wk[w].pos :
             wk[w].asOf[Scan[wk[w].at][n]] <= mirror'[Scan[wk[w].at][n]]
    BY <2>1, Passed, WorkerType DEF AtLast, Inv, WorkerState
  <2> QED BY <2>1, <2>2, <2>3, ChannelCovered DEF InApproval
<1>6. CASE ScanFails(w)
  <2>1. wk[w].pc \in Scanning /\ Mark(w, Failed(w)) /\ mirror' = mirror
    BY <1>6 DEF ScanFails, Scanning, data
  <2>2. c \in DOMAIN Failed(w) /\ Failed(w)[c] = "SUCCESS"
    BY <2>1 DEF Mark
  <2>3. InApproval(w) /\ c = "contract_management"
    <3>1. CASE InApproval(w)
      BY <2>2, <3>1 DEF Failed, InApproval
    <3>2. CASE ~InApproval(w)
      BY <2>2, <3>2 DEF Failed
    <3> QED BY <3>1, <3>2
  <2>4. wk[w].pos \in Nat /\ wk[w].pos > Len(Contract) /\ wk[w].at = "contract_management"
    BY <2>3, WorkerType DEF InApproval, Inv, WorkerState
  <2>5. wk[w].pos - 1 \in Nat /\ wk[w].pos - 1 >= Len(Contract)
    BY <2>4, ListType
  <2>6. \A n \in 1..(wk[w].pos - 1) :
          wk[w].asOf[Scan[wk[w].at][n]] <= mirror'[Scan[wk[w].at][n]]
    BY <2>1 DEF Inv, Promises, Promise
  <2> QED BY <2>1, <2>3, <2>4, <2>5, <2>6, ChannelCovered
<1> QED BY <1>3, <1>4, <1>5, <1>6

\* A channel that is marked SUCCESS is mirrored as it was at the round's start, or newer,
\* whatever rounds overlap and whichever locks are lost.
THEOREM SuccessMeansMirrored == Spec => SuccessIsMirrored
<1>1. Inv /\ [Next]_vars =>
        [\A w \in Workers, c \in Channels :
           wk'[w] # wk[w] /\ status'[c] = "SUCCESS" /\ status[c] # "SUCCESS"
             => Covers(mirror', w, c)]_vars
  BY SuccessCovered DEF Covers
<1> QED BY <1>1, InvInit, InvNext, PTL DEF Spec, SuccessIsMirrored

-----------------------------------------------------------------------------
(* What the facts are computed from *)

Computing == {"signing", "conversion"}

\* The sources that a round with the state st has copied are in the mirror m as they were
\* at its start, or newer; and it only computes what it has copied the sources of.
Succeeded(st, m) ==
  /\ \A s \in st.ok : \A r \in RowsOf[s] : st.asOf[r] <= m[r]
  /\ st.pc \in Computing => "contract_management" \in st.ok
  /\ st.pc = "conversion" => "customer_and_opportunity" \in st.ok

Sourced == \A w \in Workers : Succeeded(wk[w], mirror)

\* A round goes on with the sources it has copied, or has none.
GoesOn(w) ==
  \/ wk'[w].ok = {} /\ wk'[w].pc \notin Computing
  \/ /\ wk'[w].ok = wk[w].ok /\ wk'[w].asOf = wk[w].asOf
     /\ \/ wk'[w].pc = wk[w].pc
        \/ wk'[w].pc \notin Computing
        \/ wk'[w].pc = "signing" /\ Signing(w)
        \/ wk'[w].pc = "conversion" /\ Conversion(w)

\* The other rounds only get older.
LEMMA OthersGoOn ==
  ASSUME Inv, NEW v \in Workers, NEW w \in Workers, w # v, Round(v) \/ Fails(v) \/ Restart(v)
  PROVE  wk'[w].ok = wk[w].ok /\ wk'[w].asOf = wk[w].asOf /\ wk'[w].pc = wk[w].pc
<1>1. wk[w] \in WorkerState
  BY WorkerType DEF Inv
<1>2. CASE Start(v)
  <2>1. PICK gap \in {0, 1} :
          wk' = [u \in Workers |->
                   CASE u = v -> [Idle EXCEPT !.pc = "record", !.todo = Sources, !.asOf = source]
                     [] u \in Running -> [wk[u] EXCEPT !.age = @ + gap]
                     [] OTHER -> wk[u]]
    BY <1>2 DEF Start
  <2>2. wk'[w] = wk[w] \/ wk'[w] = [wk[w] EXCEPT !.age = @ + gap]
    BY <2>1
  <2> QED BY <1>1, <2>2 DEF WorkerState
<1>3. CASE Upsert(v)
  <2>1. wk'[w] = wk[w] \/ wk'[w] = [wk[w] EXCEPT !.latest = FALSE]
    BY <1>3 DEF Upsert, Becomes, Inv, TypeOK
  <2> QED BY <1>1, <2>1 DEF WorkerState
<1>4. CASE ~Start(v) /\ ~Upsert(v)
  <2>1. \E st : wk' = [wk EXCEPT ![v] = st]
    BY <1>4
    DEF Round, Fails, Restart, BeginSyncRun, FinishSyncRun, Acquire, Skip, Read, UpsertLast,
        Leaves, Count, PrecomputeSigning, PrecomputeConversion, AfterSigning, Ends, Computes,
        BeginFails, FinishFails, LockFails, ScanFails, Returns, CountFails, PrecomputeFails,
        Crash, Goes, Becomes
  <2> QED BY <2>1 DEF Inv, TypeOK
<1> QED BY <1>2, <1>3, <1>4

\* Steps of a round before and in its scans.
LEMMA ScansGoOn ==
  ASSUME Inv, NEW w \in Workers,
         \/ Start(w) \/ BeginSyncRun(w) \/ BeginFails(w) \/ Acquire(w) \/ Skip(w)
         \/ LockFails(w) \/ Read(w) \/ Upsert(w)
  PROVE  GoesOn(w)
<1>1. wk[w] \in WorkerState /\ wk \in [Workers -> WorkerState]
  BY WorkerType DEF Inv, TypeOK
<1>2. CASE Start(w)
  <2> DEFINE begun == [Idle EXCEPT !.pc = "record", !.todo = Sources, !.asOf = source]
             aged(u, gap) == [wk[u] EXCEPT !.age = @ + gap]
  <2>1. PICK gap \in {0, 1} :
          wk' = [u \in Workers |->
                   CASE u = w -> begun [] u \in Running -> aged(u, gap) [] OTHER -> wk[u]]
    BY <1>2 DEF Start
  <2>2. begun.ok = {} /\ begun.pc = "record"
    BY DEF Idle
  <2>3. w \notin Running
    BY <1>2 DEF Start, Running
  <2> HIDE DEF begun, aged
  <2>4. wk'[w] = begun
    BY <2>1, <2>3
  <2> QED BY <2>2, <2>4 DEF GoesOn, Computing
<1>3. CASE BeginSyncRun(w)
  BY <1>1, <1>3 DEF BeginSyncRun, Becomes, WorkerState, GoesOn, Computing
<1>4. CASE BeginFails(w)
  BY <1>1, <1>4 DEF BeginFails, Goes, Becomes, WorkerState, GoesOn, Computing
<1>5. CASE Acquire(w)
  <2>1. PICK s \in wk[w].todo : wk'[w] = [wk[w] EXCEPT !.pc = "read", !.at = s, !.pos = 1]
    BY <1>1, <1>5 DEF Acquire, Becomes
  <2> QED BY <1>1, <2>1 DEF WorkerState, GoesOn, Computing
<1>6. CASE Skip(w) \/ LockFails(w)
  <2>1. PICK s \in wk[w].todo : wk'[w] = [wk[w] EXCEPT !.todo = @ \ {s}]
    BY <1>1, <1>6 DEF Skip, LockFails, Becomes
  <2> QED BY <1>1, <2>1 DEF WorkerState, GoesOn
<1>7. CASE Read(w)
  BY <1>1, <1>7 DEF Read, Becomes, WorkerState, GoesOn, Computing
<1>8. CASE Upsert(w)
  <2> DEFINE next == [wk[w] EXCEPT !.pc = "read", !.pos = @ + 1, !.version = 0]
  <2>1. wk'[w] = next \/ wk'[w] = [next EXCEPT !.latest = TRUE]
    BY <1>1, <1>8 DEF Upsert, Becomes
  <2>2. next.ok = wk[w].ok /\ next.asOf = wk[w].asOf /\ next.pc = "read"
    BY <1>1 DEF WorkerState
  <2>3. [next EXCEPT !.latest = TRUE].ok = wk[w].ok
        /\ [next EXCEPT !.latest = TRUE].asOf = wk[w].asOf
        /\ [next EXCEPT !.latest = TRUE].pc = "read"
    BY <1>1 DEF WorkerState
  <2> QED BY <2>1, <2>2, <2>3 DEF GoesOn, Computing
<1> QED BY <1>2, <1>3, <1>4, <1>5, <1>6, <1>7, <1>8

\* Steps of a round after its scans, or that end it.
LEMMA EndsGoOn ==
  ASSUME Inv, NEW w \in Workers,
         \/ Count(w) \/ CountFails(w) \/ PrecomputeSigning(w) \/ PrecomputeConversion(w)
         \/ PrecomputeFails(w) \/ Returns(w) \/ FinishSyncRun(w) \/ FinishFails(w)
         \/ Crash(w) \/ Restart(w)
  PROVE  GoesOn(w)
<1>1. wk[w] \in WorkerState /\ wk \in [Workers -> WorkerState]
  BY WorkerType DEF Inv, TypeOK
<1>2. Ends(w) => GoesOn(w)
  BY <1>1 DEF Ends, Becomes, WorkerState, GoesOn, Computing
<1>3. Computes(w) /\ Signing(w) => GoesOn(w)
  BY <1>1 DEF Computes, Goes, Becomes, WorkerState, GoesOn
<1>4. AfterSigning(w) => GoesOn(w)
  <2>1. Goes(w, "conversion") /\ Conversion(w) => GoesOn(w)
    BY <1>1 DEF Goes, Becomes, WorkerState, GoesOn
  <2> QED BY <1>2, <2>1 DEF AfterSigning
<1>5. CASE Count(w) \/ CountFails(w)
  BY <1>2, <1>3, <1>5 DEF Count, CountFails
<1>6. CASE PrecomputeSigning(w) \/ PrecomputeConversion(w) \/ PrecomputeFails(w)
  BY <1>2, <1>4, <1>6 DEF PrecomputeSigning, PrecomputeConversion, PrecomputeFails
<1>7. CASE Returns(w)
  BY <1>1, <1>7 DEF Returns, Becomes, WorkerState, GoesOn, Computing
<1>8. CASE FinishSyncRun(w) \/ FinishFails(w) \/ Crash(w) \/ Restart(w)
  <2>1. wk'[w] = Idle \/ wk'[w] = [Idle EXCEPT !.pc = "down"]
    BY <1>1, <1>8 DEF FinishSyncRun, FinishFails, Crash, Restart, Becomes
  <2> QED BY <2>1 DEF Idle, GoesOn, Computing
<1> QED BY <1>5, <1>6, <1>7, <1>8

\* Only the end of a scan adds to the sources a round has copied.
LEMMA RoundsGoOn ==
  ASSUME Inv, Next, NEW w \in Workers
  PROVE  GoesOn(w) \/ UpsertLast(w) \/ ScanFails(w)
<1>1. CASE SourceChanges \/ \E s \in Sources : LoseLock(s)
  BY <1>1 DEF SourceChanges, LoseLock, GoesOn
<1>2. CASE \E v \in Workers : v # w /\ (Round(v) \/ Fails(v) \/ Restart(v))
  BY <1>2, OthersGoOn DEF GoesOn
<1>3. CASE Round(w) \/ Fails(w) \/ Restart(w)
  BY <1>3, ScansGoOn, EndsGoOn DEF Round, Fails
<1> QED BY <1>1, <1>2, <1>3 DEF Next

\* The end of a scan adds its source only when the scan has passed all its rows; of the
\* approvals at the tail of the contract source those behind it are enough.
LEMMA ScanEnds ==
  ASSUME Inv, Sourced, Next, NEW w \in Workers, UpsertLast(w) \/ ScanFails(w)
  PROVE  Succeeded(wk'[w], mirror')
<1>1. /\ wk[w] \in WorkerState /\ wk[w].pc \in Scanning /\ wk[w].at \in Sources
      /\ wk[w].at \in Channels
  BY WorkerType, CurrentType DEF Inv, UpsertLast, ScanFails, Scanning, Channels
<1>2. \A s \in wk[w].ok : \A r \in RowsOf[s] :
        r \in Rows /\ s \in Sources /\ wk[w].asOf[r] <= mirror[r]
  BY <1>1 DEF Sourced, Succeeded, WorkerState, RowsOf, Rows, Channels
<1>3. \A r \in Rows : /\ wk[w].asOf[r] \in Nat /\ mirror[r] \in Nat /\ mirror'[r] \in Nat
                     /\ mirror'[r] >= mirror[r]
  BY <1>1, InvNext, MirrorGrows, VersionsType DEF Inv, TypeOK, WorkerState
<1>4. \A s \in wk[w].ok : \A r \in RowsOf[s] : wk[w].asOf[r] <= mirror'[r]
  BY <1>2, <1>3
<1>5. PICK ok \in BOOLEAN :
        /\ Leaves(w, ok)
        /\ ok => \A r \in RowsOf[wk[w].at] : wk[w].asOf[r] <= mirror'[r]
  <2>1. CASE UpsertLast(w)
    <3>1. wk[w].pc = "upsert" /\ Stores(w) /\ AtLast(w) /\ Leaves(w, TRUE)
      BY <2>1 DEF UpsertLast
    <3>2. /\ wk[w].pos = Len(Scan[wk[w].at]) /\ wk[w].pos \in Nat
          /\ \A n \in 1..wk[w].pos :
               wk[w].asOf[Scan[wk[w].at][n]] <= mirror'[Scan[wk[w].at][n]]
      BY <1>1, <3>1, Passed DEF AtLast, WorkerState
    <3> QED BY <1>1, <3>1, <3>2, ChannelCovered
  <2>2. CASE ScanFails(w) /\ ~InApproval(w)
    <3>1. InApproval(w) = FALSE
      BY <2>2 DEF InApproval
    <3> QED BY <2>2, <3>1 DEF ScanFails
  <2>3. CASE ScanFails(w) /\ InApproval(w)
    <3>1. Leaves(w, TRUE) /\ mirror' = mirror
      BY <2>3 DEF ScanFails, data
    <3>2. /\ wk[w].at = "contract_management" /\ wk[w].pos - 1 \in Nat
          /\ wk[w].pos - 1 >= Len(Contract)
      BY <1>1, <2>3, ListType DEF InApproval, WorkerState
    <3>3. \A n \in 1..(wk[w].pos - 1) :
            wk[w].asOf[Scan[wk[w].at][n]] <= mirror'[Scan[wk[w].at][n]]
      BY <1>1, <3>1 DEF Inv, Promises, Promise
    <3> QED BY <1>1, <3>1, <3>2, <3>3, ChannelCovered
  <2> QED BY <2>1, <2>2, <2>3
<1>6. /\ wk'[w].pc = "sources" /\ wk'[w].asOf = wk[w].asOf
      /\ wk'[w].ok = IF ok THEN wk[w].ok \cup {wk[w].at} ELSE wk[w].ok
  BY <1>1, <1>5 DEF Leaves, Becomes, Inv, TypeOK, WorkerState
<1> QED BY <1>4, <1>5, <1>6 DEF Succeeded, Computing

LEMMA SourcedNext ==
  ASSUME Inv, Sourced, [Next]_vars
  PROVE  Sourced'
<1> SUFFICES ASSUME NEW w \in Workers PROVE Succeeded(wk'[w], mirror')
  BY DEF Sourced, Succeeded
<1>1. Succeeded(wk[w], mirror) /\ wk[w] \in WorkerState
  BY WorkerType DEF Sourced, Inv
<1>2. CASE UNCHANGED vars
  BY <1>1, <1>2 DEF vars
<1>3. CASE Next /\ GoesOn(w)
  <2>1. \A s \in wk[w].ok : \A r \in RowsOf[s] :
          r \in Rows /\ wk[w].asOf[r] <= mirror[r]
    BY <1>1 DEF Succeeded, WorkerState, RowsOf, Rows, Channels
  <2>2. \A r \in Rows : /\ wk[w].asOf[r] \in Nat /\ mirror[r] \in Nat /\ mirror'[r] \in Nat
                       /\ mirror'[r] >= mirror[r]
    BY <1>1, <1>3, InvNext, MirrorGrows, VersionsType DEF Inv, TypeOK, WorkerState
  <2>3. \A s \in wk[w].ok : \A r \in RowsOf[s] : wk[w].asOf[r] <= mirror'[r]
    BY <2>1, <2>2
  <2>4. CASE wk'[w].ok = {} /\ wk'[w].pc \notin Computing
    BY <2>4 DEF Succeeded, Computing
  <2>5. CASE wk'[w].ok = wk[w].ok /\ wk'[w].asOf = wk[w].asOf
    <3>1. wk'[w].pc \in Computing => "contract_management" \in wk[w].ok
      BY <1>1, <1>3, <2>5 DEF GoesOn, Succeeded, Signing, Conversion, Computing
    <3>2. wk'[w].pc = "conversion" => "customer_and_opportunity" \in wk[w].ok
      BY <1>1, <1>3, <2>5 DEF GoesOn, Succeeded, Conversion, Computing
    <3> QED BY <2>3, <2>5, <3>1, <3>2 DEF Succeeded
  <2> QED BY <1>3, <2>4, <2>5 DEF GoesOn
<1>4. CASE Next /\ (UpsertLast(w) \/ ScanFails(w))
  BY <1>4, ScanEnds
<1> QED BY <1>2, <1>3, <1>4, RoundsGoOn

LEMMA SourcedInit == Init => Sourced
BY DEF Init, Idle, Sourced, Succeeded, Computing

\* A round that computes facts takes them from a mirror that covers it.
LEMMA FactsCovered ==
  ASSUME Inv, Sourced, Next, NEW w \in Workers
  PROVE  /\ PrecomputeSigning(w) => Covers(facts', w, "contract_management")
         /\ PrecomputeConversion(w) => /\ Covers(facts', w, "customer_and_opportunity")
                                       /\ Covers(mirror, w, "contract_management")
<1>1. Succeeded(wk[w], mirror) /\ wk[w] \in WorkerState
  BY WorkerType DEF Sourced, Inv
<1>2. /\ RowsOf["contract_management"] = Elements(Contract)
      /\ RowsOf["customer_and_opportunity"] = Elements(CRM)
      /\ Elements(Contract) \subseteq Rows /\ Elements(CRM) \subseteq Rows
  BY DEF RowsOf, Channels, Sources, Rows
<1>3. \A r \in Rows : wk[w].asOf[r] \in Nat /\ mirror[r] \in Nat
  BY <1>1, VersionsType DEF Inv, TypeOK, WorkerState
<1>4. CASE PrecomputeSigning(w)
  <2>1. \A r \in Elements(Contract) : wk[w].asOf[r] <= mirror[r]
    BY <1>1, <1>2, <1>4 DEF PrecomputeSigning, Succeeded, Computing
  <2>2. \A r \in Elements(Contract) : facts'[r] = mirror[r]
    BY <1>2, <1>4 DEF PrecomputeSigning, Compute
  <2>3. ~PrecomputeConversion(w)
    BY <1>4 DEF PrecomputeSigning, PrecomputeConversion
  <2> QED BY <1>2, <1>3, <2>1, <2>2, <2>3 DEF Covers
<1>5. CASE PrecomputeConversion(w)
  <2>1. /\ \A r \in Elements(Contract) : wk[w].asOf[r] <= mirror[r]
        /\ \A r \in Elements(CRM) : wk[w].asOf[r] <= mirror[r]
    BY <1>1, <1>2, <1>5 DEF PrecomputeConversion, Succeeded, Computing
  <2>2. \A r \in Elements(CRM) : facts'[r] = mirror[r]
    BY <1>2, <1>5 DEF PrecomputeConversion, Compute
  <2>3. ~PrecomputeSigning(w)
    BY <1>5 DEF PrecomputeSigning, PrecomputeConversion
  <2> QED BY <1>2, <1>3, <2>1, <2>2, <2>3 DEF Covers
<1> QED BY <1>4, <1>5

\* Whichever sources failed or were skipped, facts are computed only from rows that are as
\* their source had them when the round began, or newer.
THEOREM FactsAreCovered == Spec => FactsCoverTheRound
<1> DEFINE Covered(w) ==
      /\ PrecomputeSigning(w) => Covers(facts', w, "contract_management")
      /\ PrecomputeConversion(w) => /\ Covers(facts', w, "customer_and_opportunity")
                                    /\ Covers(mirror, w, "contract_management")
<1>1. Init => Inv /\ Sourced
  BY InvInit, SourcedInit
<1>2. Inv /\ Sourced /\ [Next]_vars => (Inv /\ Sourced)'
  BY InvNext, SourcedNext
<1>3. Inv /\ Sourced /\ [Next]_vars => [\A w \in Workers : Covered(w)]_vars
  BY FactsCovered
<1> QED BY <1>1, <1>2, <1>3, PTL DEF Spec, FactsCoverTheRound
=============================================================================
