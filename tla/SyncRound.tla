------------------------------ MODULE SyncRound ------------------------------
(***************************************************************************)
(* Scheduled rounds in detail (internal/aggregation: runScheduledSources,  *)
(* sync_run.go, the dimension upserts, precompute).  SyncQueue has the     *)
(* queue beside the rounds and abstracts what they copy; here the rounds   *)
(* are alone and copy rows.                                                *)
(*                                                                         *)
(* A round records its start in sync_run, copies its sources one after the *)
(* other, each under its lock, and computes the facts from the mirror      *)
(* unless an earlier round is still open.  A row is read in a batch and    *)
(* written with its source's updated_at as a guard.  The approval channel  *)
(* is the tail of the contract source, with a status and a start of its    *)
(* own.                                                                    *)
(*                                                                         *)
(* A row is the version its updated_at stands for.  The code compares only *)
(* starts of rounds, so a time is the age it has at the latest start; all  *)
(* grow when a round starts.  A sync_run row has the age of its key, a     *)
(* status the age of its last_run_at.  Two approval scans have different   *)
(* starts.                                                                 *)
(***************************************************************************)
EXTENDS Integers, Sequences, FiniteSets

CONSTANTS Workers,    \* worker processes, each with one round at a time
          Contract,   \* con_contract rows in the order of their key
          Approval,   \* con_approval_instance rows, likewise
          CRM,        \* crm_customers and crm_opportunities rows, likewise
          Stale,      \* syncRunStaleAfter (2 h)
          NoSource,
          MaxAge,     \* bound: a round starts while no other is older
          MaxChanges, \* bound on changes of source rows
          MaxFaults   \* bound on failures and crashes

Elements(list) == {list[n] : n \in 1..Len(list)}
Rows == Elements(Contract) \cup Elements(CRM) \cup Elements(Approval)

Sources == {"contract_management", "customer_and_opportunity"}
Scan == [s \in Sources |-> IF s = "contract_management" THEN Contract \o Approval ELSE CRM]
Channels == Sources \cup {"contract_approval"}
RowsOf == [c \in Channels |->
             CASE c = "contract_management" -> Elements(Contract)
               [] c = "contract_approval" -> Elements(Approval)
               [] OTHER -> Elements(CRM)]

ASSUME RowsAssumption ==
  /\ {Contract, Approval, CRM} \subseteq Seq(Rows) \ {<<>>}
  /\ {Stale, MaxAge} \subseteq Nat \ {0} /\ {MaxChanges, MaxFaults} \subseteq Nat

VARIABLES source,   \* source[r]: the version of the row in its system
          mirror,   \* dim_contract, dim_contract_approval, dim_customer, ...
          facts,    \* the rows the facts were computed from
          lock,     \* GET_LOCK holder of each source
          open,     \* sync_run rows without finished_at, by their age
          closed,   \* those with it, as long as some round may have their start
          status,   \* sync_source.last_status of each channel
          lastRun,  \* sync_source.last_run_at of each source
          wk,       \* the rounds
          faults

vars == <<source, mirror, facts, lock, open, closed, status, lastRun, wk, faults>>
data == <<source, mirror, facts>>
runs == <<open, closed>>

Version == 0..MaxChanges
Versions == [Rows -> Version]
None == [r \in Rows |-> 0]

Old == MaxAge + 1  \* last_run_at IS NULL, or before every round that runs
Status == {"PENDING", "RUNNING", "SUCCESS", "FAILED"}
WorkerState ==
  [pc : {"down", "idle", "record", "sources", "read", "upsert", "signing", "conversion", "finish"},
   age : 0..MaxAge, recorded : BOOLEAN, todo : SUBSET Sources, ok : SUBSET Sources,
   at : Sources \cup {NoSource}, pos : Nat, version : Version,
   asOf : Versions, latest : BOOLEAN]
Idle == [pc |-> "idle", age |-> 0, recorded |-> FALSE, todo |-> {}, ok |-> {}, at |-> NoSource,
         pos |-> 0, version |-> 0, asOf |-> None, latest |-> FALSE]

Init ==
  /\ source = None /\ mirror = None /\ facts = None
  /\ lock = [s \in Sources |-> {}] /\ open = {} /\ closed = {}
  /\ status = [c \in Channels |-> "PENDING"] /\ lastRun = [s \in Sources |-> Old]
  /\ wk = [w \in Workers |-> Idle]
  /\ faults = 0

NoFault == UNCHANGED faults
Fault == faults < MaxFaults /\ faults' = faults + 1
Becomes(w, state) == wk' = [wk EXCEPT ![w] = state]
Goes(w, pc) == Becomes(w, [wk[w] EXCEPT !.pc = pc])
Ages == {wk[w].age : w \in Workers}
Running == {w \in Workers : wk[w].pc \notin {"idle", "down"}}

-----------------------------------------------------------------------------
(* The record of a round *)

\* A round starts gap after the latest start, or at the same time.  asOf remembers what
\* the sources held at the start.  A record that no round can meet or count any more is
\* left out, and a last_run_at before every round is Old.
Start(w) ==
  /\ wk[w].pc = "idle"
  /\ \E gap \in {0, 1} :
       /\ \A v \in Running : wk[v].age + gap <= MaxAge
       /\ wk' = [v \in Workers |->
                   CASE v = w -> [Idle EXCEPT !.pc = "record", !.todo = Sources, !.asOf = source]
                     [] v \in Running -> [wk[v] EXCEPT !.age = @ + gap]
                     [] OTHER -> wk[v]]
       /\ open' = {n \in {age + gap : age \in open} : \E age \in Ages' : n <= age + Stale}
       /\ closed' = {age + gap : age \in closed} \cap Ages'
       /\ lastRun' = [s \in Sources |-> IF \E age \in Ages' : lastRun[s] + gap <= age
                                         THEN lastRun[s] + gap ELSE Old]
  /\ UNCHANGED <<data, lock, status>> /\ NoFault

\* The start is the key: of two rounds with the same one only the first is recorded,
\* whether or not that one has finished.
BeginSyncRun(w) ==
  /\ wk[w].pc = "record" /\ open' = open \cup ({wk[w].age} \ closed)
  /\ Becomes(w, [wk[w] EXCEPT !.pc = "sources", !.recorded = wk[w].age \notin open \cup closed])
  /\ UNCHANGED <<data, lock, closed, status, lastRun>> /\ NoFault

\* Not recorded, the round goes on without its guard.
BeginFails(w) ==
  /\ wk[w].pc = "record" /\ Goes(w, "sources")
  /\ UNCHANGED <<data, lock, runs, status, lastRun>> /\ Fault

\* The row is found by its start alone, whoever recorded it.
FinishSyncRun(w) ==
  /\ wk[w].pc = "finish" /\ Becomes(w, Idle)
  /\ open' = open \ {wk[w].age}
  /\ closed' = (closed \cup (open \cap {wk[w].age})) \cap Ages'
  /\ UNCHANGED <<data, lock, status, lastRun>> /\ NoFault

FinishFails(w) ==
  /\ wk[w].pc = "finish" /\ Becomes(w, Idle)
  /\ UNCHANGED <<data, lock, runs, status, lastRun>> /\ Fault

-----------------------------------------------------------------------------
(* The sources *)

\* A status belongs to the latest start; latest says whether the approval scan is that.
Accepts(w, c) ==
  IF c = "contract_approval" THEN wk[w].latest ELSE lastRun[c] >= wk[w].age

Mark(w, states) ==
  LET marked == {c \in DOMAIN states : Accepts(w, c)}
  IN  /\ status' = [c \in Channels |-> IF c \in marked THEN states[c] ELSE status[c]]
      /\ lastRun' = [s \in Sources |-> IF s \in marked THEN wk[w].age ELSE lastRun[s]]

\* A mark that fails is ignored.
Marks(w, states) == (Mark(w, states) /\ NoFault) \/ (UNCHANGED <<status, lastRun>> /\ Fault)

\* The sources come in the order of a Go map: any.
Acquire(w) ==
  /\ wk[w].pc = "sources"
  /\ \E s \in wk[w].todo :
       /\ lock[s] = {} /\ lock' = [lock EXCEPT ![s] = {w}]
       /\ Marks(w, [c \in {s} |-> "RUNNING"])
       /\ Becomes(w, [wk[w] EXCEPT !.pc = "read", !.at = s, !.pos = 1])
  /\ UNCHANGED <<data, runs>>

Skip(w) ==
  /\ wk[w].pc = "sources"
  /\ \E s \in wk[w].todo : lock[s] # {} /\ Becomes(w, [wk[w] EXCEPT !.todo = @ \ {s}])
  /\ UNCHANGED <<data, lock, runs, status, lastRun>> /\ NoFault

LockFails(w) ==
  /\ wk[w].pc = "sources"
  /\ \E s \in wk[w].todo : Becomes(w, [wk[w] EXCEPT !.todo = @ \ {s}])
  /\ UNCHANGED <<data, lock, runs, status, lastRun>> /\ Fault

Current(w) == Scan[wk[w].at][wk[w].pos]
InApproval(w) == wk[w].at = "contract_management" /\ wk[w].pos > Len(Contract)
AtLast(w) == wk[w].pos = Len(Scan[wk[w].at])

\* A batch of the scan, in the order of the key.
Read(w) ==
  /\ wk[w].pc = "read"
  /\ Becomes(w, [wk[w] EXCEPT !.pc = "upsert", !.version = source[Current(w)]])
  /\ UNCHANGED <<data, lock, runs, status, lastRun>> /\ NoFault

\* Mutant of Upserted: what was read overwrites what is stored.
UpsertedUnguarded(r, version) == version

\* ON DUPLICATE KEY UPDATE ... IF(VALUES(updated_at) >= updated_at, ...)
Upserted(r, version) == IF version >= mirror[r] THEN version ELSE mirror[r]

Stores(w) == mirror' = [mirror EXCEPT ![Current(w)] = Upserted(Current(w), wk[w].version)]

\* After the contracts come the approvals, whose channel is marked.
Upsert(w) ==
  LET next == [wk[w] EXCEPT !.pc = "read", !.pos = @ + 1, !.version = 0]
      contractsEnd == wk[w].at = "contract_management" /\ wk[w].pos = Len(Contract)
  IN  /\ wk[w].pc = "upsert" /\ ~AtLast(w) /\ Stores(w)
      /\ IF contractsEnd
         THEN /\ wk' = [v \in Workers |-> IF v = w THEN [next EXCEPT !.latest = TRUE]
                                          ELSE [wk[v] EXCEPT !.latest = FALSE]]
              /\ status' = [status EXCEPT !["contract_approval"] = "RUNNING"]
         ELSE Becomes(w, next) /\ UNCHANGED status
      /\ UNCHANGED <<source, facts, lock, runs, lastRun>> /\ NoFault

\* Mutant of Leaves: the source counts as copied before its error is looked at.
LeavesCopied(w, ok) ==
  /\ lock' = [lock EXCEPT ![wk[w].at] = @ \ {w}]
  /\ Becomes(w, [wk[w] EXCEPT !.pc = "sources", !.todo = @ \ {wk[w].at}, !.at = NoSource,
                              !.pos = 0, !.version = 0, !.latest = FALSE,
                              !.ok = @ \cup {wk[w].at}])

\* The source is done with; its lock goes if it is still held.
Leaves(w, ok) ==
  /\ lock' = [lock EXCEPT ![wk[w].at] = @ \ {w}]
  /\ Becomes(w, [wk[w] EXCEPT !.pc = "sources", !.todo = @ \ {wk[w].at}, !.at = NoSource,
                              !.pos = 0, !.version = 0, !.latest = FALSE,
                              !.ok = IF ok THEN @ \cup {wk[w].at} ELSE @])

UpsertLast(w) ==
  /\ wk[w].pc = "upsert" /\ AtLast(w) /\ Stores(w) /\ Leaves(w, TRUE)
  /\ Marks(w, [c \in {wk[w].at} \cup (IF InApproval(w) THEN {"contract_approval"} ELSE {}) |->
                 "SUCCESS"])
  /\ UNCHANGED <<source, facts, runs>>

\* Mutant of Failed: a failed approval scan leaves its channel as a success.
FailedUnnoticed(w) ==
  IF InApproval(w) THEN [c \in {wk[w].at, "contract_approval"} |-> "SUCCESS"]
  ELSE [c \in {wk[w].at} |-> "FAILED"]

\* A failed approval scan does not take back what the contracts achieved.
Failed(w) ==
  IF InApproval(w)
  THEN [c \in {wk[w].at, "contract_approval"} |->
          IF c = "contract_approval" THEN "FAILED" ELSE "SUCCESS"]
  ELSE [c \in {wk[w].at} |-> "FAILED"]

\* A read or a write fails; the marks that follow are written.
ScanFails(w) ==
  /\ wk[w].pc \in {"read", "upsert"} /\ Leaves(w, InApproval(w))
  /\ Mark(w, Failed(w)) /\ UNCHANGED <<data, runs>> /\ Fault

\* The licence has gone or the context has ended: the round returns at once.
Returns(w) ==
  /\ wk[w].pc = "sources" /\ wk[w].todo # {}
  /\ Becomes(w, [wk[w] EXCEPT !.pc = "finish", !.todo = {}, !.ok = {}, !.asOf = None])
  /\ UNCHANGED <<data, lock, runs, status, lastRun>> /\ Fault

-----------------------------------------------------------------------------
(* Precompute *)

Signing(w) == "contract_management" \in wk[w].ok
Conversion(w) == Signing(w) /\ "customer_and_opportunity" \in wk[w].ok

\* Open rows with an earlier start, of the last two hours before this one.
Overlaps(w) == \E age \in open : age > wk[w].age /\ age <= wk[w].age + Stale

\* What the sources were at the start, and which have succeeded, matters no longer once the
\* facts are done with.
Ends(w) == Becomes(w, [wk[w] EXCEPT !.pc = "finish", !.ok = {}, !.asOf = None])
Computes(w) == Goes(w, "signing")

Count(w) ==
  /\ wk[w].pc = "sources" /\ wk[w].todo = {}
  /\ IF Signing(w) /\ ~(wk[w].recorded /\ Overlaps(w)) THEN Computes(w) ELSE Ends(w)
  /\ UNCHANGED <<data, lock, runs, status, lastRun>> /\ NoFault

\* Nothing counted, the facts are computed all the same.
CountFails(w) ==
  /\ wk[w].pc = "sources" /\ wk[w].todo = {} /\ Signing(w) /\ Computes(w)
  /\ UNCHANGED <<data, lock, runs, status, lastRun>> /\ Fault

Compute(list) ==
  facts' = [r \in Rows |-> IF r \in Elements(list) THEN mirror[r] ELSE facts[r]]
AfterSigning(w) == IF Conversion(w) THEN Goes(w, "conversion") ELSE Ends(w)

\* One transaction deletes the facts and selects them anew.  Contract rows stand for
\* fct_contract_signing, CRM rows for fct_opportunity_conversion.
PrecomputeSigning(w) ==
  /\ wk[w].pc = "signing" /\ Compute(Contract) /\ AfterSigning(w)
  /\ UNCHANGED <<source, mirror, lock, runs, status, lastRun>> /\ NoFault

PrecomputeConversion(w) ==
  /\ wk[w].pc = "conversion" /\ Compute(CRM) /\ Ends(w)
  /\ UNCHANGED <<source, mirror, lock, runs, status, lastRun>> /\ NoFault

PrecomputeFails(w) ==
  /\ \/ wk[w].pc = "signing" /\ AfterSigning(w)
     \/ wk[w].pc = "conversion" /\ Ends(w)
  /\ UNCHANGED <<data, lock, runs, status, lastRun>> /\ Fault

-----------------------------------------------------------------------------
(* The environment *)

\* A row gets a version above all others.
SourceChanges ==
  /\ \E newest \in 0..(MaxChanges - 1), r \in Rows :
       /\ \A q \in Rows : source[q] <= newest
       /\ \E q \in Rows : source[q] = newest
       /\ source' = [source EXCEPT ![r] = newest + 1]
  /\ UNCHANGED <<mirror, facts, lock, runs, status, lastRun, wk>> /\ NoFault

\* The session that holds the lock ends; its round goes on.
LoseLock(s) ==
  /\ lock[s] # {} /\ lock' = [lock EXCEPT ![s] = {}]
  /\ UNCHANGED <<data, runs, status, lastRun, wk>> /\ Fault

\* The process dies; what it recorded stays open.
Crash(w) ==
  /\ wk[w].pc # "down" /\ Becomes(w, [Idle EXCEPT !.pc = "down"])
  /\ lock' = [s \in Sources |-> lock[s] \ {w}]
  /\ UNCHANGED <<data, runs, status, lastRun>> /\ Fault

Restart(w) ==
  /\ wk[w].pc = "down" /\ Becomes(w, Idle)
  /\ UNCHANGED <<data, lock, runs, status, lastRun>> /\ NoFault

Round(w) ==
  \/ Start(w) \/ BeginSyncRun(w) \/ FinishSyncRun(w)
  \/ Acquire(w) \/ Skip(w) \/ Read(w) \/ Upsert(w) \/ UpsertLast(w)
  \/ Count(w) \/ PrecomputeSigning(w) \/ PrecomputeConversion(w)

Fails(w) ==
  \/ BeginFails(w) \/ FinishFails(w) \/ LockFails(w) \/ ScanFails(w) \/ Returns(w)
  \/ CountFails(w) \/ PrecomputeFails(w) \/ Crash(w)

Next ==
  \/ SourceChanges
  \/ \E s \in Sources : LoseLock(s)
  \/ \E w \in Workers : Round(w) \/ Fails(w) \/ Restart(w)

Spec == Init /\ [][Next]_vars
=============================================================================
