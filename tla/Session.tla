------------------------------- MODULE Session -------------------------------
(***************************************************************************)
(* One browser session of internal/oidc: its row in da_oidc_sessions, the  *)
(* requests in flight that carry its cookie, and the back-channel logout.  *)
(* This module has what both deployments share and the one without a       *)
(* central session service; CentralSession has the other.                  *)
(*                                                                         *)
(* A request goes from step to step, one action per read or write of the   *)
(* database and per answer of a service.  Every time is an age in ticks:   *)
(* idle, life, check and access are the ages of last_interactive_at,       *)
(* created_at, authorization_checked_at and the access token; a request    *)
(* has the age of the time it goes by and of the call it is making.  An    *)
(* age stops growing where no comparison can tell.                         *)
(***************************************************************************)
EXTENDS Integers, FiniteSets

CONSTANTS Requests,     \* slots of requests in flight
          NoOne,        \* nobody holds the lock
          Mixes,        \* bound: what happens in one behaviour, see Happens
          Idle,         \* sessionIdleTTL
          Absolute,     \* sessionAbsoluteTTL
          CheckEvery,   \* checkEvery
          TokenLife,    \* age at which an access token is about to expire
          StateTimeout, \* stateTimeout of the central client
          CacheTTL,     \* cacheTTL of the central client
          Patience      \* bound: age a request may reach

\* Central: the deployment has a central session service.  Withdraw, End, Expire: the
\* platform takes the rights, ends the central session, access tokens age.
\* AuditRequired, NoReporter: how the audit is configured.
Happens == {"Central", "Withdraw", "End", "Expire", "Logout", "Backchannel",
            "page", "activity", "session", "issue", "open", "resource",
            "callback", "attach", "AuditRequired", "NoReporter"}

\* Requests that SessionAuth lets pass with the cookie of the session only.
Guarded == {"page", "activity", "session", "issue"}

ASSUME SlotsAssumption == NoOne # "kept" /\ Requests \cap {NoOne, "kept"} = {}

\* Only a deployment with a central session service has a central session that ends.
ASSUME MixesAssumption ==
  Mixes \subseteq SUBSET Happens /\ \A m \in Mixes : "End" \in m => "Central" \in m

ASSUME TimesAssumption ==
  /\ {Idle, CheckEvery, TokenLife, StateTimeout, CacheTTL, Patience} \subseteq Nat \ {0}
  /\ Absolute \in Nat /\ Idle < Absolute

VARIABLES mix,      \* the member of Mixes this behaviour has
          row,      \* the da_oidc_sessions row
          lock,     \* the transaction that locked it FOR UPDATE
          req,      \* req[r]: the request in slot r
          platform, \* rights, central session and tokens at the platform
          cache,    \* age of the client's cached verdict
          replay,   \* da_oidc_backchannel_logout_replay: the logout token's jti
          acked     \* the platform has read 200 for its logout

sessionVars == <<mix, row, lock, req, platform, cache, replay, acked>>

Central == "Central" \in mix
NoEntry == CacheTTL
Noticed == StateTimeout + CacheTTL
AtMost(n, cap) == IF n < cap THEN n ELSE cap

Row == [revoked : BOOLEAN, rights : BOOLEAN, refresh : Nat, idle : 0..Idle,
        life : 0..(Absolute + Patience), check : 0..(CheckEvery + 1), access : 0..TokenLife]

Steps == {"free", "state", "asked", "answer", "ok", "inactive", "lock", "present", "rotated",
          "fetch", "store", "handler", "touch", "revoke", "delete", "exchange", "insert",
          "audit", "consume", "served", "refused"}

Request == [kind : Happens \cup {"none"}, step : Steps, phase : 0..3, age : 0..Patience,
            call : 0..Patience, rights : BOOLEAN, due : BOOLEAN,
            alive : BOOLEAN, gone : BOOLEAN, late : SUBSET {"rights", "ended"}]

Platform == [rights : BOOLEAN, withdrawn : 0..(CheckEvery + 1), alive : BOOLEAN,
             ended : 0..Noticed, refresh : Nat, reused : BOOLEAN, lost : BOOLEAN]

NoRequest == [kind |-> "none", step |-> "free", phase |-> 0, age |-> 0, call |-> 0,
              rights |-> FALSE, due |-> FALSE, alive |-> FALSE, gone |-> FALSE, late |-> {}]

Waiting(r) == req[r].step \notin {"free", "served", "refused"}

\* The row of a new session, as of its created_at: the lifetimes and the check of the rights
\* count from there, though the rights were fetched before.
NewRow == [revoked |-> FALSE, rights |-> TRUE, refresh |-> 0, idle |-> 0, life |-> 0,
           check |-> 0, access |-> 0]

\* The user has rights, or has lost them after the login fetched them and before created_at.
NewPlatform ==
  {p \in [rights : BOOLEAN, withdrawn : 0..(CheckEvery + 1), alive : {TRUE}, ended : {0},
          refresh : {0}, reused : {FALSE}, lost : {FALSE}] :
     IF p.rights THEN p.withdrawn = 0 ELSE "Withdraw" \in mix}

\* The callback of a login is creating the session; it can be used once it is inserted.
SessionInit ==
  /\ mix \in Mixes
  /\ row = NewRow
  /\ lock = NoOne
  /\ req = [r \in Requests |-> NoRequest]
  /\ platform \in NewPlatform
  /\ cache = NoEntry
  /\ replay = NoOne
  /\ acked = FALSE

-----------------------------------------------------------------------------
(* Requests *)

Becomes(r, q) == req' = [req EXCEPT ![r] = q]
To(r, step) == Becomes(r, [req[r] EXCEPT !.step = step, !.call = 0])
Refused(q) == [NoRequest EXCEPT !.kind = q.kind, !.step = "refused"]
Served(q) == [NoRequest EXCEPT !.kind = q.kind, !.step = "served", !.rights = q.rights,
                               !.late = q.late]

\* The rights have been gone for n, and the session has been there for n.
GoneFor(n) == ~platform.rights /\ platform.withdrawn >= n /\ row.life >= n

\* What a request that arrives now comes too late for (see PortalProps).
Late ==
  {w \in {"rights"} : GoneFor(CheckEvery + (IF Central THEN 0 ELSE 1))}
    \cup {w \in {"ended"} : ~platform.alive /\ platform.ended >= Noticed}

Arriving(kind) == [NoRequest EXCEPT !.kind = kind, !.late = Late]

\* SessionAuth has a principal with these rights for the request's handler.
Principal(q, rights) ==
  IF q.kind = "page" THEN Served([q EXCEPT !.rights = rights])
  ELSE [Served([q EXCEPT !.rights = rights]) EXCEPT !.step = "handler"]

\* Mutant of Rollback: the jti is inserted outside the transaction.
RollbackKeepsJti(r) ==
  /\ lock' = IF lock = r THEN NoOne ELSE lock
  /\ replay' = IF replay = r THEN "kept" ELSE replay

\* A transaction that fails is rolled back and lets go of its locks.
Rollback(r) ==
  /\ lock' = IF lock = r THEN NoOne ELSE lock
  /\ replay' = IF replay = r THEN NoOne ELSE replay

\* A database call or a service fails, or the client has gone away.
Fails(r) ==
  /\ req[r].step \notin {"free", "served", "refused", "rotated"}
  /\ Becomes(r, Refused(req[r])) /\ Rollback(r)
  /\ UNCHANGED <<mix, row, platform, cache, acked>>

Respond(r) ==
  /\ req[r].step \in {"served", "refused"}
  /\ Becomes(r, NoRequest)
  /\ UNCHANGED <<mix, row, lock, platform, cache, replay, acked>>

-----------------------------------------------------------------------------
(* Without a central session service *)

ValidAt == ~row.revoked /\ row.life < Absolute /\ row.idle < Idle

Authenticate(r, kind) ==
  /\ ~Central /\ kind \in Guarded \cap mix
  /\ req[r].step = "free"
  /\ Becomes(r, LET q == Arriving(kind)
                IN  CASE ~ValidAt -> Refused(q)
                      [] row.check > CheckEvery -> [q EXCEPT !.step = "fetch"]
                      [] OTHER -> Principal(q, row.rights))
  /\ UNCHANGED <<mix, row, lock, platform, cache, replay, acked>>

\* The platform answers with the rights the user has, if the user still has any.
ResolveAuthorizationContext(r) ==
  /\ req[r].step = "fetch"
  /\ Becomes(r, [req[r] EXCEPT !.step = "store", !.rights = platform.rights])
  /\ UNCHANGED <<mix, row, lock, platform, cache, replay, acked>>

\* Mutant of Stored: the session is saved whole, as it was read.
StoredWhole(r) ==
  [row EXCEPT !.rights = req[r].rights, !.check = AtMost(req[r].call, CheckEvery + 1),
              !.revoked = FALSE]

\* Mutant of Stored: the check counts from when it is stored.
StoredLate(r) == [row EXCEPT !.rights = req[r].rights, !.check = 0]

\* The columns that are written: the check counts from before the fetch.
Stored(r) == [row EXCEPT !.rights = req[r].rights, !.check = AtMost(req[r].call, CheckEvery + 1)]

PersistAuthorization(r) ==
  /\ req[r].step = "store"
  /\ row' = Stored(r)
  /\ Becomes(r, Principal(req[r], req[r].rights))
  /\ lock' = IF lock = r THEN NoOne ELSE lock
  /\ UNCHANGED <<mix, platform, cache, replay, acked>>

\* TouchActivity reads the session ...
ReadActivity(r) ==
  /\ ~Central /\ req[r].kind = "activity" /\ req[r].step = "handler"
  /\ Becomes(r, IF ValidAt THEN [req[r] EXCEPT !.step = "touch"] ELSE Refused(req[r]))
  /\ UNCHANGED <<mix, row, lock, platform, cache, replay, acked>>

\* ... and writes the time it read it at, if the session is neither revoked nor over.
TouchActivity(r) ==
  /\ req[r].step = "touch"
  /\ IF ~row.revoked /\ row.life - req[r].age < Absolute
       THEN /\ row' = [row EXCEPT !.idle = AtMost(req[r].age, Idle)]
            /\ Becomes(r, Served(req[r]))
       ELSE /\ Becomes(r, Refused(req[r]))
            /\ UNCHANGED row
  /\ UNCHANGED <<mix, lock, platform, cache, replay, acked>>

-----------------------------------------------------------------------------
(* Logout *)

RevokeSession ==
  /\ lock = NoOne /\ ~row.revoked
  /\ row' = [row EXCEPT !.revoked = TRUE]
  /\ UNCHANGED <<mix, lock, req, platform, cache, replay, acked>>

\* Failures are ignored: the cookie is deleted either way.
Logout == "Logout" \in mix /\ RevokeSession

\* The platform sends its logout token until one delivery is acknowledged.  A jti that
\* another transaction has inserted is waited for; a committed one is a duplicate.
BackchannelLogout(r) ==
  /\ "Backchannel" \in mix /\ ~acked
  /\ req[r].step = "free" /\ replay \in {NoOne, "kept"}
  /\ IF replay = "kept"
       THEN acked' = TRUE /\ UNCHANGED <<req, replay>>
       ELSE /\ replay' = r
            /\ Becomes(r, [NoRequest EXCEPT !.kind = "Backchannel", !.step = "revoke"])
            /\ UNCHANGED acked
  /\ UNCHANGED <<mix, row, lock, platform, cache>>

\* The update waits for the row; its commit keeps the jti.  The answer may get lost.
CommitLogout(r) ==
  /\ req[r].step = "revoke" /\ lock = NoOne
  /\ row' = [row EXCEPT !.revoked = TRUE]
  /\ replay' = "kept"
  /\ acked' \in BOOLEAN
  /\ Becomes(r, NoRequest)
  /\ UNCHANGED <<mix, lock, platform, cache>>

-----------------------------------------------------------------------------
(* The platform and time *)

\* The platform takes the user's rights.
Withdraw ==
  /\ "Withdraw" \in mix /\ platform.rights
  /\ platform' = [platform EXCEPT !.rights = FALSE]
  /\ UNCHANGED <<mix, row, lock, req, cache, replay, acked>>

\* The platform ends the central session.
End ==
  /\ "End" \in mix /\ platform.alive
  /\ platform' = [platform EXCEPT !.alive = FALSE]
  /\ UNCHANGED <<mix, row, lock, req, cache, replay, acked>>

Older(q) ==
  IF q.step \in {"free", "served", "refused"} THEN q
  ELSE [q EXCEPT !.age = @ + 1,
                 !.call = IF q.step \in {"asked", "answer", "fetch", "store"} THEN @ + 1 ELSE @]

\* The calls of a request have timeouts; that of the central verdict is kept to the tick.
MayWait(q) ==
  \/ q.step \in {"free", "served", "refused"}
  \/ q.age < Patience /\ (q.step \in {"asked", "answer"} => q.call < StateTimeout)

Tick ==
  /\ row.life < Absolute + Patience
  /\ \A r \in Requests : MayWait(req[r])
  /\ row' = [row EXCEPT !.idle = IF Central THEN @ ELSE AtMost(@ + 1, Idle),
                        !.life = @ + 1,
                        !.check = AtMost(@ + 1, CheckEvery + 1),
                        !.access = IF "Expire" \in mix THEN AtMost(@ + 1, TokenLife) ELSE @]
  /\ req' = [r \in Requests |-> Older(req[r])]
  /\ platform' = [platform EXCEPT
       !.withdrawn = IF platform.rights THEN @ ELSE AtMost(@ + 1, CheckEvery + 1),
       !.ended = IF platform.alive THEN @ ELSE AtMost(@ + 1, Noticed)]
  /\ cache' = AtMost(cache + 1, NoEntry)
  /\ UNCHANGED <<mix, lock, replay, acked>>
=============================================================================
