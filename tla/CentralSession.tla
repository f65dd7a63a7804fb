---------------------------- MODULE CentralSession ----------------------------
(***************************************************************************)
(* The session under a central session service (oidc/session_governance,   *)
(* session_rotation, internal/sessiongovernance).  A request asks for the  *)
(* verdict on the central session, which the client caches for CacheTTL.   *)
(* When the access token runs out or the rights are due for a check, two   *)
(* transactions follow that lock the row and ask for the verdict again:    *)
(* the first rotates the tokens, the second fetches the rights.            *)
(*                                                                         *)
(* phase 0 is the request's own read, phases 1 and 2 are the transactions, *)
(* phase 3 is the handler of /auth/session and /auth/activity.             *)
(***************************************************************************)
EXTENDS Session

\* revoked_at IS NULL AND expires_at > now, where now is the time the request goes by.
Live(age) == ~row.revoked /\ row.life - age < Absolute

Expiring == row.access >= TokenLife
NeedsRefresh == Expiring \/ row.check >= CheckEvery

-----------------------------------------------------------------------------
(* The verdict on the central session *)

\* Only State looks into the cache; an entry serves for less than CacheTTL.
Hit(r) == cache < CacheTTL /\ ~(req[r].phase = 3 /\ req[r].kind = "activity")

\* Mutant of ReadCentral: a hit renews the entry.
ReadCentralSliding(r) ==
  /\ req[r].step = "state"
  /\ IF Hit(r)
       THEN To(r, "ok") /\ cache' = 0
       ELSE To(r, "asked") /\ UNCHANGED cache
  /\ UNCHANGED <<mix, row, lock, platform, replay, acked>>

\* The cached verdict, a call for a new one, or the refusal to ask.
ReadCentral(r) ==
  /\ req[r].step = "state"
  /\ IF Hit(r)
       THEN To(r, "ok")
       ELSE To(r, "asked")
  /\ UNCHANGED <<mix, row, lock, platform, cache, replay, acked>>

\* The platform answers; the answer is under way for up to StateTimeout.
State(r) ==
  /\ req[r].step = "asked"
  /\ Becomes(r, [req[r] EXCEPT !.step = "answer", !.alive = platform.alive])
  /\ UNCHANGED <<mix, row, lock, platform, cache, replay, acked>>

\* A good answer is cached from now on, a bad one drops what is cached; Activity does neither.
Cached(r) ==
  CASE req[r].phase = 3 /\ req[r].kind = "activity" -> cache
    [] req[r].alive -> 0
    [] OTHER -> NoEntry

\* An answer that is bad, or of another session, user or application, is inactive.
Verdict(q) == IF q.alive THEN "ok" ELSE "inactive"

StateAnswered(r) ==
  /\ req[r].step = "answer"
  /\ cache' = Cached(r)
  /\ To(r, Verdict(req[r]))
  /\ UNCHANGED <<mix, row, lock, platform, replay, acked>>

\* What a bad verdict does: only Authenticate and its transactions revoke the session.
Inactive(r) ==
  /\ req[r].step = "inactive"
  /\ req[r].phase = 0 => lock = NoOne
  /\ row' = IF req[r].phase = 3 THEN row ELSE [row EXCEPT !.revoked = TRUE]
  /\ Becomes(r, Refused(req[r])) /\ Rollback(r)
  /\ UNCHANGED <<mix, platform, cache, acked>>

-----------------------------------------------------------------------------
(* Authenticate *)

AuthenticateCentral(r, kind) ==
  /\ Central /\ kind \in Guarded \cap mix
  /\ req[r].step = "free"
  /\ Becomes(r, LET q == Arriving(kind)
                IN  IF Live(0) THEN [q EXCEPT !.step = "state", !.rights = row.rights,
                                              !.due = NeedsRefresh]
                    ELSE Refused(q))
  /\ UNCHANGED <<mix, row, lock, platform, cache, replay, acked>>

\* The session as it was read is good, or is to be refreshed.
Verified(r) ==
  /\ req[r].step = "ok" /\ req[r].phase = 0
  /\ Becomes(r, IF req[r].due THEN [req[r] EXCEPT !.step = "lock", !.phase = 1, !.due = FALSE]
                ELSE Principal(req[r], req[r].rights))
  /\ UNCHANGED <<mix, row, lock, platform, cache, replay, acked>>

\* Mutant of Unlocked: the row is read without FOR UPDATE.
AnyLock == TRUE

\* SELECT ... FOR UPDATE waits for the other transactions on the row.
Unlocked == lock = NoOne

\* The row is read again under its lock.  Without its client only the rotation goes on.
Lock(r) ==
  /\ req[r].step = "lock" /\ Unlocked
  /\ IF Live(req[r].age) /\ (req[r].gone => req[r].phase = 1)
       THEN lock' = r /\ To(r, "state")
       ELSE Becomes(r, Refused(req[r])) /\ UNCHANGED lock
  /\ UNCHANGED <<mix, row, platform, cache, replay, acked>>

\* Another request may have refreshed the session in the meantime.
Locked(r) ==
  /\ req[r].step = "ok" /\ req[r].phase \in {1, 2}
  /\ CASE ~NeedsRefresh /\ req[r].phase = 2 -> Becomes(r, Principal(req[r], row.rights))
       [] NeedsRefresh /\ req[r].phase = 2 -> To(r, "fetch")
       [] Expiring /\ req[r].phase = 1 -> To(r, "present")
       [] OTHER -> Becomes(r, [req[r] EXCEPT !.step = "lock", !.phase = 2])
  /\ lock' = IF req'[r].step \in {"fetch", "present"} THEN lock ELSE NoOne
  /\ UNCHANGED <<mix, row, platform, cache, replay, acked>>

\* The platform takes a refresh token once and hands out the next one; a token it has
\* taken before, or of an ended session, is invalid_grant and revokes the session.
PresentRefreshToken(r) ==
  /\ req[r].step = "present"
  /\ IF platform.alive /\ row.refresh = platform.refresh
       THEN /\ platform' = [platform EXCEPT !.refresh = @ + 1]
            /\ To(r, "rotated")
            /\ UNCHANGED <<row, lock>>
       ELSE /\ platform' = [platform EXCEPT !.reused = @ \/ row.refresh # platform.refresh]
            /\ row' = [row EXCEPT !.revoked = TRUE]
            /\ lock' = NoOne
            /\ Becomes(r, Refused(req[r]))
  /\ UNCHANGED <<mix, cache, replay, acked>>

\* Mutant of RotationCancelled: the rotation uses the context of its request.
CancelledWithRequest(r) == req[r].gone

\* The context of the rotation outlives its request (WithoutCancel).
RotationCancelled(r) == FALSE

\* The tokens are stored, and the rights are due for a check whatever their age.
CommitRotation(r) ==
  /\ req[r].step = "rotated"
  /\ lock' = NoOne
  /\ IF RotationCancelled(r)
       THEN Becomes(r, Refused(req[r])) /\ UNCHANGED row
       ELSE /\ row' = [row EXCEPT !.refresh = platform.refresh, !.access = 0,
                                  !.check = CheckEvery + 1]
            /\ Becomes(r, [req[r] EXCEPT !.step = "lock", !.phase = 2])
  /\ UNCHANGED <<mix, platform, cache, replay, acked>>

\* Fault: the answer with the tokens, or the commit that stores them, does not come
\* within the 15 s of the rotation.
LoseRotation(r) ==
  /\ req[r].step = "rotated"
  /\ platform' = [platform EXCEPT !.lost = TRUE]
  /\ Becomes(r, Refused(req[r])) /\ Rollback(r)
  /\ UNCHANGED <<mix, row, cache, acked>>

\* The user leaves the page while the request rotates the tokens; at other times a
\* request whose client leaves fails.
Leaves(r) ==
  /\ req[r].phase = 1 /\ ~req[r].gone
  /\ req' = [req EXCEPT ![r].gone = TRUE]
  /\ UNCHANGED <<mix, row, lock, platform, cache, replay, acked>>

\* 401 or 403 of the platform's authorization context revokes the session.
Denied(r) ==
  /\ Central /\ req[r].step = "fetch" /\ ~platform.rights
  /\ row' = [row EXCEPT !.revoked = TRUE]
  /\ Becomes(r, Refused(req[r])) /\ Rollback(r)
  /\ UNCHANGED <<mix, platform, cache, acked>>

-----------------------------------------------------------------------------
(* The handler of /auth/session and /auth/activity *)

Lifecycle(r) ==
  /\ Central /\ req[r].kind \in {"session", "activity"} /\ req[r].step = "handler"
  /\ Becomes(r, IF Live(0) THEN [req[r] EXCEPT !.step = "state", !.phase = 3]
                ELSE Refused(req[r]))
  /\ UNCHANGED <<mix, row, lock, platform, cache, replay, acked>>

LifecycleAnswered(r) ==
  /\ req[r].step = "ok" /\ req[r].phase = 3
  /\ Becomes(r, Served(req[r]))
  /\ UNCHANGED <<mix, row, lock, platform, cache, replay, acked>>
=============================================================================
