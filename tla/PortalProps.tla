----------------------------- MODULE PortalProps -----------------------------
(* What must be true of Portal. *)
EXTENDS Portal

\* Every variable has its type.
TypeOK ==
  /\ mix \in Mixes /\ row \in Row /\ platform \in Platform
  /\ lock \in Requests \cup {NoOne} /\ replay \in Requests \cup {NoOne, "kept"}
  /\ req \in [Requests -> Request]
  /\ cache \in 0..NoEntry /\ acked \in BOOLEAN
  /\ login \in Login /\ created \in Nat
  /\ token \in Token /\ opened \in Nat

\* A session that is revoked is never in use again, whatever a request that read it
\* before still writes (service.go:512-519, session_governance.go:136).
RevokedForGood == [][row.revoked => row'.revoked]_vars

\* Once the platform has its 200 the session is revoked, also if earlier deliveries of the
\* same logout failed half way or ran at the same time (backchannel_logout.go:57-89).
AcknowledgedLogoutHolds == acked => row.revoked

\* A request that comes more than CheckEvery after the platform took the user's rights, and
\* after the session was created, is not served with them, whoever fetched which answer when
\* (service.go:495-512).  A login fetches the rights before the time that its session counts
\* their check from (service.go:318, :333, :355): what is taken in between is noticed by the
\* first check of the session, not within CheckEvery of being taken.
WithdrawnRightsGo ==
  \A r \in Requests : req[r].step = "served" /\ req[r].rights => "rights" \notin req[r].late

\* A request that comes StateTimeout + CacheTTL after the central session ended is not
\* served, neither from a cached verdict nor from one that was long under way
\* (client.go:131-152, 207-220).
EndedSessionIsNoticed ==
  \A r \in Requests : req[r].step = "served" => "ended" \notin req[r].late

\* No refresh token is presented twice, which would end the session, unless the tokens of
\* a rotation were lost on the way to the database: requests that refresh at the same
\* time and users that leave the page lose none (session_rotation.go:25, rotation.go:11).
RefreshTokenSpentOnce == platform.reused => platform.lost

\* However many callbacks come with the state of a login, it creates one session
\* (service.go:644-653, session_governance_http.go:16-31).
OneSessionPerLogin == created <= 1

\* An embed token opens its dashboard once, however many requests read it before one of
\* them has consumed it (embed.go:268-291).
EmbedOpensOnce == opened <= 1

\* Where the audit is required no dashboard is opened with a token whose issue the platform
\* has no event of: the token does not leave before (audit.go:71-107, AUD-2026-006).
DashboardsAreAudited == "AuditRequired" \in mix /\ opened > 0 => token.audited
=============================================================================
