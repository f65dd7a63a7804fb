----------------------------- MODULE EmbedBridge -----------------------------
(***************************************************************************)
(* The embed bridge (internal/embedbridge): one token of da_embed_tokens.  *)
(* An authenticated request issues it; the dashboard's frame, which has    *)
(* no cookie, opens it once and then loads resources with it.              *)
(***************************************************************************)
EXTENDS RequiredAudit

CONSTANT TokenTTL  \* tokenTTL

VARIABLES token,  \* the row: none, fresh or consumed, its age; who has it and its event
          opened  \* how often the dashboard was opened with it

embedVars == <<token, opened>>

ASSUME EmbedAssumption == TokenTTL \in Nat \ {0}

Token == [state : {"none", "fresh", "consumed"}, age : 0..(TokenTTL + 1),
          known : BOOLEAN, audited : BOOLEAN]

EmbedInit ==
  /\ token = [state |-> "none", age |-> 0, known |-> FALSE, audited |-> FALSE]
  /\ opened = 0

\* The principal has the dashboard's permission and a scope; a licence may still say no.
MayOpen(q) == q.rights

Issue(r) ==
  /\ req[r].kind = "issue" /\ Reaches(r)
  /\ token.state = "none"
  /\ Handled(r, req[r])
  /\ token' = IF MayOpen(req[r])
                THEN [token EXCEPT !.state = "fresh", !.known = ~Buffered("issue")]
                ELSE token
  /\ UNCHANGED <<mix, row, lock, platform, cache, replay, acked, opened>>

\* AuditWrites has the platform's answer: the buffer is sent or thrown away.
Report(r) ==
  /\ \E accepted \in BOOLEAN :
       /\ Reported(r, accepted)
       /\ token' = IF ~MayOpen(req[r]) THEN token
                   ELSE [token EXCEPT !.audited = accepted,
                                      !.known = @ \/ req'[r].step = "served"]
  /\ UNCHANGED <<mix, row, lock, platform, cache, replay, acked, opened>>

\* The record: expired, or consumed already, is as good as unknown.
EmbedRecord(consume) ==
  /\ token.state # "none" /\ token.age <= TokenTTL
  /\ consume => token.state = "fresh"

Proxy(r) ==
  /\ "open" \in mix /\ req[r].step = "free"
  /\ Becomes(r, LET q == [NoRequest EXCEPT !.kind = "open"]
                IN  IF token.known /\ EmbedRecord(TRUE) THEN [q EXCEPT !.step = "consume"] ELSE Refused(q))
  /\ UNCHANGED <<mix, row, lock, platform, cache, replay, acked, embedVars>>

\* Mutant of Consumes: the update does not look at consumed_at.
ConsumesAny == token.age < TokenTTL

\* consumed_at IS NULL AND expires_at > now: of those that read the record one is let in.
Consumes == token.state = "fresh" /\ token.age < TokenTTL

\* What fails after this, the address that cannot be signed for one, has used up the token.
ConsumeToken(r) ==
  /\ req[r].step = "consume"
  /\ IF Consumes
       THEN /\ token' = [token EXCEPT !.state = "consumed"]
            /\ \/ opened' = opened + 1 /\ Becomes(r, Served(req[r]))
               \/ Becomes(r, Refused(req[r])) /\ UNCHANGED opened
       ELSE /\ Becomes(r, Refused(req[r]))
            /\ UNCHANGED embedVars
  /\ UNCHANGED <<mix, row, lock, platform, cache, replay, acked>>

ProxyResource(r) ==
  /\ "resource" \in mix /\ req[r].step = "free"
  /\ Becomes(r, LET q == [NoRequest EXCEPT !.kind = "resource"]
                IN  IF EmbedRecord(FALSE) /\ token.state = "consumed" THEN Served(q)
                    ELSE Refused(q))
  /\ UNCHANGED <<mix, row, lock, platform, cache, replay, acked, embedVars>>

TokenAges ==
  token' = [token EXCEPT !.age = IF token.state = "none" THEN 0 ELSE AtMost(@ + 1, TokenTTL + 1)]
=============================================================================
