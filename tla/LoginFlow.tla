------------------------------ MODULE LoginFlow ------------------------------
(***************************************************************************)
(* One login of internal/oidc: its row in da_oidc_login_transactions, and  *)
(* the callbacks that come with its state.  The browser, or whoever has    *)
(* the address, may send a callback more than once and at the same time.   *)
(***************************************************************************)
EXTENDS Session

CONSTANT LoginTTL  \* the 10 minutes of SaveLoginTransaction

VARIABLES login,   \* the row: whether it is there, its ticket and its age
          created  \* sessions created by the login

loginVars == <<login, created>>

ASSUME LoginAssumption == LoginTTL \in Nat \ {0}

Login == [there : BOOLEAN, ticket : BOOLEAN, age : 0..(LoginTTL + 1)]

NewLogin == [there |-> TRUE, ticket |-> FALSE, age |-> 0]

\* Login has stored the row and sent the browser to the platform.
LoginInit ==
  /\ login = NewLogin
  /\ created = 0

Gone == [there |-> FALSE, ticket |-> FALSE, age |-> 0]

\* The platform's ticket is written once, into a login that is not over.
AttachSessionLink ==
  /\ Central /\ "attach" \in mix
  /\ login.there /\ ~login.ticket /\ login.age < LoginTTL
  /\ login' = [login EXCEPT !.ticket = TRUE]
  /\ UNCHANGED <<sessionVars, created>>

\* A callback reads the row ...
ReadLogin(r) ==
  /\ ~Central /\ "callback" \in mix /\ req[r].step = "free"
  /\ Becomes(r, LET q == [NoRequest EXCEPT !.kind = "callback"]
                IN  IF login.there /\ login.age <= LoginTTL THEN [q EXCEPT !.step = "delete"]
                    ELSE Refused(q))
  /\ UNCHANGED <<mix, row, lock, platform, cache, replay, acked, loginVars>>

\* Mutant of Deletes: RowsAffected is not looked at.
DeletesAny == TRUE

\* ... and deletes it: of those that read it one deletes it.
Deletes == login.there

DeleteLogin(r) ==
  /\ req[r].step = "delete"
  /\ To(r, IF Deletes THEN "exchange" ELSE "refused")
  /\ login' = Gone
  /\ UNCHANGED <<mix, row, lock, platform, cache, replay, acked, created>>

\* With a central session service both happen in one transaction that locks the row.
ConsumeCentralLogin(r) ==
  /\ Central /\ "callback" \in mix /\ req[r].step = "free"
  /\ LET q == [NoRequest EXCEPT !.kind = "callback"]
     IN  IF login.there /\ login.ticket /\ login.age < LoginTTL
           THEN login' = Gone /\ Becomes(r, [q EXCEPT !.step = "exchange"])
           ELSE Becomes(r, Refused(q)) /\ UNCHANGED login
  /\ UNCHANGED <<mix, row, lock, platform, cache, replay, acked, created>>

\* Code, ticket and profile have been exchanged and the rights fetched.  They may be taken
\* before the session is created with them, see NewPlatform.
Exchange(r) ==
  /\ req[r].step = "exchange"
  /\ Becomes(r, [req[r] EXCEPT !.step = "insert", !.call = 0, !.rights = platform.rights])
  /\ UNCHANGED <<mix, row, lock, platform, cache, replay, acked, loginVars>>

\* The session is inserted with the rights as they were fetched.
CreateSession(r) ==
  /\ req[r].step = "insert"
  /\ created' = created + 1
  /\ Becomes(r, Served(req[r]))
  /\ UNCHANGED <<mix, row, lock, platform, cache, replay, acked, login>>

LoginAges == login' = [login EXCEPT !.age = IF login.there THEN AtMost(@ + 1, LoginTTL + 1) ELSE 0]
=============================================================================
