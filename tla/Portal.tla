-------------------------------- MODULE Portal --------------------------------
(***************************************************************************)
(* The routes of internal/bootstrap/app.go that have to do with sessions:  *)
(* one user's session, one login and one embed token, the requests they    *)
(* get in every order, and the platform.  What happens in one behaviour is *)
(* a member of Mixes.                                                      *)
(***************************************************************************)
EXTENDS CentralSession, LoginFlow, EmbedBridge

vars == <<sessionVars, loginVars, embedVars>>

Init == SessionInit /\ LoginInit /\ EmbedInit

SessionNext ==
  \/ Logout \/ Withdraw \/ End
  \/ \E r \in Requests :
       \/ \E kind \in Guarded : Authenticate(r, kind) \/ AuthenticateCentral(r, kind)
       \/ ResolveAuthorizationContext(r) \/ PersistAuthorization(r)
       \/ ReadActivity(r) \/ TouchActivity(r)
       \/ BackchannelLogout(r) \/ CommitLogout(r)
       \/ AuditUnavailable(r) \/ Fails(r) \/ Respond(r)

CentralNext ==
  \E r \in Requests :
    \/ ReadCentral(r) \/ State(r) \/ StateAnswered(r) \/ Inactive(r)
    \/ Verified(r) \/ Lock(r) \/ Locked(r)
    \/ PresentRefreshToken(r) \/ CommitRotation(r) \/ LoseRotation(r) \/ Leaves(r)
    \/ Denied(r) \/ Lifecycle(r) \/ LifecycleAnswered(r)

LoginNext ==
  AttachSessionLink \/ \E r \in Requests :
    \/ ReadLogin(r) \/ DeleteLogin(r)
    \/ ConsumeCentralLogin(r) \/ Exchange(r) \/ CreateSession(r)

EmbedNext ==
  \E r \in Requests :
    Issue(r) \/ Report(r) \/ Proxy(r) \/ ConsumeToken(r) \/ ProxyResource(r)

Next ==
  \/ (SessionNext \/ CentralNext) /\ UNCHANGED <<loginVars, embedVars>>
  \/ LoginNext /\ UNCHANGED embedVars
  \/ EmbedNext /\ UNCHANGED loginVars
  \/ Tick /\ LoginAges /\ TokenAges /\ UNCHANGED <<created, opened>>

Spec == Init /\ [][Next]_vars
=============================================================================
