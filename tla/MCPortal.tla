------------------------------- MODULE MCPortal -------------------------------
(* Values for the constants of Portal. *)
EXTENDS PortalProps, TLC

Symmetry == Permutations(Requests)

\* Without a central session service: rights and logouts; activity; a login; a dashboard,
\* and one whose audit is required.
LocalMixes ==
  {{"page", "Withdraw", "Logout", "Backchannel"}, {"page", "activity", "Logout"},
   {"callback", "Withdraw"}, {"issue", "open", "resource", "Withdraw"},
   {"issue", "open", "AuditRequired"}, {"issue", "AuditRequired", "NoReporter"}}

\* With it: rights; the end of the central session; tokens that run out; a login.
CentralMixes ==
  {{"Central", "page", "Withdraw", "Logout"}, {"Central", "page", "Backchannel"},
   {"Central", "page", "session", "activity", "End"},
   {"Central", "page", "Expire", "End"}, {"Central", "attach", "callback", "Withdraw"}}

AllMixes == LocalMixes \cup CentralMixes
=============================================================================
