---------------------- MODULE MCProtectedServiceAccounts ----------------------
(* Instance of ProtectedServiceAccounts for TLC. *)
EXTENDS ProtectedServiceAccounts

\* Two forwarders may share an account or have one each.
TwoForwarders == {"f1", "f2"}
TwoAccounts == {"a1", "a2"}
=============================================================================
