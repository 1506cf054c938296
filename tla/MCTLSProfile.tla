---------------------------- MODULE MCTLSProfile ----------------------------
(* Instance of TLSProfile for TLC. *)
EXTENDS TLSProfile

\* No profile, one that means the same, a named and a custom one.
SomeProfiles == {Nil, "Intermediate", "CustomNil", "Modern", "Custom"}
=============================================================================
