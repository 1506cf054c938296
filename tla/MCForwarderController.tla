----------------------- MODULE MCForwarderController -----------------------
(* Instances of ForwarderController for TLC. *)
EXTENDS ForwarderController

Base == [managed |-> TRUE, annotated |-> FALSE, inputs |-> {"application"},
         wellFormed |-> TRUE, usesSecret |-> FALSE]

\* Both kinds of workload; the http receiver needs no log permission.
TwoKinds == {Base, [Base EXCEPT !.annotated = TRUE, !.inputs = {"http"}]}

\* As before, with a DaemonSet that depends on the Secret, an unmanaged
\* forwarder and one that the validators reject.
DependsOnSecret ==
  [Base EXCEPT !.usesSecret = TRUE, !.inputs = {"infraApp", "syslog"}]
Rejected ==
  [Base EXCEPT !.wellFormed = FALSE, !.annotated = TRUE,
               !.inputs = {"audit", "http"}]
Varied ==
  {DependsOnSecret, Rejected, [Base EXCEPT !.managed = FALSE],
   [Base EXCEPT !.annotated = TRUE, !.inputs = {"http"}]}

AllOrNothing == {{}, {"application", "infrastructure", "audit"}}
=============================================================================
