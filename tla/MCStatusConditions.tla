------------------------- MODULE MCStatusConditions -------------------------
(* Instances of StatusConditions for TLC. *)
EXTENDS StatusConditions

Plain == [name |-> "p1", inputs |-> {"application"}, outputs |-> {"o1"},
          filters |-> {}]
Filtered == [name |-> "p2", inputs |-> {"in"}, outputs |-> {"o2"},
             filters |-> {"f1"}]

Fine == [sound |-> TRUE, gcl |-> FALSE]
Basic ==
  [managed |-> TRUE, inputs |-> [n \in {} |-> [sound |-> TRUE]],
   outputs |-> [n \in {"o1"} |-> Fine],
   filters |-> [n \in {} |-> [sound |-> TRUE, prunesHostName |-> FALSE]],
   pipelines |-> <<Plain>>]
TwoPipelines ==
  [Basic EXCEPT !.inputs = [n \in {"in", "application"} |-> [sound |-> n = "in"]],
                !.outputs = [n \in {"o1", "o2"} |-> [sound |-> TRUE, gcl |-> n = "o2"]],
                !.filters = [n \in {"f1"} |-> [sound |-> TRUE, prunesHostName |-> FALSE]],
                !.pipelines = <<Plain, Filtered>>]

\* A plain spec and its unmanaged form, two pipelines in order, a Google Cloud
\* Logging output without .hostname, an output nothing refers to together with
\* a dangling reference in the first of two pipelines, and faults in the elements' own fields.
SomeForms ==
  {Basic, [Basic EXCEPT !.managed = FALSE], TwoPipelines,
   [TwoPipelines EXCEPT !.filters["f1"].prunesHostName = TRUE],
   [TwoPipelines EXCEPT !.pipelines = <<[Plain EXCEPT !.filters = {"gone"}],
                                         [Filtered EXCEPT !.outputs = {"o1"}]>>],
   [TwoPipelines EXCEPT !.inputs["in"].sound = FALSE,
                        !.filters["f1"].sound = FALSE]}
=============================================================================
