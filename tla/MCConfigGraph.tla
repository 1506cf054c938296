---------------------------- MODULE MCConfigGraph ----------------------------
(* Instances of ConfigGraph for TLC. *)
EXTENDS ConfigGraph

\* Names in alphabetical order.
NameOrder ==
  <<<<"aa", "otlp">>, <<"app">>, <<"audit">>, <<"drop", "debug">>, <<"first">>,
    <<"http", "in">>, <<"infra">>, <<"infra", "new">>, <<"mine">>, <<"multi">>, <<"parse">>,
    <<"second", "one">>, <<"store">>, <<"sys">>, <<"zz", "otlp">>>>

FirstNumerals == <<"0", "1", "2", "3">>

Input(type) == [type |-> type, sources |-> {}, infra |-> FALSE, tuning |-> "none"]
Output(type) == [type |-> type, limited |-> FALSE, optional |-> FALSE, otel |-> FALSE]

AllInputs ==
  <<"app">> :> Input("application")
    @@ <<"mine">> :> [Input("application") EXCEPT !.infra = TRUE, !.tuning = "limit"]
    @@ <<"infra">> :> [Input("infrastructure") EXCEPT !.tuning = "limit"]
    @@ <<"infra", "new">> :> [Input("infrastructure") EXCEPT !.tuning = "empty"]
    @@ <<"audit">> :> [Input("audit") EXCEPT !.sources = {"auditd", "kubeAPI"}]
    @@ <<"http", "in">> :> Input("http")
    @@ <<"sys">> :> Input("syslog")

AllFilters ==
  <<"drop", "debug">> :> "drop" @@ <<"multi">> :> "detectMultilineException"
    @@ <<"parse">> :> "parse"

Only(names) == [n \in names |-> AllInputs[n]]

\* Two pipelines: both lead to the output store, the second also to an HTTP
\* output called sys like one of the inputs.
Forwarding(ins1, ins2, o) ==
  [inputs |-> Only(ins1 \cup ins2), filters |-> AllFilters,
   outputs |-> <<"store">> :> o @@ <<"sys">> :> Output("http"),
   pipelines |->
     <<[name |-> <<"second", "one">>, inputs |-> ins1, outputs |-> {<<"store">>},
        filters |-> <<<<"drop", "debug">>, <<"parse">>, <<"multi">>>>],
       [name |-> <<"first">>, inputs |-> ins2, outputs |-> {<<"store">>, <<"sys">>},
        filters |-> <<<<"drop", "debug">>, <<"parse">>>>]>>]

Outputs ==
  {[Output(t) EXCEPT !.limited = b, !.optional = b] : t \in OutputTypes, b \in BOOLEAN}

OpenTelemetry == [Output("lokiStack") EXCEPT !.otel = TRUE]

\* Every type of output behind inputs of every type; LokiStack with the
\* OpenTelemetry model behind inputs other than receivers, next to an OTLP
\* output that comes before it; and the two specs that make generation panic, by
\* a tenant without log sources and by a tuning without its container part.
ManySpecs ==
  {Forwarding(ins, {<<"audit">>, <<"http", "in">>}, o) :
     ins \in {{<<"app">>, <<"infra">>}, {<<"mine">>, <<"sys">>}}, o \in Outputs}
  \cup {LET s == Forwarding({<<"app">>, <<"infra">>}, {<<"audit">>, <<"mine">>}, OpenTelemetry)
        IN  [s EXCEPT !.outputs = <<"aa", "otlp">> :> Output("otlp") @@ @,
                      !.pipelines[1].outputs = @ \cup {<<"aa", "otlp">>}]}
  \cup {Forwarding({<<"mine">>}, {<<"app">>}, OpenTelemetry),
        Forwarding({<<"app">>}, {<<"infra", "new">>}, Output("http"))}

\* An OTLP output that comes after a LokiStack with the OpenTelemetry model.
OtlpAfterLokiStack ==
  {LET s == Forwarding({<<"app">>, <<"infra">>}, {<<"audit">>}, OpenTelemetry)
   IN  [s EXCEPT !.outputs = <<"zz", "otlp">> :> Output("otlp") @@ @,
                 !.pipelines[1].outputs = @ \cup {<<"zz", "otlp">>}]}
=============================================================================
