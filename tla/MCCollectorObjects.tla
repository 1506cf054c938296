--------------------------- MODULE MCCollectorObjects ---------------------------
(***************************************************************************)
(* Specs of every output type and authentication, of receivers and network  *)
(* rules, and edits from one to another.                                    *)
(***************************************************************************)
EXTENDS CollectorObjects

URL(scheme, port) == [scheme |-> scheme, port |-> port]
Key(name) == {Ref("secret", name, "key")}
SATok == [from |-> "serviceAccount", secret |-> {}]
SecTok(name) == [from |-> "secret", secret |-> {Ref("secret", name, "token")}]
Auth(user, token) == {[username |-> user, password |-> user, token |-> token]}
AWS(type, keys, roles, assume) == [type |-> type, awsAccessKey |-> keys, iamRole |-> roles, assumeRole |-> assume]
Role(token) == {[roleARN |-> Ref("secret", <<"role">>, "role"), token |-> token]}
TLS(ca, key, insecure) == {[ca |-> ca, certificate |-> key, key |-> key, passphrase |-> key, insecure |-> insecure]}

Server(auth, url) == [authentication |-> auth, url |-> {url}, proxy |-> {}, endpoints |-> {}, brokers |-> {},
                      topic |-> {}, deliveryMode |-> ""]
Cloud(auth) == [Server(auth, URL("https", NoPort)) EXCEPT !.url = {}]
Out(type, tls, s) == [name |-> type, type |-> type, tls |-> tls, spec |-> {s}]
For(output, inputs, refs, rules) ==
  [inputs |-> inputs, outputs |-> {output}, inputRefs |-> refs, ruleSet |-> rules, asDeployment |-> FALSE,
   breakdowns |-> {}]
Restrict == {"RestrictIngressEgress"}
AllowAll == {"AllowAllIngressEgress"}
App(output) == For(output, {}, {"application"}, {})
Safe(output) == For(output, {}, {"infrastructure"}, Restrict)
Receiver(name, type, port, tls) ==
  [name |-> name, type |-> "receiver", sources |-> {}, receiver |-> {[type |-> type, port |-> port, tls |-> tls]}]
ReceiverTLSOf(name) == {[ca |-> {Ref("configmap", name, "ca")}, certificate |-> Key(name), key |-> Key(name),
                         passphrase |-> Key(name)]}

HTTPBy(auth, url) == Out("http", {}, Server(auth, url))
Web == URL("https", NoPort)
KafkaWith(auth) ==
  Out("kafka", TLS({Ref("configmap", <<"ca", ".", "pem">>, "ca")}, Key(<<"k">>), FALSE),
      [Server(auth, URL("tls", 9093)) EXCEPT !.brokers = {URL("tls", 9094)}, !.deliveryMode = "AtLeastOnce"])
Sasl == {[sasl |-> {[username |-> Key(<<"k">>), password |-> Key(<<"k">>)]}]}
SyslogTo(url) == Out("syslog", TLS({}, Key(<<"k">>), FALSE), Server({}, url))
GCL(token) == Out("googleCloudLogging", {}, Cloud({[credentials |-> Key(<<"gcp">>), token |-> token]}))
Azure(type, secret, identity) ==
  Out("azureLogsIngestion", {}, Server([type |-> type, clientSecret |-> secret, workloadIdentity |-> identity], Web))
CW(auth) == Out("cloudwatch", {}, Cloud(auth))
Stack(model, token) ==
  Out("lokiStack", TLS({Ref("configmap", <<"ca">>, "ca")}, {}, FALSE),
      [dataModel |-> model, deliveryMode |-> "AtMostOnce", authentication |-> {[token |-> {token}]}])

Outputs ==
  {App(HTTPBy(Auth({}, {SecTok(<<"a", ".", "b">>)}), Web)), App(HTTPBy(Auth({}, {SATok}), Web)),
   App(Out("elasticsearch", TLS({Ref("configmap", <<"ca", ".", "pem">>, "ca")}, {}, TRUE),
           [Server(Auth(Key(<<"es">>), {}), Web) EXCEPT !.endpoints = {URL("http", 9200)}])),
   Safe(Out("elasticsearch", {}, [Server(Auth(Key(<<"es">>), {SATok}), Web) EXCEPT !.endpoints = {URL("http", 9200)}])),
   Safe(Out("loki", {}, [Server(Auth({}, {SATok}), Web) EXCEPT !.proxy = {URL("http", 3128)}])),
   Safe(KafkaWith(Sasl)), App(KafkaWith({[sasl |-> {}]})),
   Safe(CW(AWS("iamRole", {}, Role(SATok), Key(<<"assume">>)))),
   App(CW(AWS("awsAccessKey", {[keyId |-> Ref("secret", <<"aws">>, "id"), keySecret |-> Ref("secret", <<"aws">>, "key")]},
              {}, {}))),
   App(Out("s3", {}, Cloud(AWS("iamRole", {}, Role(SecTok(<<"role">>)), {})))),
   Safe(GCL({SATok})), App(GCL({})), App(GCL({SecTok(<<"gcp">>)})),
   App(Azure("clientSecret", Key(<<"az">>), {})), Safe(Azure("workloadIdentity", {}, {SATok})),
   App(Azure("workloadIdentity", {}, {SecTok(<<"az">>)})),
   Safe(Out("azureMonitor", {}, Cloud([sharedKey |-> Key(<<"az">>)]))),
   Safe(Out("splunk", {}, Server({[token |-> Key(<<"hec">>)]}, URL("http", 8088)))),
   Safe(SyslogTo(URL("udp", 514))),
   Safe(Out("otlp", TLS({}, Key(<<"k">>), FALSE), Server(Auth({}, {SATok}), URL("http", 4318)))),
   Safe(Stack("Viaq", SATok)), App(Stack("Otel", SecTok(<<"st">>))),
   Safe(HTTPBy({}, URL("tcp", NoPort))), Safe(HTTPBy({}, URL("https", 0))), Safe(SyslogTo(URL("tls", 70000))),
   App(Out("syslog", {}, Server({}, URL("unparsable", 514)))),
   [App(Stack("Otel", SATok)) EXCEPT !.breakdowns = {"noSources"}],
   Safe(Out("kafka", {}, [Server({}, URL("tls", Overflow)) EXCEPT !.topic = {"topic"}]))}

\* Two Secrets whose volumes have one name.
Clash == App(HTTPBy(Auth(Key(<<"a", "b">>), {SecTok(<<"a", ".", "b">>)}), Web))

Receivers(inputs, rules, asDeployment) ==
  [For(SyslogTo(URL("tls", 6514)), inputs, {}, rules) EXCEPT !.asDeployment = asDeployment]

\* Specs, the last of which may not be admitted.
Edits ==
  {<<Receivers({Receiver("r1", "http", 8443, {}), Input("aud", "audit", {"ovn", "kubeAPI"})}, Restrict, FALSE),
     Receivers({Receiver("r1", "syslog", 8444, ReceiverTLSOf(<<"r">>))}, Restrict, TRUE)>>,
   <<Receivers({Receiver("r1", "http", 8443, {}), Receiver("r2", "syslog", 8444, {})}, AllowAll, FALSE),
     Receivers({Receiver("r2", "syslog", 9444, {})}, {}, TRUE)>>,
   <<Receivers({Receiver("r1", "http", 8443, {})}, {}, FALSE),
     Receivers({[Receiver("r1", "http", 8443, {}) EXCEPT !.receiver = {}]}, {}, FALSE)>>,
   <<App(Stack("Viaq", SATok)), Clash>>,
   <<Receivers({Receiver("r1", "http", 8443, {})}, Restrict, FALSE),
     Receivers({Receiver("r1", "http", 8443, {}), [Receiver("r2", "syslog", 8444, {}) EXCEPT !.type = "application"]},
               Restrict, FALSE)>>,
   <<Safe(SyslogTo(URL("tcp", 601))), Safe(SyslogTo(URL("tcp", 0)))>>,
   <<Safe(SyslogTo(URL("udp", 514))), Safe(SyslogTo(URL("unparsable", 514)))>>,
   <<Safe(KafkaWith({})), App(CW(AWS("iamRole", {}, {}, {})))>>,
   <<App(HTTPBy({}, Web)), App(HTTPBy(Auth({}, {[from |-> "secret", secret |-> {}]}), Web))>>}

AllHistories == {<<s>> : s \in Outputs} \cup Edits

\* Roles and Google credentials are looked into, other objects are not.
ContentsOf(n) ==
  IF n \in {<<"role">>, <<"assume">>, <<"gcp">>} THEN {"v2", "bare", "odd", "plus"} ELSE {"v2", "bare"}

Forwarder == <<"clf">>
Account == <<"logcollector">>
Proxies == {URL("http", 3129)}
=============================================================================
