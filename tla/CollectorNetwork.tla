---------------------------- MODULE CollectorNetwork ----------------------------
(***************************************************************************)
(* The NetworkPolicy of the collector and the services of its receivers     *)
(* (internal/network, internal/factory, internal/collector/input_service):  *)
(* the ports that a policy admits, derived from the outputs, the inputs and *)
(* the proxies of the operator's own environment.                           *)
(***************************************************************************)
EXTENDS ForwarderSpecs

CONSTANT ProxyURLs       \* HTTP_PROXY and HTTPS_PROXY of the operator

MetricsPort == 24231
KubeAPIPort == 6443

Port(protocol, port) == [protocol |-> protocol, port |-> port]
defaultHTTPSTCPPort == Port("TCP", 443)

-----------------------------------------------------------------------------
(* Ports of URLs *)

\* An int32 above 0; the API server, not the parser, refuses those above MaxPort.
parsePortString(u) == u.port > 0

\* Only http and https have a default port, and only what parses has a port: the
\* rest panics.
Portless(u) == u.scheme = "unparsable" \/ (~parsePortString(u) /\ u.scheme \notin {"http", "https"})

parsePortProtocolFromURL(u) ==
  Port(IF u.scheme = "udp" THEN "UDP" ELSE "TCP",
       IF parsePortString(u) THEN u.port ELSE IF u.scheme = "http" THEN 80 ELSE 443)

getKafkaAndBrokerURLs(s) == s.url \cup s.brokers

\* The URLs that are parsed for an output.
OutputURLs(o) ==
  LET s == The(o.spec)
  IN  CASE o.type = "elasticsearch"       -> s.url \cup s.endpoints
        [] o.type \in {"http", "loki"}    -> s.url \cup s.proxy
        [] o.type = "kafka"               -> getKafkaAndBrokerURLs(s)
        [] o.type \in {"splunk", "syslog", "otlp", "azureLogsIngestion", "cloudwatch", "s3"} -> s.url
        [] OTHER                          -> {}

\* Ports of outputs whose URL is implied.
ImpliedPorts(o) ==
  IF o.type = "lokiStack" THEN {Port("TCP", 8080)}
  ELSE IF \/ o.type \in {"googleCloudLogging", "azureMonitor"}
          \/ o.type \in {"cloudwatch", "s3"} /\ The(o.spec).url = {}
       THEN {defaultHTTPSTCPPort}
       ELSE {}

getPortProtocolFromOutputURLs(o) == ImpliedPorts(o) \cup {parsePortProtocolFromURL(u) : u \in OutputURLs(o)}

GetOutputPortsWithProtocols(outputs) == UNION {getPortProtocolFromOutputURLs(o) : o \in outputs}

GetProxyPorts == {parsePortProtocolFromURL(u) : u \in ProxyURLs}

GetInputPorts(inputs) == UNION {{r.port : r \in i.receiver} : i \in {x \in inputs : x.type = "receiver"}}

-----------------------------------------------------------------------------
(* The policy *)

\* DNS is a named port, and egress to it is always admitted.
Policy(all, ingress, egress) == [all |-> all, ingress |-> ingress, egress |-> egress]
AllowAllIngressEgress == Policy(TRUE, {}, {})

RestrictIngressEgress(ingress, egress) ==
  Policy(FALSE, {MetricsPort} \cup ingress, {Port("TCP", KubeAPIPort)} \cup egress)

DetermineEgressPortProtocols(outputs) == GetOutputPortsWithProtocols(outputs) \cup GetProxyPorts

NewNetworkPolicy(s) ==
  IF s.ruleSet = {"RestrictIngressEgress"}
  THEN RestrictIngressEgress(GetInputPorts(s.inputs), DetermineEgressPortProtocols(s.outputs))
  ELSE AllowAllIngressEgress

\* The URLs that are parsed for a policy, of outputs and of proxies, and make it panic.
PortlessURLs(s) ==
  IF s.ruleSet = {"RestrictIngressEgress"}
  THEN {u \in ProxyURLs \cup UNION {OutputURLs(o) : o \in s.outputs} : Portless(u)} ELSE {}

\* The API server refuses a policy with a port that is none.
AdmittedPolicy(policy) == \A p \in policy.egress : p.port <= MaxPort

Admits(policy, p) == policy.all \/ p \in policy.egress
AdmitsFrom(policy, port) == policy.all \/ port \in policy.ingress

-----------------------------------------------------------------------------
(* Services of receivers *)

InputService(name, type, port) == [name |-> name, type |-> type, port |-> port]
=============================================================================
