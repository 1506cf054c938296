----------------------------- MODULE Normalization -----------------------------
(*****************************************************************************)
(* How a record gets its form: the normalization at the input, which puts    *)
(* what was read under ._internal and names its type and source there        *)
(* (internal/generator/vector/input/internal.go), and the system filter viaq,*)
(* which builds the record that is forwarded at the root of the event        *)
(* (internal/generator/vector/filter/openshift/viaq/v1).                     *)
(*                                                                           *)
(* Names and texts are strings; what the scripts recognise in them is given  *)
(* by constants.  Left out, as no property tells records apart by them: the  *)
(* host, cluster and sequence values themselves and the systemd fields other *)
(* than SYSLOG_IDENTIFIER and SYSTEMD_UNIT.                                  *)
(*****************************************************************************)
EXTENDS LogEvent, Naturals

CONSTANTS
  InfraNamespaces,  \* the namespaces default, openshift-* and kube-* match
  EventRouterPods,  \* the pod names that begin with eventrouter-
  ParsedJSON,       \* text -> at most one object, when it is JSON
  MessageTime,      \* text -> the time in it, or null
  LevelAttempts,    \* text -> what each of the five ways to find a level in it gives
  AuditdMessages,   \* the texts that auditd gave a time and a number
  SyslogLevels,     \* a priority that is an integer, or null -> its level, or null
  Dedotted          \* a label, as segments -> the label with "_" for "." and "/"

ASSUME ParsedAssumption ==
  \A text \in DOMAIN ParsedJSON :
    \A o \in ParsedJSON[text] : ParsedJSON[text] = {o} /\ \A s \in DOMAIN o : IsPath(s)

\* parse_json: the object that a text is, if it is one.
Parsed(text) == IF text \in DOMAIN ParsedJSON THEN ParsedJSON[text] ELSE {}

-----------------------------------------------------------------------------
(* Input normalization *)

ZeroTime == "0001-01-01T00:00:00Z"

setEnvelope(ev) == Put(<< >>, <<"_internal">>, ev)

setEnvelopeToStructured(ev) == Put(<< >>, <<"_internal", "structured">>, ev)

\* Faulty variant: the metadata is taken to be there.
TrustMetadata(ev) == ev

\* Vector may not have found the pod's metadata; the path of the file names the
\* namespace and the pod.
recoverMetadataFromFilePath(ev) ==
  IF Has(ev, Internal(<<"file">>)) /\ ~Has(ev, Internal(<<"kubernetes", "namespace_name">>))
  THEN Assign(Assign(ev, Internal(<<"kubernetes", "namespace_name">>),
                     ev[Internal(<<"file", "namespace">>)]),
              Internal(<<"kubernetes", "pod_name">>), ev[Internal(<<"file", "pod">>)])
  ELSE ev

logTypeContainer(ev) ==
  Assign(ev, Internal(<<"log_type">>),
         IF Value(ev, Internal(<<"kubernetes", "namespace_name">>)) \in InfraNamespaces
         THEN "infrastructure" ELSE "application")

setClusterID(ev) == Put(ev, Internal(<<"openshift">>), [s \in {<<"cluster_id">>} |-> "cluster"])

setHostName(ev) == Assign(ev, Internal(<<"hostname">>), "node")

\* The level is the first that is found, unless there is one already.
SetLogLevel(ev) ==
  LET found == SelectSeq(LevelAttempts[Value(ev, Internal(<<"message">>))],
                         LAMBDA level : level # Null)
  IN  IF Has(ev, Internal(<<"level">>)) THEN ev
      ELSE Assign(ev, Internal(<<"level">>), IF found = << >> THEN "default" ELSE found[1])

\* The records of containers, of auditd and of OVN.
NewInternalNormalization(source, type, ev) ==
  LET named(e) == Assign(e, Internal(<<"log_source">>), source)
      typed(e) == IF source = "container" THEN logTypeContainer(e)
                  ELSE Assign(e, Internal(<<"log_type">>), type)
      enveloped == IF source = "container"
                   THEN recoverMetadataFromFilePath(setEnvelope(ev)) ELSE setEnvelope(ev)
  IN  SetLogLevel(setClusterID(setHostName(typed(named(enveloped)))))

\* The first of the two timestamps that an audit event carries.
AuditTimestamp(ev, stage, received) ==
  IF Has(ev, stage) THEN Copy(ev, Internal(<<"timestamp">>), stage)
  ELSE CopyIfExists(ev, Internal(<<"timestamp">>), received)

parseStructuredAuditTimestamp(ev) ==
  AuditTimestamp(ev, Internal(<<"stageTimestamp">>), Internal(<<"requestReceivedTimestamp">>))

parseReceiverStructuredAuditTimestamp(ev) ==
  AuditTimestamp(ev, Internal(<<"structured", "stageTimestamp">>),
                 Internal(<<"structured", "requestReceivedTimestamp">>))

\* ._internal becomes the line's object, with the object under structured too.
parseStructured(ev, object) ==
  Put(ev, <<"_internal">>,
      Merge(Object(Put(ev, Internal(<<"structured">>), object), <<"_internal">>), object))

AuditNamed(source, ev) ==
  setClusterID(setHostName(Assign(Assign(ev, Internal(<<"log_source">>), source),
                            Internal(<<"log_type">>), "audit")))

\* The lines of the API servers' audit logs; a line that is not JSON fails the
\* script.
NewAuditInternalNormalization(source, ev) ==
  LET json == Parsed(Value(ev, <<"message">>))
  IN  IF json = {} THEN OnError(ev)
      ELSE AuditNamed(source, parseStructuredAuditTimestamp(
                                parseStructured(setEnvelope(ev), CHOOSE o \in json : TRUE)))

\* An item that an HTTP receiver was sent.
NewHttpNormalization(ev) ==
  parseReceiverStructuredAuditTimestamp(AuditNamed("kubeAPI", setEnvelopeToStructured(ev)))

\* The priorities that to_int! reads, and the one that is looked at before it.
Priorities == DOMAIN SyslogLevels \cup {"8"}

\* An integer that stands for no level is kept.
FixJournalLogLevel(ev) ==
  LET priority == Value(ev, Internal(<<"PRIORITY">>))
      level(name) == Assign(ev, Internal(<<"level">>), name)
  IN  CASE priority = "8" -> level("trace")
        [] priority # "8" /\ SyslogLevels[priority] = Null -> level("unknown")
        [] OTHER -> Del(level(SyslogLevels[priority]), Internal(<<"PRIORITY">>))

SetJournalMessage(ev) ==
  MoveIfExists(ev, Internal(<<"message">>), Internal(<<"MESSAGE">>))

SystemT(ev) ==
  MoveIfExists(ev, Internal(<<"systemd", "t", "SYSTEMD_UNIT">>), Internal(<<"_SYSTEMD_UNIT">>))

SystemU(ev) ==
  MoveIfExists(ev, Internal(<<"systemd", "u", "SYSLOG_IDENTIFIER">>),
               Internal(<<"SYSLOG_IDENTIFIER">>))

\* A priority that is no integer fails the script.
NewJournalInternalNormalization(ev) ==
  LET typed == setClusterID(Assign(Assign(setEnvelope(ev), Internal(<<"log_source">>), "node"),
                             Internal(<<"log_type">>), "infrastructure"))
  IN  IF Value(ev, <<"PRIORITY">>) \notin Priorities THEN OnError(ev)
      ELSE SystemU(SystemT(SetJournalMessage(FixJournalLogLevel(typed))))

\* What a syslog receiver was sent.
NewReceiverInternalNormalization(ev) ==
  LET typed == Assign(Assign(setEnvelopeToStructured(ev), Internal(<<"log_source">>), "syslog"),
                      Internal(<<"log_type">>), "receiver")
  IN  Move(Move(typed, Internal(<<"timestamp">>), Internal(<<"structured", "timestamp">>)),
           Internal(<<"message">>), Internal(<<"structured", "message">>))

\* A line that begins with its time gives it to the record.
ParseOVNAuditLogTimestamp(ev) ==
  LET time == MessageTime[Value(ev, Internal(<<"message">>))]
  IN  IF time = Null THEN ev ELSE Assign(ev, Internal(<<"timestamp">>), time)

\* A line of auditd gives its number to the record, and its time if that is one.
ParseHostAuditLogs(ev) ==
  LET text == Value(ev, Internal(<<"message">>))
      timed == IF MessageTime[text] = Null THEN ev
               ELSE Assign(ev, Internal(<<"timestamp">>), MessageTime[text])
  IN  IF text \in AuditdMessages THEN Assign(timed, Internal(<<"audit.linux">>), "envelop") ELSE ev

\* What a source read, as its input passes it on.
Normalize(source, ev) ==
  CASE source = "container" -> NewInternalNormalization("container", "application", ev)
    [] source = "auditd" -> ParseHostAuditLogs(NewInternalNormalization(source, "audit", ev))
    [] source = "ovn" -> ParseOVNAuditLogTimestamp(NewInternalNormalization(source, "audit", ev))
    [] source \in {"kubeAPI", "openshiftAPI"} -> NewAuditInternalNormalization(source, ev)
    [] source = "node" -> NewJournalInternalNormalization(ev)
    [] source = "syslog" -> NewReceiverInternalNormalization(ev)
    [] source = "http" -> NewHttpNormalization(ev)

-----------------------------------------------------------------------------
(* The filter viaq *)

\* The time of a Kubernetes event: the first of four that was set.
EventTime(ev) ==
  LET at(field) == Value(ev, Internal(<<"kubernetes", "event">> \o field))
      set(field) == at(field) \notin {Null, "", ZeroTime}
  IN  CASE set(<<"lastTimestamp">>) -> at(<<"lastTimestamp">>)
        [] ~set(<<"lastTimestamp">>) /\ set(<<"firstTimestamp">>) -> at(<<"firstTimestamp">>)
        [] OTHER -> IF at(<<"eventTime">>) \notin {Null, ""} THEN at(<<"eventTime">>)
                    ELSE at(<<"metadata", "creationTimestamp">>)

\* A record of the event router is the Kubernetes event it wrote.
HandleEventRouterLog(ev) ==
  LET parsed == Parsed(Value(ev, Internal(<<"message">>)))
      event == Put(ev, Internal(<<"kubernetes", "event">>),
                   Object(CHOOSE o \in parsed : TRUE, <<"event">>))
      told == Move(event, Internal(<<"message">>), Internal(<<"kubernetes", "event", "message">>))
  IN  IF /\ Value(ev, Internal(<<"kubernetes", "pod_name">>)) \in EventRouterPods
         /\ \E o \in parsed : Has(o, <<"event">>)
      THEN Assign(told, Internal(<<"timestamp">>), EventTime(told))
      ELSE ev

\* The labels under a path, by the names they are forwarded with.
VRLDedotLabels(ev, path) ==
  LET labels == Object(ev, path)
  IN  [n \in {<<Dedotted[l]>> : l \in DOMAIN labels} |->
         labels[CHOOSE l \in DOMAIN labels : <<Dedotted[l]>> = n]]

LabelMaps == {<<"kubernetes", "labels">>, <<"kubernetes", "namespace_labels">>}

SetKubernetesOnRoot(ev) ==
  LET dedot(e, path) == IF Has(ev, Internal(path))
                        THEN Put(e, path, VRLDedotLabels(ev, Internal(path))) ELSE e
  IN  dedot(dedot(Copy(ev, <<"kubernetes">>, Internal(<<"kubernetes">>)),
                  <<"kubernetes", "labels">>), <<"kubernetes", "namespace_labels">>)

SetMessageOnRoot(ev) ==
  IF Has(ev, Internal(<<"structured">>)) THEN ev
  ELSE Copy(ev, <<"message">>, Internal(<<"message">>))

containerLogs(ev) == SetMessageOnRoot(SetKubernetesOnRoot(HandleEventRouterLog(ev)))

auditHostLogs(ev) ==
  Assign(Copy(SetMessageOnRoot(ev), <<"audit.linux">>, Internal(<<"audit.linux">>)),
         <<"level">>, "default")

auditK8sLogs(ev) == Copy(ev, <<"k8s_audit_level">>, Internal(<<"structured", "level">>))

auditOpenshiftLogs(ev) ==
  Copy(ev, <<"openshift_audit_level">>, Internal(<<"structured", "level">>))

auditOVNLogs(ev) == Copy(SetMessageOnRoot(ev), <<"level">>, Internal(<<"level">>))

journalLogs(ev) ==
  SetMessageOnRoot(Copy(MoveIfExists(Assign(ev, <<"tag">>, ".journal.system"),
                                     <<"hostname">>, Internal(<<"host">>)),
                        <<"systemd">>, Internal(<<"systemd">>)))

receiverLogs(ev) ==
  Assign(Assign(Copy(ev, <<"message">>, Internal(<<"message">>)),
                <<"log_type">>, "infrastructure"), <<"log_source">>, "node")

\* The sources that a pipeline's script has a part for, of those its inputs read:
\* an HTTP receiver is sent events of the API server, and a receiver of any kind
\* brings the part of receivers.
Scripted(sources) == sources \cup IF "http" \in sources THEN {"kubeAPI", "syslog"} ELSE {}

\* The part of the script for the record's source.
SourceLogs(sources, ev) ==
  LET source == Value(ev, Internal(<<"log_source">>))
  IN  IF source \notin Scripted(sources) THEN ev
      ELSE CASE source = "auditd" -> auditHostLogs(ev)
             [] source = "kubeAPI" -> auditK8sLogs(ev)
             [] source = "openshiftAPI" -> auditOpenshiftLogs(ev)
             [] source = "ovn" -> auditOVNLogs(ev)
             [] source = "container" -> containerLogs(ev)
             [] source = "node" -> journalLogs(ev)
             [] source = "syslog" -> receiverLogs(ev)
             [] OTHER -> ev

RemoveKubernetesForNonContainerLogs(ev) ==
  IF Value(ev, <<"log_source">>) # "container" THEN Del(ev, <<"kubernetes">>) ELSE ev

MergeStructuredIntoRoot(ev) ==
  LET structured == Object(ev, Internal(<<"structured">>))
  IN  CASE \/ Value(ev, Internal(<<"log_type">>)) = "audit"
           \/ Value(ev, Internal(<<"log_source">>)) = "syslog" -> Merge(ev, structured)
        [] Value(ev, Internal(<<"log_source">>)) = "container" ->
             CopyIfExists(ev, <<"structured">>, Internal(<<"structured">>))
        [] OTHER -> ev

SetLogLevelOnRoot(ev) ==
  IF Value(ev, Internal(<<"log_type">>)) = "audit" THEN ev
  ELSE CopyIfExists(ev, <<"level">>, Internal(<<"level">>))

\* The labels that openshiftLabels adds come after this filter, so the dedotting
\* of them finds none.
Viaq(sources, ev) ==
  LET named == Copy(Copy(CopyIfExists(ev, <<"hostname">>, Internal(<<"hostname">>)),
                         <<"log_type">>, Internal(<<"log_type">>)),
                    <<"log_source">>, Internal(<<"log_source">>))
      owned == CopyIfExists(named, <<"openshift">>, Internal(<<"openshift">>))
      merged == MergeStructuredIntoRoot(RemoveKubernetesForNonContainerLogs(SourceLogs(sources, owned)))
  IN  SetLogLevelOnRoot(Copy(merged, <<"timestamp">>, Internal(<<"timestamp">>)))

===============================================================================
