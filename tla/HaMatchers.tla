----------------------------- MODULE HaMatchers -----------------------------
(***************************************************************************)
(* What the tools for Native HA, RDQM, multi-instance and z/OS queue       *)
(* managers conclude from the replies to their commands: the parsers of    *)
(* tools/{native_ha,rdqm,miqm,zos}.py, the matchers of rcs/matchers, the   *)
(* classification of topology/detect.py and the citations of               *)
(* rcs/kc_registry.py.                                                     *)
(*                                                                         *)
(* A reply is what it says, not its text: rows and lines are records, a    *)
(* list of distinguishable rows is a set unless their order matters.  A    *)
(* finding is its severity, what it is about and the topic it cites.       *)
(***************************************************************************)
EXTENDS Integers, Sequences, FiniteSets

CONSTANTS
  NoReply,    \* the empty text of a command that raised
  Complaints, \* error messages, which are returned like replies
  Naming,     \* those that have a word detect() looks for, as a usage text may
  NoNumber,   \* an attribute whose text is no number
  None        \* no such attribute, no such line

ZosPlatforms == {"MVS", "ZOS"}

ASSUME RepliesAssumption ==
  /\ Naming \subseteq Complaints
  /\ ({NoReply} \cup Complaints) \cap ZosPlatforms = {}
  /\ {} \notin {NoReply} \cup Complaints
  /\ NoReply \notin Complaints /\ None # "ACTIVE"

\* The replies without rows or lines.
Rowless == {NoReply} \cup Complaints

\* A finding about several things, and about one.
FindingOn(severity, kind, about, topic) ==
  [severity |-> severity, kind |-> kind, about |-> about, topic |-> topic]

Finding(severity, kind, thing, topic) == FindingOn(severity, kind, {thing}, topic)

\* The rows or lines of a reply that has any.
Rows(reply) == IF reply \in Rowless THEN {} ELSE reply

\* int(...) with the default the code falls back to.
Number(x, default) == IF x = NoNumber THEN default ELSE x

\* (n // 2) + 1
RequiredQuorum(n) == (n \div 2) + 1
-----------------------------------------------------------------------------
(* Native HA: rows of NATIVEHASTATUS, the RECOVERYGROUP reply.             *)

LagPctMedium == 95
LagPctHigh == 80
LagBytesHigh == 10000000
CrrLagHigh == 60
CrrLagCritical == 300

\* _parse_crr: None unless the reply names a group or a lag.
ParseCrr(reply) ==
  IF reply \in Rowless \/ (reply.group = None /\ reply.lag = None) THEN {}
  ELSE {[lag |-> IF reply.lag = None THEN 0 ELSE reply.lag]}

InSync(instances) == {i \in instances : i.insync = "YES"}

Actives(instances) == {i \in instances : i.role = "ACTIVE"}

QuorumLost == {Finding("CRITICAL", "quorum", "group", "native_ha_quorum_lost")}

\* A mutation of CheckQuorum: half of the instances pass for a majority.
CheckQuorumHalf(instances) ==
  IF 2 * Cardinality(InSync(instances)) >= Cardinality(instances) THEN {} ELSE QuorumLost

CheckQuorum(instances) ==
  IF instances = {} \/ Cardinality(InSync(instances)) >= RequiredQuorum(Cardinality(instances))
  THEN {} ELSE QuorumLost

CheckActiveInstance(instances) ==
  CASE Cardinality(Actives(instances)) = 1 -> {}
    [] Cardinality(Actives(instances)) = 0 ->
         {Finding("CRITICAL", "no_active", "group", "native_ha_quorum_lost")}
    [] OTHER -> {Finding("CRITICAL", "dual_active", "group", "native_ha_quorum_lost")}

CheckReplicas(instances) ==
  {Finding("HIGH", "replica", i.instance, "AMQ3209") :
     i \in {i \in instances \ Actives(instances) :
              i.status \notin {"RUNNING", "REPLICA"} \/ i.insync = "NO"}}

CheckLogReplayLag(instances) ==
  LET pct(i) == Number(i.pct, 100)
      far(i) == pct(i) < LagPctHigh \/ Number(i.backlog, 0) > LagBytesHigh
  IN {Finding(IF far(i) THEN "HIGH" ELSE "MEDIUM", "replay", i.instance,
              "native_ha_log_replication") :
        i \in {i \in instances \ Actives(instances) : far(i) \/ pct(i) < LagPctMedium}}

CheckCrrLag(crr) ==
  {Finding(IF c.lag >= CrrLagCritical THEN "CRITICAL" ELSE "HIGH", "crr_lag", "group",
           "native_ha_crr") : c \in {c \in crr : c.lag >= CrrLagHigh}}

\* match_native_ha_findings
MatchNativeHa(instances, crr) ==
  IF instances = {} /\ crr = {} THEN {}
  ELSE CheckQuorum(instances) \cup CheckActiveInstance(instances) \cup CheckReplicas(instances)
         \cup CheckLogReplayLag(instances) \cup CheckCrrLag(crr)
-----------------------------------------------------------------------------
(* RDQM: rdqmstatus, crm_mon and drbdadm.                                  *)

BadDrbdConn == {"WFConnection", "StandAlone", "Disconnecting", "Unconnected", "Timeout"}
BadDrbdDisk == {"Inconsistent", "Outdated", "DUnknown", "Failed", "Diskless"}

\* _parse_rdqmstatus: any text is a status, if only one without a running node.
ParseRdqmstatus(reply) ==
  CASE reply = NoReply -> {}
    [] reply \in Complaints -> {[running |-> None]}
    [] OTHER -> {[running |-> reply.running]}

\* The words of _CRM_FAILED_RE.
FailedWords == {"FAILED", "Stopped", "Stop (disabled)", "unmanaged"}

\* _parse_crm_mon: the Online and OFFLINE lists; without them a line per node, where
\* standby counts as offline.  A node in another state is dropped.  Only if there is a
\* section of failed actions, every bullet with one of the words counts as failed; but
\* where a line ends in that word the regex takes the next bullet's asterisk for the
\* node, and so swallows that bullet.
ParseCrmMon(reply) ==
  IF reply \in Rowless THEN [online |-> {}, offline |-> {}, failed |-> {}]
  ELSE LET In(states) == {n.node : n \in {n \in reply.nodes : n.state \in states}}
           listed == reply.lists /\ In({"online", "offline"}) # {}
           failing == {b \in reply.bullets : b.word \in FailedWords /\ ~b.swallowed}
       IN [online |-> In({"online"}),
           offline |-> In(IF listed THEN {"offline"} ELSE {"offline", "standby"}),
           failed |-> IF reply.section THEN {b.resource : b \in failing} ELSE {}]

TotalNodes(pace) == Cardinality(pace.online) + Cardinality(pace.offline)

\* _parse_drbd: an entry per resource and peer, none for a resource without peers;
\* a split-brain message anywhere in the reply marks every entry, or stands alone.
ParseDrbd(reply) ==
  IF reply \in Rowless THEN {}
  ELSE LET entries == {[resource |-> p.resource, disk |-> p.disk, conn |-> p.conn,
                        peer_disk |-> p.peer_disk, split_brain |-> reply.split # {}] :
                         p \in reply.peers}
       IN IF entries = {} /\ reply.split # {}
          THEN {[resource |-> "<unknown>", disk |-> None, conn |-> None, peer_disk |-> None,
                 split_brain |-> TRUE]}
          ELSE entries

CheckPacemakerQuorum(pace) ==
  IF TotalNodes(pace) = 0 \/ Cardinality(pace.online) >= RequiredQuorum(TotalNodes(pace)) THEN {}
  ELSE {Finding("CRITICAL", "quorum", "group", "rdqm_pacemaker")}

CheckOfflineNodes(pace) ==
  IF pace.offline = {} THEN {}
  ELSE {FindingOn("HIGH", "offline", pace.offline, "rdqm_pacemaker")}

CheckFailedResources(pace) ==
  {Finding("HIGH", "failed_resource", r, "rdqm_troubleshooting") : r \in pace.failed}

CheckDrbdSplitBrain(drbd) ==
  {Finding("CRITICAL", "split_brain", d.resource, "rdqm_split_brain") :
     d \in {d \in drbd : d.split_brain}}

CheckDrbdConnection(drbd) ==
  {Finding(IF d.conn \in BadDrbdConn THEN "HIGH" ELSE "MEDIUM", "connection", d.resource,
           "rdqm_troubleshooting") :
     d \in {d \in drbd : ~d.split_brain /\ d.conn \notin {None, "Connected"}}}

CheckDrbdDiskState(drbd) ==
  {Finding("HIGH", "disk", d.resource, "rdqm_troubleshooting") :
     d \in {d \in drbd : ~d.split_brain /\ ({d.disk, d.peer_disk} \cap BadDrbdDisk) # {}}}

CheckRdqmNoRunningNode(rdqm) ==
  {Finding("CRITICAL", "no_running", "group", "rdqm_overview") :
     s \in {s \in rdqm : s.running = None}}

\* match_rdqm_findings; with no reply at all every check is silent.
MatchRdqm(rdqm, pace, drbd) ==
  CheckPacemakerQuorum(pace) \cup CheckOfflineNodes(pace) \cup CheckFailedResources(pace)
    \cup CheckDrbdSplitBrain(drbd) \cup CheckDrbdConnection(drbd) \cup CheckDrbdDiskState(drbd)
    \cup CheckRdqmNoRunningNode(rdqm)
-----------------------------------------------------------------------------
(* Multi-instance: the lines of dspmq -x and dspmq -o standby, which tell  *)
(* of every queue manager of the host, and the text of DISPLAY QMSTATUS.   *)

\* _infer_role
InferRole(status) ==
  CASE status = "Running as standby" -> "STANDBY"
    [] status \in {"Running", "Running elsewhere"} -> "ACTIVE"
    [] OTHER -> "NONE"

\* _parse_instances: MODE, or the role the status implies.
ParseInstances(reply) ==
  {[host |-> l.host, qm |-> l.qm,
    role |-> IF l.mode = None THEN InferRole(l.status) ELSE l.mode] : l \in Rows(reply)}

\* _STANDBY_PERMITTED_RE: STANDBY(PERMITTED) on some line.
StandbyPermitted(reply) == \E l \in Rows(reply) : l.standby = "PERMITTED"

CheckNoActive(instances) ==
  IF instances = {} \/ Actives(instances) # {} THEN {}
  ELSE {Finding("CRITICAL", "no_active", "group", "miqm_troubleshooting")}

CheckStandbyPermission(permitted, instances) ==
  IF permitted \/ instances = {} THEN {}
  ELSE {Finding("HIGH", "standby_not_permitted", "group", "miqm_overview")}

CheckDualActive(instances) ==
  IF Cardinality(Actives(instances)) <= 1 THEN {}
  ELSE {Finding("CRITICAL", "dual_active", "group", "miqm_troubleshooting")}

\* The tool never probes the file system (shared_fs_ok is None), so that the check
\* of it has nothing to say; log_tail holds the failover messages of QMSTATUS.
CheckFailoverHistory(log_tail) ==
  IF log_tail = {} THEN {}
  ELSE {Finding("MEDIUM", "failover", "group", "miqm_troubleshooting")}

\* match_miqm_findings
MatchMiqm(instances, permitted, log_tail) ==
  CheckNoActive(instances) \cup CheckStandbyPermission(permitted, instances)
    \cup CheckDualActive(instances) \cup CheckFailoverHistory(log_tail)
-----------------------------------------------------------------------------
(* z/OS: rows of GROUP, CHINIT, PSID, BUFFPOOL and CFSTATUS.               *)

PagesetHigh == 80
PagesetCritical == 95
BufferpoolLowFreePct == 10

\* The first row with a CHINIT attribute, as a set; an empty status is none.
ChinStatus(reply) ==
  LET rows == IF reply \in Rowless THEN <<>> ELSE reply
      named == {i \in DOMAIN rows : rows[i].chinit # None}
  IN {rows[i].chinit : i \in {i \in named : \A j \in named : i <= j}} \ {""}

CheckQsgMembers(rows) ==
  {Finding("HIGH", "member", r.qm, "zos_qsg_overview") :
     r \in {r \in rows : r.qm # None /\ r.status \notin {"ACTIVE", "RUNNING"}}}

CheckChin(chin) ==
  {Finding("CRITICAL", "chin", "group", "zos_chin") :
     s \in chin \ {"RUNNING", "ACTIVE", "STARTED"}}

CheckPagesets(rows) ==
  LET use(r) == Number(r.use, 0) IN
  {Finding(IF use(r) >= PagesetCritical THEN "CRITICAL" ELSE "HIGH", "pageset", r.psid,
           "zos_pageset") : r \in {r \in rows : use(r) >= PagesetHigh}}

CheckBufferpools(rows) ==
  {Finding("HIGH", "bufferpool", r.pool, "zos_bufferpool") :
     r \in {r \in rows : Number(r.free, 100) < BufferpoolLowFreePct}}

CheckCfStructures(rows) ==
  {Finding(IF r.status \in {"FAILED", "DAMAGED", "FAILED-CONNECTED", "INACCESSIBLE"}
             THEN "CRITICAL" ELSE "HIGH", "cf", r.structure, "zos_cf_structure") :
     r \in {r \in rows : r.status \notin {"ACTIVE", "AVAILABLE"}}}

\* match_zos_findings
MatchZos(group, chin, psid, buffpool, cf) ==
  CheckQsgMembers(group) \cup CheckChin(chin) \cup CheckPagesets(psid)
    \cup CheckBufferpools(buffpool) \cup CheckCfStructures(cf)
-----------------------------------------------------------------------------
(* The topology.                                                           *)

\* A mutation of NormalizeMqVersion: the reply as it is.
NormalizeMqVersionNot(raw) == raw

\* normalize_mq_version: a reply of eight digits VVRRMMFF is four numbers, any
\* other reply stays as it is.
NormalizeMqVersion(raw) ==
  IF raw # None /\ Len(raw) = 8
  THEN [i \in 1 .. 4 |-> 10 * raw[2 * i - 1] + raw[2 * i]]
  ELSE raw

\* _classify's order.
Ranking == <<"ZOS_QSG", "NATIVE_HA", "RDQM", "MULTI_INSTANCE", "UNIFORM_CLUSTER",
             "TRADITIONAL_CLUSTER", "STANDALONE">>

Rank(t) == CHOOSE i \in 1 .. Len(Ranking) : Ranking[i] = t

\* A mutation of Classify: clusters are asked for first.
ClassifyClusterFirst(flags) ==
  IF "TRADITIONAL_CLUSTER" \in flags THEN "TRADITIONAL_CLUSTER"
  ELSE CHOOSE t \in flags \cup {"STANDALONE"} : \A u \in flags : Rank(t) <= Rank(u)

\* _classify: the first kind that is indicated.
Classify(flags) ==
  CHOOSE t \in flags \cup {"STANDALONE"} : \A u \in flags : Rank(t) <= Rank(u)

\* The kinds the replies to detect()'s probes indicate.  A text that has the word counts,
\* whatever it says: NATIVEHA(NO), the usage of a command that failed, a cluster named
\* so; and any text at all, if only "object not found", counts as a cluster's.
Indicated(heard) ==
  {t \in {"ZOS_QSG", "NATIVE_HA", "RDQM", "MULTI_INSTANCE", "UNIFORM_CLUSTER",
          "TRADITIONAL_CLUSTER"} :
     CASE t = "ZOS_QSG" -> heard["platform"] \in ZosPlatforms
       [] t = "NATIVE_HA" -> heard["qmstatus"] \notin Rowless /\ heard["qmstatus"].nativeha # None
       [] t = "RDQM" -> \/ heard["rdqmstatus"] \in Naming
                        \/ heard["rdqmstatus"] \notin Rowless /\ heard["rdqmstatus"].nodes
       [] t = "MULTI_INSTANCE" -> heard["standby"] \in Naming \/ Rows(heard["standby"]) # {}
       [] t = "UNIFORM_CLUSTER" -> "UNIFORM" \in Rows(heard["clusqmgr"])
       [] t = "TRADITIONAL_CLUSTER" -> heard["clusqmgr"] \notin {NoReply, {}}}
-----------------------------------------------------------------------------
(* The citations.                                                          *)

\* The versions a topic's or a code's entry in the registry is for.
Versions(topic) ==
  CASE topic = "native_ha_crr" -> {<<9, 4>>}
    [] topic \in {"native_ha_overview", "native_ha_quorum_lost", "native_ha_log_replication",
                   "AMQ3209"} ->
         {<<9, 3>>, <<9, 4>>}
    [] OTHER -> {<<9, 2>>, <<9, 3>>, <<9, 4>>}

\* KCRegistry: each of these topics has one entry.
Refs(topic) == {[topic |-> topic, mq_versions |-> Versions(topic)]}

MajorMinor(version) == SubSeq(version, 1, IF Len(version) < 2 THEN Len(version) ELSE 2)

\* A mutation of FilterVersion: no document of another version is ever given.
FilterVersionStrict(refs, version) ==
  {r \in refs : version = None \/ MajorMinor(version) \in r.mq_versions}

\* _filter_version: the entries for a version, all of them if there is none.
FilterVersion(refs, version) ==
  LET fit == {r \in refs : version # None /\ MajorMinor(version) \in r.mq_versions}
  IN IF fit = {} THEN refs ELSE fit

\* lookup_topic, lookup_amq
Lookup(topic, version) == FilterVersion(Refs(topic), version)
=============================================================================
