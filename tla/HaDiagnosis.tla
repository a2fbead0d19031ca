----------------------------- MODULE HaDiagnosis -----------------------------
(***************************************************************************)
(* One call of diagnose_native_ha_issues, diagnose_rdqm_issues,            *)
(* diagnose_multi_instance_issues or diagnose_zos_qsg_issues, from the     *)
(* connection open_qm has made to the report: the probes of the topology   *)
(* (topology/detect.py), the commands of the tool, its matcher.            *)
(*                                                                         *)
(* Commands go one by one to a system that changes meanwhile.  Any of them *)
(* may raise, or end with an error message, which is returned like an      *)
(* answer; the tool never hears which.  Shell commands tell of the machine *)
(* the server runs on.                                                     *)
(***************************************************************************)
EXTENDS HaMatchers

CONSTANTS
  ThisQM,      \* the queue manager asked about
  Systems,     \* systems: what the commands may show of each, a reply per command
  OwnHost,     \* what they show of the machine the server runs on, if another
  MaxChanges,  \* bound: how often the system changes during the call
  MaxFaults    \* bound: how often a command fails while the connection is up

Tools == {"native_ha", "rdqm", "miqm", "zos"}

Shell == {"rdqmstatus", "standby", "crm_mon", "drbdadm", "dspmq_x"}

\* detect()'s probes, in order.
Probes == <<"version", "platform", "qmstatus", "rdqmstatus", "standby", "clusqmgr">>

\* The commands of run_native_ha_checks, run_rdqm_checks, run_miqm_checks and
\* run_zos_checks, in order.
Commands(tool) ==
  CASE tool = "native_ha" -> <<"nativehastatus", "recoverygroup">>
    [] tool = "rdqm" -> <<"rdqmstatus", "crm_mon", "drbdadm">>
    [] tool = "miqm" -> <<"dspmq_x", "standby", "qmstatus">>
    [] tool = "zos" -> <<"group", "chinit", "psid", "buffpool", "cfstatus">>

AllCommands ==
  Shell \cup {"version", "platform", "qmstatus", "clusqmgr", "nativehastatus", "recoverygroup",
              "group", "chinit", "psid", "buffpool", "cfstatus"}

ASSUME ViewsAssumption == \A v \in (UNION Systems) \cup {OwnHost} : DOMAIN v = AllCommands

\* About MQ: MQSC commands show something, if only no rows; QMSTATUS names NATIVEHA
\* wherever there are instances; no system answers with a complaint, but for
\* "object not found" if it has no cluster.
ASSUME SystemsAssumption ==
  \A v \in UNION Systems :
    /\ \A c \in AllCommands \ {"clusqmgr"} : v[c] \notin Complaints
    /\ \A c \in AllCommands \ Shell : v[c] # NoReply
    /\ v.nativehastatus # {} => v.qmstatus.nativeha # None

\* Replies have finitely many rows; a version is eight digits or four numbers; crm_mon
\* shows a node once, and it has its vote if it is online, not if it is offline; a peer
\* line shows a connection; dspmq -x lists an instance once and dspmq -o standby a
\* queue manager once.
ASSUME RowsAssumption ==
  \A v \in UNION Systems :
    /\ v.version = None \/ Len(v.version) \in {4, 8}
    /\ IsFiniteSet(v.nativehastatus)
    /\ \A i \in v.nativehastatus : {i.pct, i.backlog} \subseteq Int \cup {NoNumber}
    /\ v.crm_mon # NoReply =>
         /\ IsFiniteSet(v.crm_mon.nodes)
         /\ \A n, m \in v.crm_mon.nodes : n.node = m.node => n = m
         /\ \A n \in v.crm_mon.nodes : /\ n.there \in BOOLEAN
                                       /\ n.state = "online" => n.there
                                       /\ n.state = "offline" => ~n.there
    /\ v.chinit = [i \in 1 .. Len(v.chinit) |-> v.chinit[i]] /\ Len(v.chinit) \in Nat
    /\ v.drbdadm # NoReply => \A p \in v.drbdadm.peers : p.conn # None
    /\ IsFiniteSet(Rows(v.dspmq_x))
    /\ \A l, m \in Rows(v.dspmq_x) : l.qm = m.qm /\ l.host = m.host => l = m
    /\ \A l, m \in Rows(v.standby) : l.qm = m.qm => l = m

ASSUME BoundsAssumption == MaxChanges \in Nat /\ MaxFaults \in Nat

VARIABLES
  view,      \* the system as its commands would show it now
  local,     \* does the server run on the queue manager's host
  up,        \* is the MQ connection up
  tool,      \* the tool that was called
  phase,     \* "detect", "collect" or "done"
  todo,      \* the commands still to be sent in this phase
  heard,     \* the replies of this phase
  version, flags, topology,   \* the fingerprint's
  findings,
  evidence,  \* raw_evidence: what tells a source that was seen
  changes,   \* auxiliary: how often the system has changed
  faults,    \* auxiliary: how many commands failed although the connection was up
  deaf,      \* auxiliary: the commands of this phase that failed
  probed,    \* auxiliary: did every probe of the topology get an answer
  ever,      \* auxiliary: what was true of the system at some time of the call
  always     \* auxiliary: what was true at all times of it

systemVars == <<view, up, changes, ever, always>>
reportVars == <<version, flags, topology, findings, evidence>>
vars == <<systemVars, local, tool, phase, todo, heard, reportVars, faults, deaf, probed>>
-----------------------------------------------------------------------------
(* What is true of the system, whatever the tool makes of it.              *)

Fact(owner, kind, about) == [owner |-> owner, kind |-> kind, about |-> about]

Group(owner, kind, holds) == {Fact(owner, kind, "group") : yes \in {holds} \cap {TRUE}}

IsActive(i) == i.role = "ACTIVE"

Lags(i) ==
  \/ (i.pct # NoNumber /\ i.pct < 95)
  \/ (i.backlog # NoNumber /\ i.backlog > 10000000)

NativeHaFacts(instances, rg) ==
  LET replicas == {i \in instances : ~IsActive(i)}
      synced == {i \in instances : i.insync = "YES"}
  IN Group("native_ha", "quorum",
           instances # {} /\ 2 * Cardinality(synced) <= Cardinality(instances))
     \cup Group("native_ha", "no_active", instances # {} /\ replicas = instances)
     \cup Group("native_ha", "dual_active",
                \E i, j \in instances : i # j /\ IsActive(i) /\ IsActive(j))
     \cup Group("native_ha", "crr_lag", rg.lag # None /\ rg.lag >= 60)
     \cup {Fact("native_ha", "replica", i.instance) :
             i \in {i \in replicas : i.insync = "NO" \/ i.status \notin {"RUNNING", "REPLICA"}}}
     \cup {Fact("native_ha", "replay", i.instance) : i \in {i \in replicas : Lags(i)}}

\* A node on standby or in maintenance runs nothing, but it may be there, with its vote.
PacemakerFacts(crm) ==
  LET there == {n.node : n \in {n \in crm.nodes : n.there}}
      away == {n.node : n \in {n \in crm.nodes : ~n.there}}
  IN Group("rdqm", "quorum", crm.nodes # {} /\ Cardinality(there) <= Cardinality(away))
     \cup {Fact("rdqm", "offline", n) : n \in away}
     \cup {Fact("rdqm", "failed_resource", b.resource) :
              b \in {b \in crm.bullets : b.word = "FAILED"}}

DrbdFacts(drbd) ==
  {Fact("rdqm", "split_brain", r) : r \in drbd.split}
    \cup {Fact("rdqm", "connection", p.resource) : p \in {p \in drbd.peers : p.conn # "Connected"}}
    \cup {Fact("rdqm", "disk", p.resource) :
            p \in {p \in drbd.peers : {p.disk, p.peer_disk} \cap BadDrbdDisk # {}}}
    \cup {Fact("rdqm", "disk", r.resource) : r \in {r \in drbd.alone : r.disk \in BadDrbdDisk}}

RdqmFacts(v) ==
  (UNION {PacemakerFacts(crm) : crm \in {v.crm_mon} \ {NoReply}})
    \cup (UNION {DrbdFacts(drbd) : drbd \in {v.drbdadm} \ {NoReply}})
    \cup (UNION {Group("rdqm", "no_running", s.nodes /\ s.running = None) :
                   s \in {v.rdqmstatus} \ {NoReply}})

\* What a reply of dspmq tells of the queue manager itself, and of others.
Own(reply) == {l \in Rows(reply) : l.qm = ThisQM}
Others(reply) == Rows(reply) \ Own(reply)

MiqmFacts(v) ==
  LET active == {l \in Own(v.dspmq_x) :
                   \/ l.mode = "ACTIVE"
                   \/ l.mode = None /\ l.status \in {"Running", "Running elsewhere"}}
  IN Group("miqm", "no_active", Own(v.dspmq_x) # {} /\ active = {})
     \cup Group("miqm", "dual_active", Cardinality(active) > 1)
     \cup Group("miqm", "standby_not_permitted", \E l \in Own(v.standby) : l.standby # "PERMITTED")
     \cup Group("miqm", "failover", v.qmstatus.codes # {})

ZosFacts(v) ==
  {Fact("zos", "member", r.qm) :
     r \in {r \in v.group : r.qm # None /\ r.status \notin {"ACTIVE", "RUNNING"}}}
    \cup Group("zos", "chin",
               \E i \in DOMAIN v.chinit :
                 v.chinit[i].chinit \notin {None, "RUNNING", "ACTIVE", "STARTED"})
    \cup {Fact("zos", "pageset", r.psid) : r \in {r \in v.psid : r.use # NoNumber /\ r.use >= 80}}
    \cup {Fact("zos", "bufferpool", r.pool) :
            r \in {r \in v.buffpool : r.free # NoNumber /\ r.free < 10}}
    \cup {Fact("zos", "cf", r.structure) :
            r \in {r \in v.cfstatus : r.status \notin {"ACTIVE", "AVAILABLE"}}}

\* The kinds of queue manager it is, and the kinds a reply merely names: QMSTATUS may say
\* NATIVEHA(NO), dspmq STANDBY(NOT PERMITTED), a cluster may have "uniform" in its name,
\* and the answer for clusters may be that there are none.
TopologyFacts(v) ==
  LET qm(kind, holds) == {Fact("topology", kind, "qm") : yes \in {holds} \cap {TRUE}}
      named(kind, holds) == {Fact("named", kind, "qm") : yes \in {holds} \cap {TRUE}}
  IN qm("ZOS_QSG", v.platform \in ZosPlatforms)
     \cup qm("NATIVE_HA", v.nativehastatus # {})
     \cup qm("RDQM", v.rdqmstatus # NoReply /\ v.rdqmstatus.nodes)
     \cup qm("MULTI_INSTANCE", \E l \in Own(v.standby) : l.standby = "PERMITTED")
     \cup qm("TRADITIONAL_CLUSTER", Rows(v.clusqmgr) # {})
     \cup named("NATIVE_HA", v.qmstatus.nativeha # None)
     \cup named("MULTI_INSTANCE", Rows(v.standby) # {})
     \cup named("UNIFORM_CLUSTER", "UNIFORM" \in Rows(v.clusqmgr))
     \cup named("TRADITIONAL_CLUSTER", v.clusqmgr # {})

\* The kinds an error message names.
NamedBy(cmd, complaint) ==
  {Fact("named", kind, "qm") :
     kind \in {kind \in {"RDQM", "MULTI_INSTANCE", "TRADITIONAL_CLUSTER"} :
                 CASE kind = "RDQM" -> cmd = "rdqmstatus" /\ complaint \in Naming
                   [] kind = "MULTI_INSTANCE" -> cmd = "standby" /\ complaint \in Naming
                   [] kind = "TRADITIONAL_CLUSTER" -> cmd = "clusqmgr"}}

Facts(v) ==
  NativeHaFacts(v.nativehastatus, v.recoverygroup) \cup RdqmFacts(v) \cup MiqmFacts(v)
    \cup ZosFacts(v) \cup TopologyFacts(v)
-----------------------------------------------------------------------------
Silence == [c \in AllCommands |-> NoReply]

Init ==
  /\ view \in UNION Systems
  /\ local \in BOOLEAN
  /\ up = TRUE
  /\ tool \in Tools
  /\ phase = "detect"
  /\ todo = Probes
  /\ heard = Silence
  /\ version = None /\ flags = {} /\ topology = "STANDALONE"
  /\ findings = {}
  /\ evidence = {}
  /\ changes = 0
  /\ faults = 0
  /\ deaf = {}
  /\ probed = FALSE
  /\ ever = Facts(view)
  /\ always = Facts(view)

\* Instances and nodes come and go, disks and page sets fill.
SystemChanges ==
  /\ phase # "done"
  /\ changes < MaxChanges
  /\ changes' = changes + 1
  /\ \E system \in Systems :
       /\ view \in system
       /\ view' \in system \ {view}
  /\ ever' = ever \cup Facts(view')
  /\ always' = always \cap Facts(view')
  /\ UNCHANGED <<up, local, tool, phase, todo, heard, reportVars, faults, deaf, probed>>

\* The MQ connection breaks; shell commands go on.
Break ==
  /\ phase # "done"
  /\ up
  /\ up' = FALSE
  /\ UNCHANGED <<view, changes, ever, always, local, tool, phase, todo, heard, reportVars, faults,
                 deaf, probed>>
-----------------------------------------------------------------------------
\* A mutation of Replies: shell commands are run wherever the server is.
RepliesAnywhere(cmd) ==
  IF cmd \in Shell
  THEN {IF local THEN view[cmd] ELSE OwnHost[cmd]}
  ELSE {view[cmd] : yes \in {up} \cap {TRUE}}

\* What execute_mqsc or execute_shell returns unless it raises.  A shell command
\* is only run if the inventory says that the queue manager is on this host.
Replies(cmd) ==
  {view[cmd] : yes \in {IF cmd \in Shell THEN local ELSE up} \cap {TRUE}}

\* The helpers of the tools and of detect() turn an exception into no reply.
Hear(reply) ==
  /\ todo # <<>>
  /\ heard' = [heard EXCEPT ![Head(todo)] = reply]
  /\ todo' = Tail(todo)
  /\ UNCHANGED <<view, up, changes, always, local, tool, phase, reportVars, probed>>

Answered ==
  /\ todo # <<>>
  /\ \E reply \in Replies(Head(todo)) : Hear(reply)
  /\ UNCHANGED <<faults, deaf, ever>>

\* Without an answer to be had it raises; else a timeout or a refusal makes it.
Fails(reply) ==
  /\ Hear(reply)
  /\ deaf' = deaf \cup {Head(todo)}
  /\ IF Replies(Head(todo)) = {} THEN UNCHANGED faults
     ELSE faults < MaxFaults /\ faults' = faults + 1

Raised == Fails(NoReply) /\ UNCHANGED ever

\* A shell command ends with an exit code other than 0, and its stderr is the reply; MQSC
\* answers with an error message, which does not echo the words of a usage text.
Complained(complaint) ==
  /\ todo # <<>>
  /\ Replies(Head(todo)) # {}
  /\ complaint \in Naming => Head(todo) \in Shell
  /\ Fails(complaint)
  /\ ever' = ever \cup NamedBy(Head(todo), complaint)

\* The end of detect(): version, flags and class; then the tool begins.
Detected ==
  /\ phase = "detect"
  /\ todo = <<>>
  /\ version' = IF heard["version"] \in Rowless THEN None ELSE NormalizeMqVersion(heard["version"])
  /\ flags' = Indicated(heard)
  /\ topology' = Classify(flags')
  /\ phase' = "collect"
  /\ todo' = Commands(tool)
  /\ heard' = Silence
  /\ probed' = (deaf = {})
  /\ deaf' = {}
  /\ UNCHANGED <<systemVars, local, tool, findings, evidence, faults>>
-----------------------------------------------------------------------------
\* The matcher of each tool, on what its commands returned.
Match ==
  CASE tool = "native_ha" ->
         MatchNativeHa(Rows(heard["nativehastatus"]), ParseCrr(heard["recoverygroup"]))
    [] tool = "rdqm" ->
         MatchRdqm(ParseRdqmstatus(heard["rdqmstatus"]), ParseCrmMon(heard["crm_mon"]),
                   ParseDrbd(heard["drbdadm"]))
    [] tool = "miqm" ->
         MatchMiqm(ParseInstances(heard["dspmq_x"]), StandbyPermitted(heard["standby"]),
                   IF heard["qmstatus"] \in Rowless THEN {} ELSE heard["qmstatus"].codes)
    [] tool = "zos" ->
         MatchZos(Rows(heard["group"]), ChinStatus(heard["chinit"]), Rows(heard["psid"]),
                  Rows(heard["buffpool"]), Rows(heard["cfstatus"]))

\* A mutation of Evidence: every source that returned something counts as seen.
EvidenceAsked == {c \in AllCommands : heard[c] # NoReply}

\* raw_evidence: the sources whose count is not 0, whose name is not empty.
Evidence ==
  {c \in AllCommands :
     CASE c = "recoverygroup" -> tool = "native_ha" /\ ParseCrr(heard[c]) # {}
       [] c = "rdqmstatus" ->
            tool = "rdqm" /\ \E s \in ParseRdqmstatus(heard[c]) : s.running # None
       [] c = "crm_mon" -> TotalNodes(ParseCrmMon(heard[c])) > 0
       [] c = "drbdadm" -> ParseDrbd(heard[c]) # {}
       [] c = "standby" -> tool = "miqm" /\ StandbyPermitted(heard[c])
       [] c = "group" -> {r \in Rows(heard[c]) : r.qm # None} # {}
       [] c = "chinit" -> ChinStatus(heard[c]) # {}
       [] c \in {"dspmq_x", "nativehastatus", "psid", "buffpool", "cfstatus"} ->
            Rows(heard[c]) # {}
       [] OTHER -> FALSE}

\* The matcher and the report; the matcher looks each finding's citations up.
Matched ==
  /\ phase = "collect"
  /\ todo = <<>>
  /\ findings' = {[severity |-> f.severity, kind |-> f.kind, about |-> f.about,
                   doc_refs |-> Lookup(f.topic, version)] : f \in Match}
  /\ evidence' = Evidence
  /\ phase' = "done"
  /\ UNCHANGED <<systemVars, local, tool, todo, heard, version, flags, topology, faults, deaf,
                 probed>>

Next ==
  \/ SystemChanges
  \/ Break
  \/ Answered
  \/ Raised
  \/ \E complaint \in Complaints : Complained(complaint)
  \/ Detected
  \/ Matched

Spec == Init /\ [][Next]_vars
-----------------------------------------------------------------------------
\* Types of the call's locals; the sources a report shows as seen are among those
\* the tool asked.
TypeOK ==
  /\ view \in UNION Systems
  /\ {local, up, probed} \subseteq BOOLEAN
  /\ tool \in Tools
  /\ phase \in {"detect", "collect", "done"}
  /\ Len(todo) <= Len(Probes) /\ {todo[i] : i \in 1 .. Len(todo)} \subseteq AllCommands
  /\ DOMAIN heard = AllCommands
  /\ version = None \/ Len(version) = 4
  /\ flags \subseteq {Ranking[i] : i \in 1 .. Len(Ranking)}
  /\ topology \in {Ranking[i] : i \in 1 .. Len(Ranking)}
  /\ {f.severity : f \in findings} \subseteq {"CRITICAL", "HIGH", "MEDIUM"}
  /\ evidence \subseteq {Commands(tool)[i] : i \in 1 .. Len(Commands(tool))}
  /\ changes \in 0 .. MaxChanges /\ faults \in 0 .. MaxFaults
  /\ deaf \subseteq AllCommands

\* Where the tools say more than they heard.
FalseAlarm(f) ==
  \/ \* No instances, but a recovery group: _check_active_instance counts none active.
     tool = "native_ha" /\ f.kind = "no_active" /\ Rows(heard["nativehastatus"]) = {}
  \/ \* An error message of rdqmstatus, or the status of a plain queue manager.
     f.kind = "no_running" /\ (heard["rdqmstatus"] \in Complaints \/ ~heard["rdqmstatus"].nodes)
  \/ \* One resource's split brain is said of them all.
     f.kind = "split_brain" /\ \E r \in heard["drbdadm"].split : r \notin f.about
  \/ \* A node neither online nor offline counts as offline, or not at all.
     /\ tool = "rdqm" /\ f.kind \in {"quorum", "offline"}
     /\ \E n \in heard["crm_mon"].nodes : n.state \notin {"online", "offline"}
  \/ \* Where some action failed, a resource that is stopped or unmanaged counts as failed.
     /\ f.kind = "failed_resource"
     /\ \E b \in heard["crm_mon"].bullets : b.resource \in f.about /\ b.word # "FAILED"
  \/ \* No reply of dspmq -o standby reads like standby instances not permitted.
     f.kind = "standby_not_permitted" /\ Own(heard["standby"]) = {}
  \/ \* dspmq -x tells of every queue manager on the host.
     tool = "miqm" /\ f.kind \in {"no_active", "dual_active"} /\ Others(heard["dspmq_x"]) # {}

\* Every finding was true of the queue manager at some time of the call, however
\* commands failed and the system changed meanwhile, but for the seven cases that
\* FalseAlarm names.  In particular nothing is said of another machine.
FindingsWitnessed ==
  \A f \in findings :
    \/ FalseAlarm(f)
    \/ \A thing \in f.about : Fact(tool, f.kind, thing) \in ever

\* The command whose reply tells of a trouble.
Source(kind) ==
  CASE kind = "crr_lag" -> "recoverygroup"
    [] kind = "no_running" -> "rdqmstatus"
    [] kind \in {"offline", "failed_resource"} -> "crm_mon"
    [] kind \in {"split_brain", "connection", "disk"} -> "drbdadm"
    [] kind = "standby_not_permitted" -> "standby"
    [] kind = "failover" -> "qmstatus"
    [] kind = "member" -> "group"
    [] kind = "chin" -> "chinit"
    [] kind = "pageset" -> "psid"
    [] kind = "bufferpool" -> "buffpool"
    [] kind = "cf" -> "cfstatus"
    [] kind = "quorum" -> IF tool = "rdqm" THEN "crm_mon" ELSE "nativehastatus"
    [] kind = "replica" -> "nativehastatus"
    [] kind = "replay" -> "nativehastatus"
    [] kind \in {"no_active", "dual_active"} ->
         IF tool = "miqm" THEN "dspmq_x" ELSE "nativehastatus"

\* Troubles that a reply shows and the tools pass over: a node is in a state the parser
\* drops; a failed resource has no section of failed actions beside it, or its bullet is
\* swallowed; another queue manager on the host has what this one lacks; a resource has
\* no peer that drbdadm lists, be it a failed disk or the split brain that is said of all
\* others; the statuses of the channel initiator differ, of which the first counts, or one is empty.
Overlooked(t) ==
  \/ /\ tool = "rdqm" /\ t.kind \in {"quorum", "offline"}
     /\ \E n \in heard["crm_mon"].nodes :
          /\ n.state \notin {"online", "offline"}
          /\ t.kind = "offline" => t.about = n.node
  \/ /\ t.kind = "failed_resource"
     /\ \/ ~heard["crm_mon"].section
        \/ \E b \in heard["crm_mon"].bullets : b.resource = t.about /\ b.swallowed
  \/ tool = "miqm" /\ t.kind = "no_active" /\ Others(heard["dspmq_x"]) # {}
  \/ tool = "miqm" /\ t.kind = "standby_not_permitted" /\ Others(heard["standby"]) # {}
  \/ tool = "miqm" /\ t.kind = "standby_not_permitted" /\ Rows(heard["dspmq_x"]) = {}
  \/ t.kind = "disk" /\ \E r \in heard["drbdadm"].alone : r.resource = t.about
  \/ /\ t.kind = "split_brain" /\ heard["drbdadm"].peers # {}
     /\ t.about \notin {p.resource : p \in heard["drbdadm"].peers}
  \/ /\ t.kind = "chin"
     /\ LET statuses == {heard["chinit"][i].chinit : i \in DOMAIN heard["chinit"]} \ {None}
        IN "" \in statuses \/ \E s, u \in statuses : s # u

\* The report tells of a trouble.  Of a resource with a split brain it tells no more.
Reported(t) ==
  \E f \in findings :
    \/ f.kind = t.kind /\ t.about \in f.about
    \/ f.kind = "split_brain" /\ t.kind \in {"connection", "disk"} /\ t.about \in f.about
    \/ f.kind = "split_brain" /\ t.kind = "split_brain" /\ f.about = {"<unknown>"}

Troubles == {t \in always : t.owner = tool}

\* A trouble that lasted from the first probe to the report is reported if the
\* command that shows it was answered, whichever others failed.
NothingMissed ==
  phase = "done" =>
    \A t \in Troubles : Source(t.kind) \in deaf \/ Overlooked(t) \/ Reported(t)

\* The client cannot see which commands failed, but it can see raw_evidence: what a
\* source shown as seen would tell of, and no finding does, was well at some time.
\* The failover messages of the log have no such evidence.
SeenMeansChecked ==
  phase = "done" =>
    \A t \in Troubles : Source(t.kind) \in evidence => Overlooked(t) \/ Reported(t)

\* The topology reported was the queue manager's at some time, or a reply named it, as
\* any text at all names a cluster; and if every probe was answered, no kind that it was
\* all the time outranks it.  Failed probes can hide a kind, down to the last resort,
\* STANDALONE, and an error message can name one.
TopologyJustified ==
  phase # "detect" =>
    /\ \/ topology = "STANDALONE"
       \/ \E owner \in {"topology", "named"} : Fact(owner, topology, "qm") \in ever
    /\ probed => \A t \in always : t.owner = "topology" => Rank(topology) <= Rank(t.kind)

\* Of a queue manager on another host the shell commands learn nothing: the RDQM tool
\* finds no trouble whatever its state, the multi-instance tool none but the failovers
\* MQ itself tells of; and no such source is shown as seen.
RemoteUnseen ==
  ~local =>
    /\ evidence \cap Shell = {}
    /\ tool = "rdqm" => findings = {}
    /\ tool = "miqm" => \A f \in findings : f.kind = "failover"

\* Every finding cites at least one document, whatever was learnt of the version, and
\* one of another version only if the registry has none for this one.
FindingsCited ==
  \A f \in findings :
    /\ f.doc_refs # {}
    /\ \A d \in f.doc_refs :
         \/ version = None
         \/ MajorMinor(version) \in d.mq_versions
         \/ MajorMinor(version) \notin Versions(d.topic)
=============================================================================
