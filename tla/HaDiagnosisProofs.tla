-------------------------- MODULE HaDiagnosisProofs --------------------------
(***************************************************************************)
(* What HaDiagnosis promises for any systems, any other host and any       *)
(* number of changes and faults.                                           *)
(***************************************************************************)
EXTENDS HaDiagnosis, FiniteSetTheorems, TLAPS

\* A registry lookup gives something, and of another version only for want of better.
LEMMA LookupCites ==
  ASSUME NEW topic, NEW v
  PROVE  /\ Lookup(topic, v) # {}
         /\ \A d \in Lookup(topic, v) :
              v = None \/ MajorMinor(v) \in d.mq_versions \/ MajorMinor(v) \notin Versions(d.topic)
<1>1. Refs(topic) # {} /\ \A d \in Refs(topic) : d.mq_versions = Versions(d.topic)
  BY DEF Refs
<1> DEFINE fit == {r \in Refs(topic) : v # None /\ MajorMinor(v) \in r.mq_versions}
<1>2. Lookup(topic, v) = IF fit = {} THEN Refs(topic) ELSE fit
  BY DEF Lookup, FilterVersion
<1>3. CASE fit = {}
  BY <1>1, <1>2, <1>3
<1>4. CASE fit # {}
  BY <1>2, <1>4
<1> QED
  BY <1>3, <1>4

\* There are findings only at the end, and each cites what a lookup gave.
CitedInv ==
  /\ phase # "done" => findings = {}
  /\ \A f \in findings : \E topic : f.doc_refs = Lookup(topic, version)

LEMMA CitedStep == CitedInv /\ [Next]_vars => CitedInv'
<1> SUFFICES ASSUME CitedInv, [Next]_vars PROVE CitedInv'
  OBVIOUS
<1>1. CASE UNCHANGED <<version, findings, phase>>
  BY <1>1 DEF CitedInv
<1>2. CASE Detected
  BY <1>2 DEF CitedInv, Detected
<1>3. CASE Matched
  <2>1. \A f \in findings' : \E topic : f.doc_refs = Lookup(topic, version)
    BY <1>3 DEF Matched
  <2> QED
    BY <1>3, <2>1 DEF CitedInv, Matched
<1> QED
  BY <1>1, <1>2, <1>3 DEF Next, SystemChanges, Break, Answered, Raised, Complained, Fails, Hear,
     vars, systemVars, reportVars

\* No report leaves a finding without a document, or cites one of another version
\* while the registry has one of this.
THEOREM HaFindingsCited == Spec => []FindingsCited
<1>1. Init => CitedInv
  BY DEF Init, CitedInv
<1>2. CitedInv => FindingsCited
  <2> SUFFICES ASSUME CitedInv, NEW f \in findings
               PROVE  /\ f.doc_refs # {}
                      /\ \A d \in f.doc_refs :
                           \/ version = None
                           \/ MajorMinor(version) \in d.mq_versions
                           \/ MajorMinor(version) \notin Versions(d.topic)
    BY DEF FindingsCited
  <2>1. PICK topic : f.doc_refs = Lookup(topic, version)
    BY DEF CitedInv
  <2> QED
    BY <2>1, LookupCites
<1> QED
  BY <1>1, <1>2, CitedStep, PTL DEF Spec
-----------------------------------------------------------------------------
\* A shell command of a server on another host has no reply.
SilentInv ==
  /\ local \in BOOLEAN
  /\ DOMAIN heard = AllCommands
  /\ ~local => \A c \in Shell : heard[c] = NoReply

RemoteInv == SilentInv /\ RemoteUnseen

LEMMA RemoteInit == Init => RemoteInv
BY DEF Init, RemoteInv, SilentInv, RemoteUnseen, Silence, Shell, AllCommands

\* Without replies the RDQM matcher is silent.
LEMMA RdqmSilent ==
  MatchRdqm(ParseRdqmstatus(NoReply), ParseCrmMon(NoReply), ParseDrbd(NoReply)) = {}
<1>1. ParseRdqmstatus(NoReply) = {} /\ ParseDrbd(NoReply) = {}
  BY RepliesAssumption DEF ParseRdqmstatus, ParseDrbd, Rowless
<1>2. ParseCrmMon(NoReply) = [online |-> {}, offline |-> {}, failed |-> {}]
  BY DEF ParseCrmMon, Rowless
<1>3. TotalNodes(ParseCrmMon(NoReply)) = 0
  BY <1>2, FS_EmptySet DEF TotalNodes
<1> DEFINE pace == ParseCrmMon(NoReply)
<1>4. CheckPacemakerQuorum(pace) = {}
  BY <1>3 DEF CheckPacemakerQuorum
<1>5. CheckOfflineNodes(pace) = {} /\ CheckFailedResources(pace) = {}
  BY <1>2 DEF CheckOfflineNodes, CheckFailedResources
<1>6. /\ CheckDrbdSplitBrain({}) = {} /\ CheckDrbdConnection({}) = {}
      /\ CheckDrbdDiskState({}) = {} /\ CheckRdqmNoRunningNode({}) = {}
  BY DEF CheckDrbdSplitBrain, CheckDrbdConnection, CheckDrbdDiskState, CheckRdqmNoRunningNode
<1> QED
  BY <1>1, <1>4, <1>5, <1>6 DEF MatchRdqm

\* Without replies of dspmq the multi-instance matcher has only the log to go by.
LEMMA MiqmSilent ==
  ASSUME NEW log_tail,
         NEW f \in MatchMiqm(ParseInstances(NoReply), StandbyPermitted(NoReply), log_tail)
  PROVE  f.kind = "failover"
<1>1. ParseInstances(NoReply) = {}
  BY DEF ParseInstances, Rows, Rowless
<1>2. Actives({}) = {}
  BY DEF Actives
<1>3. Cardinality(Actives({})) = 0
  BY <1>2, FS_EmptySet
<1> QED
  BY <1>1, <1>3 DEF MatchMiqm, CheckNoActive, CheckStandbyPermission, CheckDualActive,
     CheckFailoverHistory, Finding, FindingOn

\* Without a reply no source is shown as seen.
LEMMA SilentUnseen ==
  ASSUME NEW c \in Shell, heard[c] = NoReply
  PROVE  c \notin Evidence
<1>1. ParseRdqmstatus(NoReply) = {} /\ ParseDrbd(NoReply) = {} /\ Rows(NoReply) = {}
  BY RepliesAssumption DEF ParseRdqmstatus, ParseDrbd, Rows, Rowless
<1>2. TotalNodes(ParseCrmMon(NoReply)) = 0
  BY FS_EmptySet DEF TotalNodes, ParseCrmMon, Rowless
<1>3. ~StandbyPermitted(NoReply)
  BY <1>1 DEF StandbyPermitted
<1>4. CASE c = "rdqmstatus"
  BY <1>1, <1>4 DEF Evidence
<1>5. CASE c = "crm_mon"
  BY <1>2, <1>5 DEF Evidence
<1>6. CASE c = "drbdadm"
  BY <1>1, <1>6 DEF Evidence
<1>7. CASE c = "standby"
  BY <1>3, <1>7 DEF Evidence
<1>8. CASE c = "dspmq_x"
  BY <1>1, <1>8 DEF Evidence
<1> QED
  BY <1>4, <1>5, <1>6, <1>7, <1>8 DEF Shell

LEMMA SilentStep == SilentInv /\ [Next]_vars => SilentInv'
<1> SUFFICES ASSUME SilentInv, [Next]_vars PROVE SilentInv'
  OBVIOUS
<1>1. CASE SystemChanges \/ Break \/ Matched \/ UNCHANGED vars
  BY <1>1 DEF SilentInv, SystemChanges, Break, Matched, vars
<1>2. CASE Answered
  <2>1. PICK reply \in Replies(Head(todo)) : Hear(reply)
    BY <1>2 DEF Answered
  <2>2. ~local => Head(todo) \notin Shell
    BY <2>1 DEF Replies
  <2> QED
    BY <2>1, <2>2 DEF SilentInv, Hear
<1>3. CASE Raised
  BY <1>3 DEF SilentInv, Raised, Fails, Hear
<1>4. CASE \E complaint \in Complaints : Complained(complaint)
  <2>1. PICK complaint : Hear(complaint) /\ Replies(Head(todo)) # {}
    BY <1>4 DEF Complained, Fails
  <2>2. ~local => Head(todo) \notin Shell
    BY <2>1 DEF Replies
  <2> QED
    BY <2>1, <2>2 DEF SilentInv, Hear
<1>5. CASE Detected
  BY <1>5 DEF SilentInv, Detected, Silence, Shell, AllCommands
<1> QED
  BY <1>1, <1>2, <1>3, <1>4, <1>5 DEF Next

LEMMA RemoteStep == RemoteInv /\ [Next]_vars => RemoteInv'
<1> SUFFICES ASSUME RemoteInv, [Next]_vars PROVE RemoteInv'
  OBVIOUS
<1>1. SilentInv'
  BY SilentStep DEF RemoteInv
<1>2. CASE Matched
  <2> SUFFICES ASSUME ~local'
               PROVE  /\ evidence' \cap Shell = {}
                      /\ tool' = "rdqm" => findings' = {}
                      /\ tool' = "miqm" => \A f \in findings' : f.kind = "failover"
    BY <1>1 DEF RemoteInv, RemoteUnseen
  <2>1. \A c \in Shell : heard[c] = NoReply
    BY <1>2 DEF RemoteInv, SilentInv, Matched
  <2>2. evidence' \cap Shell = {}
    BY <1>2, <2>1, SilentUnseen DEF Matched
  <2>3. ASSUME tool' = "rdqm" PROVE findings' = {}
    <3>1. Match = {}
      BY <1>2, <2>1, <2>3, RdqmSilent DEF Match, Matched, Shell
    <3> QED
      BY <1>2, <3>1 DEF Matched
  <2>4. ASSUME tool' = "miqm" PROVE \A f \in findings' : f.kind = "failover"
    <3>1. \A f \in Match : f.kind = "failover"
      BY <1>2, <2>1, <2>4, MiqmSilent DEF Match, Matched, Shell
    <3> QED
      BY <1>2, <3>1 DEF Matched
  <2> QED
    BY <2>2, <2>3, <2>4
<1>3. CASE UNCHANGED <<local, tool, findings, evidence>>
  BY <1>1, <1>3 DEF RemoteInv, RemoteUnseen
<1> QED
  BY <1>2, <1>3 DEF Next, SystemChanges, Break, Answered, Raised, Complained, Fails, Hear,
     Detected, vars, reportVars

\* execute_shell's host check, whatever the other host would have answered: no trouble
\* of it is taken for one of the queue manager's.
THEOREM HaRemoteUnseen == Spec => []RemoteUnseen
<1>1. RemoteInv => RemoteUnseen
  BY DEF RemoteInv
<1> QED
  BY RemoteInit, RemoteStep, <1>1, PTL DEF Spec
-----------------------------------------------------------------------------
\* The kinds a reply can indicate.
Kinds == {"ZOS_QSG", "NATIVE_HA", "RDQM", "MULTI_INSTANCE", "UNIFORM_CLUSTER",
          "TRADITIONAL_CLUSTER"}

\* The ranks of _classify's order.
LEMMA Ranks ==
  /\ Rank("ZOS_QSG") = 1 /\ Rank("NATIVE_HA") = 2 /\ Rank("RDQM") = 3
  /\ Rank("MULTI_INSTANCE") = 4 /\ Rank("UNIFORM_CLUSTER") = 5
  /\ Rank("TRADITIONAL_CLUSTER") = 6 /\ Rank("STANDALONE") = 7
BY DEF Rank, Ranking

\* _classify gives a kind that is indicated, and none that is indicated outranks it.
LEMMA ClassifyFirst ==
  ASSUME NEW S \in SUBSET Kinds
  PROVE  /\ Classify(S) \in S \cup {"STANDALONE"}
         /\ \A u \in S : Rank(Classify(S)) <= Rank(u)
<1>1. \E t \in S \cup {"STANDALONE"} : \A u \in S : Rank(t) <= Rank(u)
  BY Ranks DEF Kinds
<1> QED
  BY <1>1 DEF Classify

\* The tools' facts are not about the topology.
LEMMA TopologyFactsApart ==
  ASSUME NEW v, NEW t \in Facts(v), t.owner = "topology"
  PROVE  t \in TopologyFacts(v)
<1>1. \A f \in NativeHaFacts(v.nativehastatus, v.recoverygroup) : f.owner = "native_ha"
  BY DEF NativeHaFacts, Group, Fact
<1>2. \A crm : \A f \in PacemakerFacts(crm) : f.owner = "rdqm"
  BY DEF PacemakerFacts, Group, Fact
<1>3. \A drbd : \A f \in DrbdFacts(drbd) : f.owner = "rdqm"
  BY DEF DrbdFacts, Fact
<1>4. \A f \in RdqmFacts(v) : f.owner = "rdqm"
  BY <1>2, <1>3 DEF RdqmFacts, Group, Fact
<1>5. \A f \in MiqmFacts(v) : f.owner = "miqm"
  BY DEF MiqmFacts, Group, Fact
<1>6. \A f \in ZosFacts(v) : f.owner = "zos"
  BY DEF ZosFacts, Group, Fact
<1> QED
  BY <1>1, <1>4, <1>5, <1>6 DEF Facts

\* What a fact about the topology says of the view.
LEMMA TopologyFactMeans ==
  ASSUME NEW v, NEW t \in TopologyFacts(v), t.owner = "topology"
  PROVE  \/ t.kind = "ZOS_QSG" /\ v.platform \in ZosPlatforms
         \/ t.kind = "NATIVE_HA" /\ v.nativehastatus # {}
         \/ t.kind = "RDQM" /\ v.rdqmstatus # NoReply /\ v.rdqmstatus.nodes
         \/ t.kind = "MULTI_INSTANCE" /\ Rows(v.standby) # {}
         \/ t.kind = "TRADITIONAL_CLUSTER" /\ Rows(v.clusqmgr) # {}
BY DEF TopologyFacts, Fact, Own

\* A reply that indicates a kind comes from a view of which it was true, or that named it.
LEMMA ViewShows ==
  ASSUME NEW v
  PROVE  /\ v.platform \in ZosPlatforms => Fact("topology", "ZOS_QSG", "qm") \in Facts(v)
         /\ v.qmstatus.nativeha # None => Fact("named", "NATIVE_HA", "qm") \in Facts(v)
         /\ v.rdqmstatus # NoReply /\ v.rdqmstatus.nodes =>
              Fact("topology", "RDQM", "qm") \in Facts(v)
         /\ Rows(v.standby) # {} => Fact("named", "MULTI_INSTANCE", "qm") \in Facts(v)
         /\ "UNIFORM" \in Rows(v.clusqmgr) => Fact("named", "UNIFORM_CLUSTER", "qm") \in Facts(v)
         /\ v.clusqmgr # {} => Fact("named", "TRADITIONAL_CLUSTER", "qm") \in Facts(v)
BY DEF TopologyFacts, Facts

\* What an error message names.
LEMMA ComplaintNames ==
  ASSUME NEW complaint
  PROVE  /\ complaint \in Naming =>
              /\ Fact("named", "RDQM", "qm") \in NamedBy("rdqmstatus", complaint)
              /\ Fact("named", "MULTI_INSTANCE", "qm") \in NamedBy("standby", complaint)
         /\ Fact("named", "TRADITIONAL_CLUSTER", "qm") \in NamedBy("clusqmgr", complaint)
BY DEF NamedBy

\* A reply that was shown by some system of which everything is in ever.
Witnessed(c) ==
  \E v \in UNION Systems : heard[c] = v[c] /\ Facts(v) \subseteq ever

\* An error message, of which what it names is in ever.
Complaining(c) == heard[c] \in Complaints /\ NamedBy(c, heard[c]) \subseteq ever

\* A reply shown by a system of which everything in always was true.
Current(c) ==
  \E v \in UNION Systems : heard[c] = v[c] /\ always \subseteq Facts(v)

ProbeSet == {Probes[i] : i \in 1 .. Len(Probes)}

Pending == {todo[i] : i \in 1 .. Len(todo)}

ViewInv ==
  /\ view \in UNION Systems
  /\ Facts(view) \subseteq ever
  /\ always \subseteq Facts(view)

HeardInv ==
  phase = "detect" =>
    /\ todo \in Seq(AllCommands)
    /\ DOMAIN heard = AllCommands
    /\ \A c \in AllCommands : heard[c] = NoReply \/ Witnessed(c) \/ Complaining(c)
    /\ \A c \in ProbeSet : c \in Pending \/ c \in deaf \/ Current(c)

TopologyInv ==
  /\ tool \in Tools
  /\ phase = "collect" => todo \in Seq(AllCommands)
  /\ ViewInv
  /\ HeardInv
  /\ TopologyJustified

LEMMA ProbesCommands ==
  /\ Probes \in Seq(AllCommands)
  /\ ProbeSet = {"version", "platform", "qmstatus", "rdqmstatus", "standby", "clusqmgr"}
  /\ \A t \in Tools : Commands(t) \in Seq(AllCommands)
<1>1. Probes \in Seq(AllCommands)
  BY DEF Probes, AllCommands, Shell
<1>2. ProbeSet = {"version", "platform", "qmstatus", "rdqmstatus", "standby", "clusqmgr"}
  BY DEF ProbeSet, Probes
<1>3. \A t \in Tools : Commands(t) \in Seq(AllCommands)
  <2> SUFFICES ASSUME NEW t \in Tools PROVE Commands(t) \in Seq(AllCommands)
    OBVIOUS
  <2>1. CASE t = "native_ha"
    BY <2>1 DEF Commands, AllCommands, Shell
  <2>2. CASE t = "rdqm"
    BY <2>2 DEF Commands, AllCommands, Shell
  <2>3. CASE t = "miqm"
    BY <2>3 DEF Commands, AllCommands, Shell
  <2>4. CASE t = "zos"
    BY <2>4 DEF Commands, AllCommands, Shell
  <2> QED
    BY <2>1, <2>2, <2>3, <2>4 DEF Tools
<1> QED
  BY <1>1, <1>2, <1>3

\* Whatever the replies indicate was true of the queue manager, or named.
LEMMA IndicatedSeen ==
  ASSUME HeardInv, phase = "detect", NEW t \in Indicated(heard)
  PROVE  \E owner \in {"topology", "named"} : Fact(owner, t, "qm") \in ever
<1>1. t \in Kinds
  BY DEF Indicated, Kinds
<1>2. \A c \in AllCommands : heard[c] \notin Rowless =>
        \E v \in UNION Systems : heard[c] = v[c] /\ Facts(v) \subseteq ever
  BY DEF HeardInv, Witnessed, Complaining, Rowless
<1>3. CASE t = "ZOS_QSG"
  <2>1. heard["platform"] \in ZosPlatforms
    BY <1>3 DEF Indicated
  <2>2. PICK v \in UNION Systems : heard["platform"] = v["platform"] /\ Facts(v) \subseteq ever
    BY <1>2, <2>1, RepliesAssumption DEF AllCommands, Rowless
  <2> QED
    BY <1>3, <2>1, <2>2, ViewShows
<1>4. CASE t = "NATIVE_HA"
  <2>1. heard["qmstatus"] \notin Rowless /\ heard["qmstatus"].nativeha # None
    BY <1>4 DEF Indicated
  <2>2. PICK v \in UNION Systems : heard["qmstatus"] = v["qmstatus"] /\ Facts(v) \subseteq ever
    BY <1>2, <2>1 DEF AllCommands
  <2> QED
    BY <1>4, <2>1, <2>2, ViewShows
<1>5. CASE t = "RDQM" /\ heard["rdqmstatus"] \notin Rowless
  <2>1. heard["rdqmstatus"].nodes
    BY <1>5, RepliesAssumption DEF Indicated, Rowless
  <2>2. PICK v \in UNION Systems : heard["rdqmstatus"] = v["rdqmstatus"] /\ Facts(v) \subseteq ever
    BY <1>2, <1>5 DEF AllCommands, Shell
  <2> QED
    BY <1>5, <2>1, <2>2, ViewShows DEF Rowless
<1>6. CASE t = "MULTI_INSTANCE" /\ heard["standby"] \notin Rowless
  <2>1. Rows(heard["standby"]) # {}
    BY <1>6, RepliesAssumption DEF Indicated, Rowless
  <2>2. PICK v \in UNION Systems : heard["standby"] = v["standby"] /\ Facts(v) \subseteq ever
    BY <1>2, <1>6 DEF AllCommands, Shell
  <2> QED
    BY <1>6, <2>1, <2>2, ViewShows
<1>7. CASE /\ t \in {"UNIFORM_CLUSTER", "TRADITIONAL_CLUSTER"}
           /\ heard["clusqmgr"] \notin Rowless
  <2>1. /\ t = "UNIFORM_CLUSTER" => "UNIFORM" \in Rows(heard["clusqmgr"])
        /\ t = "TRADITIONAL_CLUSTER" => heard["clusqmgr"] # {}
    BY <1>7 DEF Indicated
  <2>2. PICK v \in UNION Systems : heard["clusqmgr"] = v["clusqmgr"] /\ Facts(v) \subseteq ever
    BY <1>2, <1>7 DEF AllCommands
  <2> QED
    BY <1>7, <2>1, <2>2, ViewShows
<1>8. CASE t = "RDQM" /\ heard["rdqmstatus"] \in Rowless
  <2>1. heard["rdqmstatus"] \in Naming
    BY <1>8 DEF Indicated
  <2>2. heard["rdqmstatus"] # NoReply /\ ~Witnessed("rdqmstatus")
    BY <2>1, RepliesAssumption, SystemsAssumption DEF Witnessed, AllCommands, Shell
  <2>3. Complaining("rdqmstatus")
    BY <2>2 DEF HeardInv, AllCommands, Shell
  <2> QED
    BY <1>8, <2>1, <2>3, ComplaintNames DEF Complaining
<1>9. CASE t = "MULTI_INSTANCE" /\ heard["standby"] \in Rowless
  <2>1. heard["standby"] \in Naming
    BY <1>9 DEF Indicated, Rows
  <2>2. heard["standby"] # NoReply /\ ~Witnessed("standby")
    BY <2>1, RepliesAssumption, SystemsAssumption DEF Witnessed, AllCommands, Shell
  <2>3. Complaining("standby")
    BY <2>2 DEF HeardInv, AllCommands, Shell
  <2> QED
    BY <1>9, <2>1, <2>3, ComplaintNames DEF Complaining
<1>10. CASE /\ t \in {"UNIFORM_CLUSTER", "TRADITIONAL_CLUSTER"}
            /\ heard["clusqmgr"] \in Rowless
  <2>1. t = "TRADITIONAL_CLUSTER" /\ heard["clusqmgr"] \notin {NoReply, {}}
    BY <1>10 DEF Indicated, Rows
  <2>2. Witnessed("clusqmgr") \/ Complaining("clusqmgr")
    BY <2>1 DEF HeardInv, AllCommands
  <2>3. CASE Witnessed("clusqmgr")
    BY <2>1, <2>3, ViewShows DEF Witnessed
  <2>4. CASE Complaining("clusqmgr")
    BY <2>1, <2>4, ComplaintNames DEF Complaining
  <2> QED
    BY <2>2, <2>3, <2>4
<1> QED
  BY <1>1, <1>3, <1>4, <1>5, <1>6, <1>7, <1>8, <1>9, <1>10 DEF Kinds

\* With every probe answered, what the queue manager was all the time is indicated.
LEMMA LastingIndicated ==
  ASSUME HeardInv, phase = "detect", todo = <<>>, deaf = {},
         NEW t \in always, t.owner = "topology"
  PROVE  t.kind \in Indicated(heard)
<1>1. \A c \in ProbeSet : Current(c)
  BY DEF HeardInv, Pending
<1>2. \A c \in ProbeSet :
        \E v \in UNION Systems : heard[c] = v[c] /\ t \in TopologyFacts(v)
  BY <1>1, TopologyFactsApart DEF Current
<1>3. CASE t.kind = "ZOS_QSG"
  <2>1. PICK v \in UNION Systems : heard["platform"] = v["platform"] /\ t \in TopologyFacts(v)
    BY <1>2, ProbesCommands
  <2> QED
    BY <1>3, <2>1, TopologyFactMeans DEF Indicated
<1>4. CASE t.kind = "NATIVE_HA"
  <2>1. PICK v \in UNION Systems : heard["qmstatus"] = v["qmstatus"] /\ t \in TopologyFacts(v)
    BY <1>2, ProbesCommands
  <2>2. v.qmstatus \notin Rowless /\ v.qmstatus.nativeha # None
    BY <1>4, <2>1, TopologyFactMeans, SystemsAssumption DEF AllCommands, Shell, Rowless
  <2> QED
    BY <1>4, <2>1, <2>2 DEF Indicated
<1>5. CASE t.kind = "RDQM"
  <2>1. PICK v \in UNION Systems : heard["rdqmstatus"] = v["rdqmstatus"] /\ t \in TopologyFacts(v)
    BY <1>2, ProbesCommands
  <2>2. v["rdqmstatus"] \notin Complaints
    BY SystemsAssumption DEF AllCommands, Shell
  <2> QED
    BY <1>5, <2>1, <2>2, TopologyFactMeans DEF Indicated, Rowless
<1>6. CASE t.kind = "MULTI_INSTANCE"
  <2>1. PICK v \in UNION Systems : heard["standby"] = v["standby"] /\ t \in TopologyFacts(v)
    BY <1>2, ProbesCommands
  <2> QED
    BY <1>6, <2>1, TopologyFactMeans DEF Indicated
<1>7. CASE t.kind = "TRADITIONAL_CLUSTER"
  <2>1. PICK v \in UNION Systems : heard["clusqmgr"] = v["clusqmgr"] /\ t \in TopologyFacts(v)
    BY <1>2, ProbesCommands
  <2>2. v["clusqmgr"] \notin {NoReply, {}}
    BY <1>7, <2>1, TopologyFactMeans DEF Rows, Rowless
  <2> QED
    BY <1>7, <2>1, <2>2 DEF Indicated
<1> QED
  <2>1. \E v : t \in TopologyFacts(v)
    BY <1>2, ProbesCommands
  <2> QED
    BY <2>1, <1>3, <1>4, <1>5, <1>6, <1>7, TopologyFactMeans

LEMMA TopologyInit == Init => TopologyInv
<1> SUFFICES ASSUME Init PROVE TopologyInv
  OBVIOUS
<1>1. ViewInv
  BY DEF Init, ViewInv
<1>2. HeardInv
  <2>1. todo = Probes /\ Pending = ProbeSet
    BY DEF Init, Pending, ProbeSet
  <2> QED
    BY <2>1, ProbesCommands DEF Init, HeardInv, Silence
<1>3. TopologyJustified
  BY DEF Init, TopologyJustified
<1> QED
  BY <1>1, <1>2, <1>3 DEF Init, TopologyInv

\* What is left to be sent after a step.
LEMMA PendingTail ==
  ASSUME todo \in Seq(AllCommands), todo # <<>>, todo' = Tail(todo)
  PROVE  /\ todo' \in Seq(AllCommands)
         /\ Head(todo) \in AllCommands
         /\ Pending \subseteq {Head(todo)} \cup Pending'
<1>1. Len(todo) \in Nat \ {0}
  OBVIOUS
<1>2. \A i \in 1 .. Len(todo) : 
        i = 1 \/ (todo[i] = Tail(todo)[i - 1] /\ i - 1 \in 1 .. Len(Tail(todo)))
  BY <1>1
<1>3. todo[1] = Head(todo)
  OBVIOUS
<1> QED
  BY <1>2, <1>3 DEF Pending

\* A command that is sent in the detection.
LEMMA HearKeeps ==
  ASSUME TopologyInv, NEW reply, Hear(reply),
         reply \in {NoReply, view[Head(todo)]} \cup Complaints, ever \subseteq ever',
         reply \in Complaints /\ reply # view[Head(todo)] =>
           NamedBy(Head(todo), reply) \subseteq ever',
         deaf \subseteq deaf', reply # view[Head(todo)] => Head(todo) \in deaf'
  PROVE  TopologyInv'
<1>1. ViewInv' /\ TopologyJustified'
  BY DEF TopologyInv, Hear, ViewInv, TopologyJustified, reportVars
<1>2. phase' = "collect" => todo' \in Seq(AllCommands)
  BY PendingTail DEF TopologyInv, Hear
<1>3. ASSUME phase = "detect"
      PROVE  HeardInv'
  <2>1. /\ todo \in Seq(AllCommands) /\ DOMAIN heard = AllCommands
        /\ todo # <<>> /\ todo' = Tail(todo)
    BY <1>3 DEF TopologyInv, HeardInv, Hear
  <2>2. /\ todo' \in Seq(AllCommands) /\ Head(todo) \in AllCommands
        /\ Pending \subseteq {Head(todo)} \cup Pending'
    BY <2>1, PendingTail
  <2> PICK h \in AllCommands : h = Head(todo)
    BY <2>2
  <2>3. /\ DOMAIN heard' = AllCommands
        /\ heard'[h] = reply
        /\ \A c \in AllCommands \ {h} : heard'[c] = heard[c]
    BY <2>1, <2>2 DEF Hear
  <2>4. UNCHANGED <<view, always>>
    BY DEF Hear
  <2>5. ASSUME NEW c \in AllCommands \ {h}
        PROVE  /\ Witnessed(c) => Witnessed(c)'
               /\ Complaining(c) => Complaining(c)'
               /\ Current(c) => Current(c)'
    BY <2>3, <2>4, <2>5 DEF Witnessed, Current, Complaining
  <2>6. ASSUME reply = view[h]
        PROVE  Witnessed(h)' /\ Current(h)'
    BY <2>3, <2>4, <2>6 DEF TopologyInv, ViewInv, Witnessed, Current
  <2>7. reply \in Complaints /\ reply # view[h] => Complaining(h)'
    BY <2>3 DEF Complaining
  <2>8. \A c \in AllCommands : heard'[c] = NoReply \/ Witnessed(c)' \/ Complaining(c)'
    BY <1>3, <2>3, <2>5, <2>6, <2>7 DEF TopologyInv, HeardInv
  <2>9. \A c \in ProbeSet : c \in Pending' \/ c \in deaf' \/ Current(c)'
    <3> SUFFICES ASSUME NEW c \in ProbeSet PROVE c \in Pending' \/ c \in deaf' \/ Current(c)'
      OBVIOUS
    <3>1. c \in AllCommands
      BY ProbesCommands DEF AllCommands, Shell
    <3> QED
      BY <1>3, <2>2, <2>5, <2>6, <3>1 DEF TopologyInv, HeardInv
  <2> QED
    BY <2>2, <2>3, <2>8, <2>9 DEF HeardInv, ProbeSet
<1>4. tool' \in Tools
  BY DEF TopologyInv, Hear
<1> QED
  BY <1>1, <1>2, <1>3, <1>4 DEF TopologyInv, HeardInv, Hear

\* What was heard stays as it is while more becomes true.
LEMMA HeardStays ==
  ASSUME HeardInv, UNCHANGED <<phase, todo, heard, deaf>>, ever \subseteq ever',
         always' \subseteq always
  PROVE  HeardInv'
<1>1. \A c : Witnessed(c) => Witnessed(c)'
  BY DEF Witnessed
<1>2. \A c : Complaining(c) => Complaining(c)'
  BY DEF Complaining
<1>3. \A c : Current(c) => Current(c)'
  BY DEF Current
<1> SUFFICES ASSUME phase = "detect"
             PROVE  /\ todo' \in Seq(AllCommands)
                    /\ DOMAIN heard' = AllCommands
                    /\ \A c \in AllCommands :
                         heard'[c] = NoReply \/ Witnessed(c)' \/ Complaining(c)'
                    /\ \A c \in ProbeSet : c \in Pending' \/ c \in deaf' \/ Current(c)'
  BY DEF HeardInv, ProbeSet
<1>4. \A c \in AllCommands : heard'[c] = NoReply \/ Witnessed(c)' \/ Complaining(c)'
  BY <1>1, <1>2 DEF HeardInv
<1>5. Pending' = Pending
  BY DEF Pending
<1>6. \A c \in ProbeSet : c \in Pending' \/ c \in deaf' \/ Current(c)'
  BY <1>3, <1>5 DEF HeardInv
<1> QED
  BY <1>4, <1>6 DEF HeardInv

LEMMA TopologyStep == TopologyInv /\ [Next]_vars => TopologyInv'
<1> SUFFICES ASSUME TopologyInv, [Next]_vars PROVE TopologyInv'
  OBVIOUS
<1>1. CASE SystemChanges
  <2>1. ViewInv'
    BY <1>1 DEF TopologyInv, ViewInv, SystemChanges
  <2>2. /\ ever \subseteq ever' /\ always' \subseteq always
        /\ UNCHANGED <<tool, phase, todo, heard, deaf>>
    BY <1>1 DEF SystemChanges
  <2>3. HeardInv'
    BY <2>2, HeardStays DEF TopologyInv
  <2>4. TopologyJustified'
    BY <1>1, <2>2 DEF TopologyInv, TopologyJustified, SystemChanges, reportVars
  <2> QED
    BY <2>1, <2>2, <2>3, <2>4 DEF TopologyInv
<1>2. CASE Break \/ UNCHANGED vars
  <2>1. UNCHANGED <<view, ever, always, tool, phase, todo, heard, deaf, topology, probed>>
    BY <1>2 DEF Break, vars, systemVars, reportVars
  <2>2. HeardInv'
    BY <2>1, HeardStays DEF TopologyInv
  <2> QED
    BY <2>1, <2>2 DEF TopologyInv, ViewInv, TopologyJustified
<1>3. CASE Answered
  <2>1. PICK reply \in Replies(Head(todo)) : Hear(reply) /\ UNCHANGED <<deaf, ever>>
    BY <1>3 DEF Answered
  <2>2. reply = view[Head(todo)]
    BY DEF Replies
  <2> QED
    BY <2>1, <2>2, HearKeeps
<1>4. CASE Raised
  <2>1. Hear(NoReply) /\ deaf' = deaf \cup {Head(todo)} /\ ever' = ever
    BY <1>4 DEF Raised, Fails
  <2> QED
    BY <2>1, RepliesAssumption, HearKeeps
<1>5. CASE \E complaint \in Complaints : Complained(complaint)
  <2>1. PICK complaint \in Complaints :
          /\ Hear(complaint) /\ deaf' = deaf \cup {Head(todo)}
          /\ ever' = ever \cup NamedBy(Head(todo), complaint)
    BY <1>5 DEF Complained, Fails
  <2> QED
    BY <2>1, HearKeeps
<1>6. CASE Detected
  <2>1. /\ phase = "detect" /\ todo = <<>> /\ phase' = "collect"
        /\ topology' = Classify(Indicated(heard)) /\ probed' = (deaf = {})
        /\ UNCHANGED <<view, ever, always, tool>> /\ todo' = Commands(tool)
    BY <1>6 DEF Detected, systemVars
  <2>2. HeardInv
    BY DEF TopologyInv
  <2>3. Indicated(heard) \in SUBSET Kinds
    BY DEF Indicated, Kinds
  <2>4. \/ topology' = "STANDALONE"
        \/ \E owner \in {"topology", "named"} : Fact(owner, topology', "qm") \in ever'
    BY <2>1, <2>2, <2>3, ClassifyFirst, IndicatedSeen
  <2>5. ASSUME probed', NEW t \in always', t.owner = "topology"
        PROVE  Rank(topology') <= Rank(t.kind)
    <3>1. t.kind \in Indicated(heard)
      BY <2>1, <2>2, <2>5, LastingIndicated
    <3> QED
      BY <2>1, <2>3, <3>1, ClassifyFirst
  <2>6. TopologyJustified'
    BY <2>4, <2>5 DEF TopologyJustified, Rank
  <2>7. ViewInv' /\ HeardInv'
    BY <2>1 DEF TopologyInv, ViewInv, HeardInv
  <2>8. todo' \in Seq(AllCommands)
    BY <2>1, ProbesCommands DEF TopologyInv
  <2> QED
    BY <2>1, <2>6, <2>7, <2>8 DEF TopologyInv
<1>7. CASE Matched
  <2>1. /\ phase' = "done" /\ phase = "collect"
        /\ UNCHANGED <<view, ever, always, tool, topology, probed>>
    BY <1>7 DEF Matched, systemVars
  <2> QED
    BY <2>1 DEF TopologyInv, ViewInv, HeardInv, TopologyJustified
<1> QED
  BY <1>1, <1>2, <1>3, <1>4, <1>5, <1>6, <1>7 DEF Next

\* detect() reports no topology that was not there or named, and none that a kind the
\* queue manager always was outranks, for any systems, changes and faults.
THEOREM HaTopologyJustified == Spec => []TopologyJustified
<1>1. TopologyInv => TopologyJustified
  BY DEF TopologyInv
<1> QED
  BY TopologyInit, TopologyStep, <1>1, PTL DEF Spec
=============================================================================
