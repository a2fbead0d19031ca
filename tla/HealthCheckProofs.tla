--------------------------- MODULE HealthCheckProofs ---------------------------
(***************************************************************************)
(* What HealthCheck promises for any queue manager, any messages on its    *)
(* dead-letter queue, any number of changes and any failing commands.      *)
(***************************************************************************)
EXTENDS HealthCheck, FiniteSetTheorems, TLAPS

\* A queue holds finitely many messages, and none if there is no such queue; a
\* browse has its cursor only while it lasts.
TypeInv ==
  /\ TypeOK
  /\ IsFiniteSet(queue) /\ IsFiniteSet(fallback)
  /\ deadq = "none" => queue = {}
  /\ pc # "browse" => ahead = {}

LEMMA TypeInit == Init => TypeInv
<1> SUFFICES ASSUME Init PROVE TypeInv
  OBVIOUS
<1>1. /\ queue \subseteq Messages /\ IsFiniteSet(queue) /\ (deadq = "none" => queue = {})
      /\ fallback \subseteq Messages /\ IsFiniteSet(fallback)
  BY DEF Init
<1>2. changes \in 0 .. MaxChanges
  BY LimitsAssumption DEF Init
<1>3. conn \in {"up", "before", "after"} /\ pc \in Places
  BY DEF Init, Places
<1>4. depth \in Nat /\ taken \in Nat /\ (taken > 0 => taken <= sample)
  BY DEF Init
<1>5. /\ checks_run \subseteq Checks /\ checks_skipped \subseteq Checks
      /\ ahead = {} /\ headers \subseteq Messages
  BY DEF Init
<1>6. /\ target \in {"own", "system", "none"} /\ deadq \in {"own", "system", "none"}
      /\ failed \in BOOLEAN /\ view \in Views /\ sample \in SampleSizes
  BY DEF Init
<1> QED
  BY <1>1, <1>2, <1>3, <1>4, <1>5, <1>6 DEF TypeInv, TypeOK

LEMMA EnvironmentKeepsTypes ==
  ASSUME TypeInv, ViewChanges \/ (\E m \in Messages : Put(m) \/ Get(m)) \/ Break
  PROVE  TypeInv'
<1>1. CASE ViewChanges
  BY <1>1, LimitsAssumption
  DEF TypeInv, TypeOK, Places, Checks, ViewChanges, Witness, toolVars, resultVars, Contents
<1>2. ASSUME NEW m \in Messages, Put(m) PROVE TypeInv'
  <2>1. IsFiniteSet(queue') /\ IsFiniteSet(fallback')
    BY <1>2, FS_AddElement DEF TypeInv, Put
  <2>2. /\ queue' \subseteq Messages /\ fallback' \subseteq Messages
        /\ deadq' = "none" => queue' = {}
    BY <1>2 DEF TypeInv, TypeOK, Put
  <2>3. UNCHANGED <<target, deadq, pc>>
    BY <1>2 DEF Put, toolVars
  <2>4. ahead' \subseteq Contents' /\ (pc' # "browse" => ahead' = {})
    BY <1>2, <2>3 DEF TypeInv, TypeOK, Put, Contents
  <2> QED
    BY <1>2, <2>1, <2>2, <2>4 DEF TypeInv, TypeOK, Put, Witness, toolVars, resultVars
<1>3. ASSUME NEW m \in Messages, Get(m) PROVE TypeInv'
  <2>1. IsFiniteSet(queue') /\ IsFiniteSet(fallback')
    BY <1>3, FS_RemoveElement DEF TypeInv, Get
  <2>2. /\ queue' \subseteq Messages /\ fallback' \subseteq Messages
        /\ deadq' = "none" => queue' = {}
    BY <1>3 DEF TypeInv, TypeOK, Get
  <2>3. UNCHANGED <<target, deadq, pc>>
    BY <1>3 DEF Get, toolVars
  <2>4. ahead' \subseteq Contents' /\ (pc' # "browse" => ahead' = {})
    BY <1>3, <2>3 DEF TypeInv, TypeOK, Get, Contents
  <2> QED
    BY <1>3, <2>1, <2>2, <2>4 DEF TypeInv, TypeOK, Get, Witness, toolVars, resultVars
<1>4. CASE Break
  BY <1>4 DEF TypeInv, TypeOK, Break, toolVars, resultVars, Contents
<1> QED
  BY <1>1, <1>2, <1>3, <1>4

LEMMA CheckKeepsTypes == ASSUME TypeInv, CheckStep PROVE TypeInv'
<1> USE DEF TypeInv, TypeOK, Places, Checks, Contents, qmVars, dlqVars, resultVars, auxVars, Goto
<1>1. ASSUME NEW ok \in BOOLEAN,
             \/ DisplayChstatus(ok) \/ DisplayDeadq(ok)
             \/ DisplayClusqmgr(ok) \/ DisplayRepos(ok)
      PROVE  TypeInv'
  <2>1. CASE DisplayChstatus(ok)
    BY <2>1 DEF DisplayChstatus, Command
  <2>2. CASE DisplayDeadq(ok)
    BY <2>2 DEF DisplayDeadq, Command
  <2>3. CASE DisplayClusqmgr(ok)
    BY <2>3 DEF DisplayClusqmgr, Command
  <2>4. CASE DisplayRepos(ok)
    BY <2>4 DEF DisplayRepos, Command
  <2> QED
    BY <1>1, <2>1, <2>2, <2>3, <2>4
<1>2. ASSUME NEW ok \in BOOLEAN, DisplayQmstatus(ok) \/ DisplayQmname(ok) PROVE TypeInv'
  <2>1. CASE DisplayQmstatus(ok)
    <3>1. checks_run' \subseteq Checks /\ pc' \in Places
      BY <2>1 DEF DisplayQmstatus, Ran
    <3> QED
      BY <2>1, <3>1 DEF DisplayQmstatus, Command, Ran
  <2>2. CASE DisplayQmname(ok)
    <3>1. checks_run' \subseteq Checks /\ pc' \in Places
      BY <2>2 DEF DisplayQmname, Ran
    <3> QED
      BY <2>2, <3>1 DEF DisplayQmname, Command, Ran
  <2> QED
    BY <1>2, <2>1, <2>2
<1>3. ASSUME NEW inquired \in BOOLEAN, OpenQueue(inquired) PROVE TypeInv'
  <2>1. IsFiniteSet(Contents) /\ UNCHANGED Contents
    BY <1>3 DEF OpenQueue
  <2>2. Cardinality(Contents) \in Nat
    BY <2>1, FS_CardinalityType
  <2>3. depth' \in Nat
    BY <1>3, <2>2 DEF OpenQueue
  <2>4. failed' \in BOOLEAN
    BY <1>3 DEF OpenQueue
  <2>5. ahead' \subseteq Contents' /\ pc' = "browse" /\ pc' \in Places
    BY <1>3, <2>1 DEF OpenQueue
  <2>6. /\ view' = view /\ queue' = queue /\ deadq' = deadq /\ fallback' = fallback
        /\ conn' = conn /\ changes' = changes
        /\ sample' = sample /\ target' = target /\ taken' = taken /\ headers' = headers
        /\ checks_run' = checks_run /\ checks_skipped' = checks_skipped
    BY <1>3 DEF OpenQueue
  <2> HIDE DEF Places, Checks, Contents
  <2> QED
    BY <2>3, <2>4, <2>5, <2>6
<1>4. CASE BadSample
  BY <1>4 DEF BadSample, Skipped, DlqForgotten
<1>8. CASE BrowseFails
  BY <1>8 DEF BrowseFails, Skipped, DlqForgotten
<1>5. ASSUME NEW m \in Messages, BrowseNext(m) PROVE TypeInv'
  <2>1. headers' \subseteq Messages /\ ahead' \subseteq Contents /\ UNCHANGED Contents
    BY <1>5 DEF BrowseNext, ParseDlh
  <2>2. sample \in Int /\ taken' \in Nat /\ taken' <= sample
    BY <1>5, LimitsAssumption DEF BrowseNext
  <2> QED
    BY <1>5, <2>1, <2>2 DEF BrowseNext
<1>6. CASE BrowseEnds
  BY <1>6 DEF BrowseEnds, Ran, DlqForgotten
<1>7. CASE Report
  BY <1>7 DEF Report
<1> QED
  BY <1>1, <1>2, <1>3, <1>4, <1>5, <1>6, <1>7, <1>8 DEF CheckStep

LEMMA TypeStep == TypeInv /\ [Next]_vars => TypeInv'
<1>1. TypeInv /\ UNCHANGED vars => TypeInv'
  BY DEF TypeInv, TypeOK, Contents, vars, qmVars, dlqVars, resultVars, auxVars
<1> QED
  BY <1>1, EnvironmentKeepsTypes, CheckKeepsTypes DEF Next

\* The check's state keeps its types; no browse takes more messages than asked for,
\* and its cursor is never ahead of a message that is gone.
THEOREM HealthTypeOK == Spec => []TypeOK
<1>1. TypeInv => TypeOK
  BY DEF TypeInv
<1> QED
  BY <1>1, TypeInit, TypeStep, PTL DEF Spec
-------------------------------------------------------------------------------
\* What a finding says of the queue manager.
Claim(f) == Fact(f.category, f.kind, f.about)

\* The facts a channel row stands for.
LEMMA ChannelRowFacts ==
  ASSUME NEW v, NEW q, NEW r \in v.channels
  PROVE  /\ r.reason = 2035 => Fact("channels", "not_authorized", r.channel) \in Facts(v, q)
         /\ r.reason \in {2009, 2059} => Fact("channels", "connection", r.channel) \in Facts(v, q)
         /\ InDoubt(r) => Fact("channels", "in_doubt", r.channel) \in Facts(v, q)
         /\ r.status \in BadStatus \ {"INDOUBT"} =>
              Fact("channels", "bad_status", r.channel) \in Facts(v, q)
<1>1. r.reason = 2035 => Fact("channels", "not_authorized", r.channel) \in Facts(v, q)
  BY DEF Facts
<1>2. r.reason \in {2009, 2059} => Fact("channels", "connection", r.channel) \in Facts(v, q)
  BY DEF Facts
<1>3. InDoubt(r) => Fact("channels", "in_doubt", r.channel) \in Facts(v, q)
  BY DEF Facts, InDoubt
<1>4. r.status \in BadStatus \ {"INDOUBT"} =>
        Fact("channels", "bad_status", r.channel) \in Facts(v, q)
  BY DEF Facts
<1> QED
  BY <1>1, <1>2, <1>3, <1>4

\* The fact a code in the error log stands for.
LEMMA CodeFact ==
  ASSUME NEW v, NEW q, NEW code \in v.codes
  PROVE  Fact("channels", "amq", code) \in Facts(v, q)
BY DEF Facts

\* The facts a message stands for, on the dead-letter queue or on the default one.
LEMMA MessageFacts ==
  ASSUME NEW category, NEW q, NEW m \in q
  PROVE  /\ Fact(category, "depth", "dlq") \in QueueFacts(category, q)
         /\ Fact(category, "reason", m.reason) \in QueueFacts(category, q)
         /\ m.backout >= BackoutThreshold =>
              Fact(category, "backout", "dlq") \in QueueFacts(category, q)
<1>1. Fact(category, "depth", "dlq") \in QueueFacts(category, q)
  BY DEF QueueFacts
<1>2. Fact(category, "reason", m.reason) \in QueueFacts(category, q)
  BY DEF QueueFacts
<1>3. m.backout >= BackoutThreshold => Fact(category, "backout", "dlq") \in QueueFacts(category, q)
  BY DEF QueueFacts
<1> QED
  BY <1>1, <1>2, <1>3

\* The facts a cluster queue manager row stands for.
LEMMA MemberFacts ==
  ASSUME NEW v, NEW q, NEW r \in v.clusqmgrs
  PROVE  /\ (~\E full \in v.clusqmgrs : full.cluster = r.cluster /\ full.repos) =>
              Fact("cluster", "no_full_repository", r.cluster) \in Facts(v, q)
         /\ r.status \in BadStatus \ {"INDOUBT"} =>
              Fact("cluster", "unhealthy", r.qm) \in Facts(v, q)
         /\ r.days >= StaleDays => Fact("cluster", "stale", r.qm) \in Facts(v, q)
         /\ r.suspended => Fact("cluster", "suspended", r.qm) \in Facts(v, q)
         /\ {z.qm : z \in v.clusqmgrs} = {ThisQM} =>
              Fact("cluster", "alone", r.qm) \in Facts(v, q)
<1>1. (~\E full \in v.clusqmgrs : full.cluster = r.cluster /\ full.repos) =>
        Fact("cluster", "no_full_repository", r.cluster) \in Facts(v, q)
  BY DEF Facts
<1>2. r.status \in BadStatus \ {"INDOUBT"} => Fact("cluster", "unhealthy", r.qm) \in Facts(v, q)
  BY DEF Facts
<1>3. r.days >= StaleDays => Fact("cluster", "stale", r.qm) \in Facts(v, q)
  BY DEF Facts
<1>4. r.suspended => Fact("cluster", "suspended", r.qm) \in Facts(v, q)
  BY DEF Facts
<1>5. {z.qm : z \in v.clusqmgrs} = {ThisQM} => Fact("cluster", "alone", r.qm) \in Facts(v, q)
  BY DEF Facts
<1> QED
  BY <1>1, <1>2, <1>3, <1>4, <1>5

\* The rows, codes and messages each fact stands for.
LEMMA RowsFromFacts ==
  ASSUME NEW v, NEW q, NEW t \in Facts(v, q)
  PROVE  \/ /\ t.category = "channels" /\ t.kind \notin Sampled
            /\ \/ t.kind = "amq" /\ t.about \in v.codes
               \/ \E r \in v.channels :
                    /\ t.kind # "amq" /\ t.about = r.channel
                    /\ r.reason \in {2009, 2035, 2059} \/ InDoubt(r) \/ r.status \in BadStatus
         \/ /\ t.category = "dlq" /\ t.about = "dlq"
            /\ t.kind = "depth" /\ q # {}
         \/ t.category = "dlq" /\ t.kind \in Sampled
         \/ /\ t.category = "cluster" /\ t.kind \notin Sampled
            /\ \E r \in v.clusqmgrs :
                 \/ /\ t.kind = "no_full_repository" /\ t.about = r.cluster
                    /\ ~\E full \in v.clusqmgrs : full.cluster = r.cluster /\ full.repos
                 \/ /\ t.kind # "no_full_repository" /\ t.about = r.qm
                    /\ \/ r.status \in BadStatus \ {"INDOUBT"}
                       \/ r.days >= StaleDays
                       \/ r.suspended
                       \/ {z.qm : z \in v.clusqmgrs} = {ThisQM}
<1> DEFINE Channel == {Fact("channels", "not_authorized", r.channel) :
                         r \in {r \in v.channels : r.reason = 2035}}
                      \cup {Fact("channels", "connection", r.channel) :
                              r \in {r \in v.channels : r.reason \in {2009, 2059}}}
                      \cup {Fact("channels", "in_doubt", r.channel) :
                              r \in {r \in v.channels : r.indoubt \/ r.status = "INDOUBT"}}
                      \cup {Fact("channels", "bad_status", r.channel) :
                              r \in {r \in v.channels : r.status \in BadStatus \ {"INDOUBT"}}}
           Amq == {Fact("channels", "amq", code) : code \in v.codes}
           Message == QueueFacts("dlq", q)
           NoRepository == {Fact("cluster", "no_full_repository", r.cluster) :
                              r \in {r \in v.clusqmgrs :
                                       ~\E full \in v.clusqmgrs :
                                          full.cluster = r.cluster /\ full.repos}}
           Member == {Fact("cluster", "unhealthy", r.qm) :
                        r \in {r \in v.clusqmgrs : r.status \in BadStatus \ {"INDOUBT"}}}
                     \cup {Fact("cluster", "stale", r.qm) :
                             r \in {r \in v.clusqmgrs : r.days >= StaleDays}}
                     \cup {Fact("cluster", "suspended", r.qm) :
                             r \in {r \in v.clusqmgrs : r.suspended}}
                     \cup {Fact("cluster", "alone", r.qm) :
                             r \in {r \in v.clusqmgrs : {z.qm : z \in v.clusqmgrs} = {ThisQM}}}
<1>1. CASE t \in Amq
  BY <1>1 DEF Fact, Sampled
<1>2. CASE t \in Channel
  BY <1>2 DEF Fact, Sampled, InDoubt
<1>3. CASE t \in Message
  BY <1>3 DEF QueueFacts, Fact, Sampled
<1>4. CASE t \in NoRepository
  BY <1>4 DEF Fact, Sampled
<1>5. CASE t \in Member
  BY <1>5 DEF Fact, Sampled
<1>6. t \in Channel \cup Amq \cup Message \cup NoRepository \cup Member
  BY DEF Facts
<1> HIDE DEF Channel, Amq, Message, NoRepository, Member
<1>7. t \in Channel \/ t \in Amq \/ t \in Message \/ t \in NoRepository \/ t \in Member
  BY <1>6
<1> QED
  BY <1>1, <1>2, <1>3, <1>4, <1>5, <1>7

\* The channel matcher invents nothing: each finding is a row's or a code's.
LEMMA ChannelsClaim ==
  ASSUME NEW chs, NEW codes, NEW f \in MatchChannels(chs, codes), NEW told,
         chs = {} \/ \E v, q : chs = v.channels /\ Facts(v, q) \subseteq told,
         codes = {} \/ \E v, q : codes = v.codes /\ Facts(v, q) \subseteq told
  PROVE  Claim(f) \in told /\ f.category = "channels" /\ f.severity \in DOMAIN SeverityRank
<1>1. CASE f \in {Finding("channels", "HIGH", "amq", code) : code \in codes \cap KnownCodes}
  <2>1. PICK code \in codes : f = Finding("channels", "HIGH", "amq", code)
    BY <1>1
  <2>2. PICK v, q : codes = v.codes /\ Facts(v, q) \subseteq told
    BY <2>1
  <2>3. Fact("channels", "amq", code) \in told
    BY <2>1, <2>2, CodeFact
  <2> QED
    BY <2>1, <2>3 DEF Claim, Finding, SeverityRank
<1>2. CASE f \in UNION {ChannelFindings(r) : r \in chs}
  <2>1. PICK r \in chs : f \in ChannelFindings(r)
    BY <1>2
  <2>2. PICK v, q : chs = v.channels /\ Facts(v, q) \subseteq told
    BY <2>1
  <2>3. /\ r.reason = 2035 => Fact("channels", "not_authorized", r.channel) \in told
        /\ r.reason \in {2009, 2059} => Fact("channels", "connection", r.channel) \in told
        /\ InDoubt(r) => Fact("channels", "in_doubt", r.channel) \in told
        /\ r.status \in BadStatus \ {"INDOUBT"} => Fact("channels", "bad_status", r.channel) \in told
    BY <2>1, <2>2, ChannelRowFacts
  <2>4. \/ r.reason = 2035 /\ f = Finding2035(r)
        \/ r.reason \in {2009, 2059} /\ f = FindingConnError(r)
        \/ InDoubt(r) /\ f = FindingIndoubt(r)
        \/ r.status \in BadStatus \ {"INDOUBT"} /\ f = FindingBadStatus(r)
    BY <2>1 DEF ChannelFindings, InDoubt
  <2> QED
    BY <2>3, <2>4
    DEF Claim, Finding, Finding2035, FindingConnError, FindingIndoubt, FindingBadStatus, SeverityRank
<1>3. \/ f \in UNION {ChannelFindings(r) : r \in chs}
      \/ f \in {Finding("channels", "HIGH", "amq", code) : code \in codes \cap KnownCodes}
  BY DEF MatchChannels
<1> QED
  BY <1>1, <1>2, <1>3

\* The channel matcher leaves no channel in trouble and no known code out.
LEMMA ChannelsCover ==
  ASSUME NEW v, NEW q, NEW w, NEW z, NEW t \in Facts(v, q) \cap Facts(w, z), t.category = "channels",
         t.kind # "amq" \/ t.about \in KnownCodes
  PROVE  \E f \in MatchChannels(v.channels, w.codes) :
           f.kind \notin Sampled /\ f.category = t.category /\ f.about = t.about
<1>1. CASE t.kind = "amq"
  <2>1. t.about \in w.codes
    BY <1>1, RowsFromFacts
  <2>2. /\ t.about \in w.codes \cap KnownCodes
        /\ {Finding("channels", "HIGH", "amq", code) : code \in w.codes \cap KnownCodes}
             \subseteq MatchChannels(v.channels, w.codes)
    BY <1>1, <2>1 DEF MatchChannels
  <2>3. Finding("channels", "HIGH", "amq", t.about) \in MatchChannels(v.channels, w.codes)
    BY <2>2
  <2> QED
    BY <2>3 DEF Finding, Sampled
<1>2. CASE t.kind # "amq"
  <2>1. PICK r \in v.channels :
          /\ t.about = r.channel
          /\ r.reason \in {2009, 2035, 2059} \/ InDoubt(r) \/ r.status \in BadStatus
    BY <1>2, RowsFromFacts
  <2>2. \E f \in {Finding2035(r), FindingConnError(r), FindingIndoubt(r), FindingBadStatus(r)} :
          f \in ChannelFindings(r)
    BY <2>1 DEF ChannelFindings
  <2>3. ChannelFindings(r) \subseteq MatchChannels(v.channels, w.codes)
    BY DEF MatchChannels
  <2> QED
    BY <2>1, <2>2, <2>3
    DEF Finding, Finding2035, FindingConnError, FindingIndoubt, FindingBadStatus, Sampled
<1> QED
  BY <1>1, <1>2

\* Two findings that claim the same are witnessed alike.
LEMMA WitnessedClaim ==
  ASSUME NEW f PROVE Witnessed(f) <=> Witnessed(Claim(f))
BY DEF Witnessed, Claim, Fact

\* The dead-letter matcher invents nothing, given what depth and headers stand for.
LEMMA DlqClaims ==
  ASSUME NEW d \in Nat, NEW hs, NEW f \in MatchDlq(d, hs),
         d > 0 => Witnessed(Fact("dlq", "depth", "dlq")),
         \A h \in hs :
           /\ Witnessed(Fact("dlq", "reason", h.reason))
           /\ h.backout >= BackoutThreshold => Witnessed(Fact("dlq", "backout", "dlq"))
  PROVE  Witnessed(f) /\ f.category = "dlq" /\ f.severity \in DOMAIN SeverityRank
<1> SUFFICES Witnessed(Claim(f)) /\ f.category = "dlq" /\ f.severity \in DOMAIN SeverityRank
  BY WitnessedClaim
<1>1. CASE f \in (IF d > 0 THEN {FindingDlqDepth(d)} ELSE {})
  BY <1>1 DEF FindingDlqDepth, Claim, Finding, SeverityRank
<1>2. CASE f \in {FindingForReason(reason) : reason \in {h.reason : h \in hs} \ {0}}
  <2>1. PICK h \in hs : f = FindingForReason(h.reason)
    BY <1>2
  <2>2. ReasonSeverity(h.reason) \in DOMAIN SeverityRank
    BY DEF ReasonSeverity, SeverityRank
  <2> QED
    BY <2>1, <2>2 DEF FindingForReason, Claim, Finding
<1>3. CASE f \in IF \E h \in hs : h.backout >= BackoutThreshold THEN {FindingBackoutLoop} ELSE {}
  <2>1. \E h \in hs : h.backout >= BackoutThreshold
    BY <1>3
  <2>2. f = FindingBackoutLoop
    BY <1>3
  <2> QED
    BY <2>1, <2>2 DEF FindingBackoutLoop, Claim, Finding, SeverityRank
<1> QED
  BY <1>1, <1>2, <1>3 DEF MatchDlq

\* The cluster matcher invents nothing, whatever it makes of the REPOS reply.
LEMMA ClusterClaims ==
  ASSUME NEW rs, NEW reply, NEW f \in MatchCluster(rs, reply), NEW told,
         rs = {} \/ \E v, q : rs = v.clusqmgrs /\ Facts(v, q) \subseteq told
  PROVE  Claim(f) \in told /\ f.category = "cluster" /\ f.severity \in DOMAIN SeverityRank
<1>1. \/ f \in CheckFullRepos(rs, reply)
      \/ f \in CheckUnhealthyChannels(rs)
      \/ f \in CheckStaleEntries(rs)
      \/ f \in CheckSuspendedMembers(rs)
      \/ f \in CheckSelfOnly(rs)
  BY DEF MatchCluster
<1>2. rs # {}
  BY <1>1
  DEF CheckFullRepos, CheckUnhealthyChannels, CheckStaleEntries, CheckSuspendedMembers, CheckSelfOnly
<1>3. PICK v, q : rs = v.clusqmgrs /\ Facts(v, q) \subseteq told
  BY <1>2
<1>4. CASE f \in CheckFullRepos(rs, reply)
  <2>1. PICK r \in rs :
          /\ f = Finding("cluster", "CRITICAL", "no_full_repository", r.cluster)
          /\ \A z \in rs : z.cluster = r.cluster => ~z.repos
    BY <1>4 DEF CheckFullRepos
  <2>2. Fact("cluster", "no_full_repository", r.cluster) \in told
    BY <1>3, <2>1, MemberFacts
  <2> QED
    BY <2>1, <2>2 DEF Claim, Finding, SeverityRank
<1>5. CASE \/ f \in CheckUnhealthyChannels(rs)
           \/ f \in CheckStaleEntries(rs)
           \/ f \in CheckSuspendedMembers(rs)
  <2>1. PICK r \in rs :
          \/ /\ f = Finding("cluster", "HIGH", "unhealthy", r.qm)
             /\ r.status \in BadStatus \ {"INDOUBT"}
          \/ f = Finding("cluster", "MEDIUM", "stale", r.qm) /\ r.days >= StaleDays
          \/ f = Finding("cluster", "MEDIUM", "suspended", r.qm) /\ r.suspended
    BY <1>5 DEF CheckUnhealthyChannels, CheckStaleEntries, CheckSuspendedMembers
  <2>2. /\ r.status \in BadStatus \ {"INDOUBT"} => Fact("cluster", "unhealthy", r.qm) \in told
        /\ r.days >= StaleDays => Fact("cluster", "stale", r.qm) \in told
        /\ r.suspended => Fact("cluster", "suspended", r.qm) \in told
    BY <1>3, MemberFacts
  <2> QED
    BY <2>1, <2>2 DEF Claim, Finding, SeverityRank
<1>6. CASE f \in CheckSelfOnly(rs)
  <2>1. f = Finding("cluster", "HIGH", "alone", ThisQM) /\ \A r \in rs : r.qm = ThisQM
    BY <1>6 DEF CheckSelfOnly
  <2>2. PICK r \in rs : r.qm = ThisQM
    BY <1>2, <2>1
  <2>3. {z.qm : z \in rs} = {ThisQM}
    BY <2>1, <2>2
  <2>4. Fact("cluster", "alone", r.qm) \in told
    BY <1>3, <2>2, <2>3, MemberFacts
  <2> QED
    BY <2>1, <2>2, <2>4 DEF Claim, Finding, SeverityRank
<1> QED
  BY <1>1, <1>4, <1>5, <1>6

\* The cluster matcher leaves no trouble out that both replies showed: where no member
\* is a full repository, this queue manager's own REPOS does not name the cluster, and
\* only the name of another cluster in upper case can be mistaken for it.
LEMMA ClusterCovers ==
  ASSUME NEW v \in Views, NEW q, NEW w \in Views, NEW z, NEW t \in Facts(v, q) \cap Facts(w, z),
         t.category = "cluster",
         ~(t.kind = "no_full_repository" /\ \E c \in w.repos \ {t.about} : Upper[c] = t.about)
  PROVE  \E f \in MatchCluster(v.clusqmgrs, w.repos) :
           f.kind \notin Sampled /\ f.category = t.category /\ f.about = t.about
<1> DEFINE rs == v.clusqmgrs
<1>1. PICK r \in rs :
        \/ /\ t.kind = "no_full_repository" /\ t.about = r.cluster
           /\ ~\E full \in rs : full.cluster = r.cluster /\ full.repos
        \/ /\ t.kind # "no_full_repository" /\ t.about = r.qm
           /\ \/ r.status \in BadStatus \ {"INDOUBT"}
              \/ r.days >= StaleDays
              \/ r.suspended
              \/ {m.qm : m \in rs} = {ThisQM}
  BY RowsFromFacts
<1>2. CheckFullRepos(rs, w.repos) \cup CheckUnhealthyChannels(rs) \cup CheckStaleEntries(rs)
        \cup CheckSuspendedMembers(rs) \cup CheckSelfOnly(rs) \subseteq MatchCluster(rs, w.repos)
  BY <1>1 DEF MatchCluster
<1>3. CASE t.kind = "no_full_repository"
  <2>1. PICK s \in w.clusqmgrs : /\ t.about = s.cluster
                                 /\ ~\E full \in w.clusqmgrs : full.cluster = s.cluster /\ full.repos
    BY <1>3, RowsFromFacts
  <2>2. s.cluster \notin SelfFull(w.repos)
    <3>1. s.cluster \notin w.repos
      BY <2>1, ViewsAssumption
    <3>2. \A c \in w.repos : Upper[c] # s.cluster
      BY <1>3, <2>1, <3>1
    <3> QED
      BY <3>2 DEF SelfFull
  <2>3. /\ r.cluster \in {m.cluster : m \in rs} \ SelfFull(w.repos)
        /\ \A m \in rs : m.cluster = r.cluster => ~m.repos
    BY <1>1, <1>3, <2>1, <2>2
  <2>4. Finding("cluster", "CRITICAL", "no_full_repository", r.cluster)
          \in CheckFullRepos(rs, w.repos)
    BY <2>3 DEF CheckFullRepos
  <2> QED
    BY <1>1, <1>2, <1>3, <2>4 DEF Finding, Sampled
<1>4. CASE t.kind # "no_full_repository"
  <2>1. CASE r.status \in BadStatus \ {"INDOUBT"}
    <3>1. Finding("cluster", "HIGH", "unhealthy", r.qm) \in CheckUnhealthyChannels(rs)
      BY <2>1 DEF CheckUnhealthyChannels
    <3> QED
      BY <1>1, <1>2, <1>4, <3>1 DEF Finding, Sampled
  <2>2. CASE r.days >= StaleDays
    <3>1. Finding("cluster", "MEDIUM", "stale", r.qm) \in CheckStaleEntries(rs)
      BY <2>2 DEF CheckStaleEntries
    <3> QED
      BY <1>1, <1>2, <1>4, <3>1 DEF Finding, Sampled
  <2>3. CASE r.suspended
    <3>1. Finding("cluster", "MEDIUM", "suspended", r.qm) \in CheckSuspendedMembers(rs)
      BY <2>3 DEF CheckSuspendedMembers
    <3> QED
      BY <1>1, <1>2, <1>4, <3>1 DEF Finding, Sampled
  <2>4. CASE {m.qm : m \in rs} = {ThisQM}
    <3>1. \A m \in rs : m.qm = ThisQM
      BY <2>4
    <3>2. Finding("cluster", "HIGH", "alone", ThisQM) \in CheckSelfOnly(rs)
      BY <1>1, <3>1 DEF CheckSelfOnly
    <3> QED
      BY <1>1, <1>2, <1>4, <3>1, <3>2 DEF Finding, Sampled
  <2> QED
    BY <1>1, <1>4, <2>1, <2>2, <2>3, <2>4
<1> QED
  BY <1>3, <1>4
-------------------------------------------------------------------------------
\* The check saw v at some time: all of it was true then.
Remembered(v) ==
  \E q, other \in SUBSET Messages :
    Facts(v, q) \cup Circumstances(v, other) \subseteq ever /\ always \subseteq Facts(v, q)

\* Rows of a reply that has come and is not matched yet; none of a command that failed.
SeenInv ==
  /\ Facts(view, queue) \cup Circumstances(view, fallback) \subseteq ever
  /\ always \subseteq Facts(view, queue)
  /\ pc = "qmstatus" =>
       (failed /\ rows = {}) \/ \E v \in Views : rows = v.channels /\ Remembered(v)
  /\ pc \in {"repos", "qmname"} =>
       (failed /\ rows = {}) \/ \E v \in Views : rows = v.clusqmgrs /\ Remembered(v)
  /\ pc = "qmname" =>
       (failed /\ repos = NoReply) \/ \E v \in Views : repos = v.repos /\ Remembered(v)

\* The browse is of the dead-letter queue unless a command failed or there is none;
\* what it has got was on the queue it browses, and a dead-letter queue that was never
\* empty is not found empty.
BrowseInv ==
  /\ pc \in {"open", "browse"} => target = deadq \/ failed \/ deadq = "none"
  /\ depth > 0 => Witnessed(Fact("dlq", "depth", "dlq"))
  /\ \A h \in headers :
       /\ Witnessed(Fact("dlq", "reason", h.reason))
       /\ h.backout >= BackoutThreshold => Witnessed(Fact("dlq", "backout", "dlq"))
  /\ pc = "browse" /\ ~failed /\ Fact("dlq", "depth", "dlq") \in always => depth > 0

\* While the queue manager changes, the tool waits, and history only grows.
LEMMA EnvironmentStep ==
  ASSUME ViewChanges \/ (\E m \in Messages : Put(m) \/ Get(m)) \/ Break
  PROVE  /\ pc' = pc /\ rows' = rows /\ repos' = repos /\ target' = target /\ depth' = depth
         /\ headers' = headers /\ all_findings' = all_findings /\ checks_run' = checks_run
         /\ checks_skipped' = checks_skipped /\ summary' = summary /\ failed' = failed
         /\ sample' = sample /\ deadq' = deadq
         /\ \/ /\ ever' = ever /\ always' = always
               /\ view' = view /\ queue' = queue /\ fallback' = fallback
            \/ /\ ever' = ever \cup Facts(view', queue') \cup Circumstances(view', fallback')
               /\ always' = always \cap Facts(view', queue')
BY DEF ViewChanges, Put, Get, Break, toolVars, resultVars, Witness

\* A step of the check adds nothing to the history and leaves the queue manager alone.
LEMMA ToolStep ==
  ASSUME CheckStep
  PROVE  /\ ever' = ever /\ always' = always
         /\ view' = view /\ queue' = queue /\ deadq' = deadq /\ fallback' = fallback /\ conn' = conn
         /\ sample' = sample
<1>1. ASSUME NEW ok \in BOOLEAN,
             \/ DisplayChstatus(ok) \/ DisplayQmstatus(ok) \/ DisplayDeadq(ok) \/ OpenQueue(ok)
             \/ DisplayClusqmgr(ok) \/ DisplayRepos(ok) \/ DisplayQmname(ok)
      PROVE  /\ ever' = ever /\ always' = always
             /\ view' = view /\ queue' = queue /\ deadq' = deadq /\ fallback' = fallback /\ conn' = conn
             /\ sample' = sample
  BY <1>1
  DEF DisplayChstatus, DisplayQmstatus, DisplayDeadq, OpenQueue, DisplayClusqmgr, DisplayRepos,
      DisplayQmname, Command, qmVars
<1>2. ASSUME \/ BadSample \/ (\E m \in Messages : BrowseNext(m))
             \/ BrowseEnds \/ BrowseFails \/ Report
      PROVE  /\ ever' = ever /\ always' = always
             /\ view' = view /\ queue' = queue /\ deadq' = deadq /\ fallback' = fallback /\ conn' = conn
             /\ sample' = sample
  BY <1>2 DEF BadSample, BrowseNext, BrowseEnds, BrowseFails, Report, qmVars, auxVars
<1> QED
  BY <1>1, <1>2 DEF CheckStep

LEMMA RememberedStays ==
  ASSUME NEW v, Remembered(v), ever \subseteq ever', always' \subseteq always
  PROVE  Remembered(v)'
BY DEF Remembered

\* What the tool has heard is remembered from when it was answered.
LEMMA SeenStep == TypeInv /\ SeenInv /\ [Next]_vars => SeenInv'
<1> SUFFICES ASSUME TypeInv, SeenInv, [Next]_vars PROVE SeenInv'
  OBVIOUS
<1>0. view \in Views /\ queue \subseteq Messages /\ fallback \subseteq Messages /\ pc \in Places
  BY DEF TypeInv, TypeOK
<1>1. CASE ViewChanges \/ (\E m \in Messages : Put(m) \/ Get(m)) \/ Break
  <2>1. /\ Facts(view', queue') \cup Circumstances(view', fallback') \subseteq ever'
        /\ always' \subseteq Facts(view', queue')
    BY <1>1, EnvironmentStep DEF SeenInv
  <2>2. ever \subseteq ever' /\ always' \subseteq always
    BY <1>1, EnvironmentStep
  <2>3. \A v \in Views : Remembered(v) => Remembered(v)'
    BY <2>2, RememberedStays
  <2> QED
    BY <1>1, <2>1, <2>3, EnvironmentStep DEF SeenInv
<1>2. CASE CheckStep
  <2>1. Remembered(view)
    BY <1>0 DEF SeenInv, Remembered
  <2>2. /\ Facts(view', queue') \cup Circumstances(view', fallback') \subseteq ever'
        /\ always' \subseteq Facts(view', queue')
        /\ \A v \in Views : Remembered(v) => Remembered(v)'
    BY <1>2, ToolStep, RememberedStays DEF SeenInv
  <2>3. ASSUME NEW ok \in BOOLEAN, DisplayChstatus(ok) PROVE SeenInv'
    BY <1>0, <2>1, <2>2, <2>3 DEF SeenInv, DisplayChstatus, Command, Goto
  <2>4. ASSUME NEW ok \in BOOLEAN, DisplayClusqmgr(ok) PROVE SeenInv'
    BY <1>0, <2>1, <2>2, <2>4 DEF SeenInv, DisplayClusqmgr, Command, Goto
  <2>5. ASSUME NEW ok \in BOOLEAN, DisplayRepos(ok) PROVE SeenInv'
    BY <1>0, <2>1, <2>2, <2>5 DEF SeenInv, DisplayRepos, Command, Goto
  <2>6. CASE \/ BadSample \/ (\E m \in Messages : BrowseNext(m)) \/ BrowseEnds \/ BrowseFails \/ Report
             \/ \E ok \in BOOLEAN : \/ DisplayQmstatus(ok) \/ DisplayDeadq(ok)
                                    \/ OpenQueue(ok) \/ DisplayQmname(ok)
    <3>1. pc' \notin {"qmstatus", "repos", "qmname"}
      BY <2>6
      DEF BadSample, BrowseNext, BrowseEnds, BrowseFails, Report, DisplayQmstatus, DisplayDeadq,
          OpenQueue, DisplayQmname, Goto
    <3> QED
      BY <2>2, <3>1 DEF SeenInv
  <2> QED
    BY <1>2, <2>3, <2>4, <2>5, <2>6 DEF CheckStep
<1>3. CASE UNCHANGED vars
  BY <1>3 DEF SeenInv, Remembered, vars, qmVars, auxVars
<1> QED
  BY <1>1, <1>2, <1>3 DEF Next

LEMMA WitnessedStays ==
  ASSUME NEW f, Witnessed(f), ever \subseteq ever', failed => failed', deadq' = deadq
  PROVE  Witnessed(f)'
BY DEF Witnessed

\* A message on the queue that is browsed is on the dead-letter queue, or on the
\* default one taken for it.
LEMMA ContentsWitnessed ==
  ASSUME SeenInv, BrowseInv, pc \in {"open", "browse"}, NEW m \in Contents
  PROVE  /\ Witnessed(Fact("dlq", "depth", "dlq"))
         /\ Witnessed(Fact("dlq", "reason", m.reason))
         /\ m.backout >= BackoutThreshold => Witnessed(Fact("dlq", "backout", "dlq"))
<1>1. CASE target = deadq
  <2>1. m \in queue /\ QueueFacts("dlq", queue) \subseteq ever
    BY <1>1 DEF Contents, SeenInv, Facts
  <2>2. /\ Fact("dlq", "depth", "dlq") \in ever
        /\ Fact("dlq", "reason", m.reason) \in ever
        /\ m.backout >= BackoutThreshold => Fact("dlq", "backout", "dlq") \in ever
    BY <2>1, MessageFacts
  <2> QED
    BY <2>2 DEF Witnessed, Fact
<1>2. CASE target # deadq
  <2>1. m \in fallback /\ QueueFacts("fallback", fallback) \subseteq ever
    BY <1>2 DEF Contents, SeenInv, Circumstances
  <2>2. /\ Fact("fallback", "depth", "dlq") \in ever
        /\ Fact("fallback", "reason", m.reason) \in ever
        /\ m.backout >= BackoutThreshold => Fact("fallback", "backout", "dlq") \in ever
    BY <2>1, MessageFacts
  <2>3. failed \/ deadq = "none"
    BY <1>2 DEF BrowseInv
  <2> QED
    BY <2>2, <2>3 DEF Witnessed, Fact
<1> QED
  BY <1>1, <1>2

\* What the browse holds against the queue manager is witnessed.
LEMMA BrowseStep == TypeInv /\ SeenInv /\ BrowseInv /\ [Next]_vars => BrowseInv'
<1> SUFFICES ASSUME TypeInv, SeenInv, BrowseInv, [Next]_vars PROVE BrowseInv'
  OBVIOUS
<1>0. ASSUME ever \subseteq ever', failed => failed', deadq' = deadq
      PROVE  \A f : Witnessed(f) => Witnessed(f)'
  BY <1>0, WitnessedStays
<1>1. CASE ViewChanges \/ (\E m \in Messages : Put(m) \/ Get(m)) \/ Break
  <2>1. /\ ever \subseteq ever' /\ always' \subseteq always /\ failed' = failed /\ deadq' = deadq
        /\ UNCHANGED <<pc, target, depth, headers>>
    BY <1>1, EnvironmentStep
  <2>2. \A f : Witnessed(f) => Witnessed(f)'
    BY <1>0, <2>1
  <2> QED
    BY <2>1, <2>2 DEF BrowseInv
<1>3. ASSUME depth' = 0, headers' = {}, pc' \notin {"open", "browse"} PROVE BrowseInv'
  BY <1>3 DEF BrowseInv
<1>4. ASSUME UNCHANGED <<depth, headers, ever, always, deadq>>, failed => failed',
             pc' \notin {"open", "browse"}
      PROVE  BrowseInv'
  <2>1. \A f : Witnessed(f) => Witnessed(f)'
    BY <1>0, <1>4
  <2> QED
    BY <1>4, <2>1 DEF BrowseInv
<1>5. ASSUME NEW ok \in BOOLEAN,
             \/ DisplayChstatus(ok) \/ DisplayQmstatus(ok)
             \/ DisplayClusqmgr(ok) \/ DisplayRepos(ok) \/ DisplayQmname(ok)
      PROVE  BrowseInv'
  <2>1. UNCHANGED <<depth, headers, ever, always, deadq>> /\ (failed => failed')
    BY <1>5
    DEF DisplayChstatus, DisplayQmstatus, DisplayClusqmgr, DisplayRepos, DisplayQmname, Command,
        dlqVars, qmVars
  <2>2. pc' \notin {"open", "browse"}
    BY <1>5
    DEF DisplayChstatus, DisplayQmstatus, DisplayClusqmgr, DisplayRepos, DisplayQmname, Goto
  <2> QED
    BY <1>4, <2>1, <2>2
<1>6. ASSUME NEW ok \in BOOLEAN, DisplayDeadq(ok) PROVE BrowseInv'
  <2>1. target' = deadq' \/ failed' \/ deadq' = "none"
    BY <1>6 DEF DisplayDeadq, Command, qmVars, TypeInv, TypeOK
  <2>2. /\ pc' = "open" /\ UNCHANGED <<depth, headers, ever, deadq>>
        /\ failed => failed'
    BY <1>6 DEF DisplayDeadq, Command, Goto, qmVars
  <2>3. \A f : Witnessed(f) => Witnessed(f)'
    BY <1>0, <2>2
  <2> QED
    BY <2>1, <2>2, <2>3 DEF BrowseInv
<1>7. ASSUME NEW inquired \in BOOLEAN, OpenQueue(inquired) PROVE BrowseInv'
  <2>1. /\ pc = "open" /\ pc' = "browse" /\ UNCHANGED <<target, deadq, headers, ever, always>>
        /\ failed' = (failed \/ ~inquired)
        /\ depth' = IF inquired THEN Cardinality(Contents) ELSE 0
    BY <1>7 DEF OpenQueue, Goto, qmVars
  <2>2. \A f : Witnessed(f) => Witnessed(f)'
    BY <1>0, <2>1
  <2>3. IsFiniteSet(Contents) /\ (target = deadq => Contents = queue)
    BY DEF Contents, TypeInv
  <2>4. /\ Cardinality(Contents) \in Nat
        /\ Cardinality(Contents) = 0 <=> Contents = {}
    BY <2>3, FS_CardinalityType, FS_EmptySet
  <2>5. depth' > 0 => Witnessed(Fact("dlq", "depth", "dlq"))
    <3>1. depth' > 0 => \E m \in Contents : TRUE
      BY <2>1, <2>4
    <3> QED
      BY <2>1, <3>1, ContentsWitnessed
  <2>6. ASSUME ~failed', Fact("dlq", "depth", "dlq") \in always PROVE depth' > 0
    <3>1. Fact("dlq", "depth", "dlq") \in Facts(view, queue)
      BY <2>6 DEF SeenInv
    <3>2. queue # {}
      BY <3>1, RowsFromFacts DEF Fact, Sampled
    <3>3. target = deadq
      BY <2>1, <2>6, <3>2 DEF BrowseInv, TypeInv
    <3>4. Cardinality(Contents) > 0
      BY <2>3, <2>4, <3>2, <3>3
    <3>5. depth' = Cardinality(Contents)
      BY <2>1, <2>6
    <3> QED
      BY <3>4, <3>5
  <2> QED
    BY <2>1, <2>2, <2>5, <2>6 DEF BrowseInv
<1>8. CASE BadSample \/ BrowseEnds \/ BrowseFails
  BY <1>3, <1>8 DEF BadSample, BrowseEnds, BrowseFails, DlqForgotten, Goto
<1>9. ASSUME NEW m \in Messages, BrowseNext(m) PROVE BrowseInv'
  <2>1. /\ pc = "browse" /\ UNCHANGED <<pc, target, deadq, depth, failed, ever, always>>
        /\ headers' \subseteq headers \cup {m} /\ m \in Contents
    BY <1>9 DEF BrowseNext, ParseDlh, qmVars, auxVars, TypeInv, TypeOK
  <2>2. \A f : Witnessed(f) => Witnessed(f)'
    BY <1>0, <2>1
  <2>3. /\ Witnessed(Fact("dlq", "reason", m.reason))
        /\ m.backout >= BackoutThreshold => Witnessed(Fact("dlq", "backout", "dlq"))
    BY <2>1, ContentsWitnessed
  <2> QED
    BY <2>1, <2>2, <2>3 DEF BrowseInv
<1>10. CASE Report
  BY <1>4, <1>10 DEF Report, qmVars, dlqVars, auxVars, Goto
<1>11. CASE UNCHANGED vars
  <2>1. UNCHANGED <<ever, always, failed, deadq, pc, target, depth, headers>>
    BY <1>11 DEF vars, qmVars, dlqVars, auxVars
  <2>2. \A f : Witnessed(f) => Witnessed(f)'
    BY <1>0, <2>1
  <2> QED
    BY <2>1, <2>2 DEF BrowseInv
<1> QED
  BY <1>1, <1>5, <1>6, <1>7, <1>8, <1>9, <1>10, <1>11 DEF Next, CheckStep
-------------------------------------------------------------------------------
\* What is reported is witnessed, and belongs to a check that ran.
ReportInv ==
  \A f \in all_findings :
    Witnessed(f) /\ f.category \in checks_run /\ f.severity \in DOMAIN SeverityRank

\* A check that returned found only what is witnessed.
LEMMA FoundClaims ==
  ASSUME TypeInv, SeenInv, BrowseInv
  PROVE  /\ \A ok \in BOOLEAN : DisplayQmstatus(ok) =>
              \A f \in MatchChannels(rows, LogTail(ok)) :
                Witnessed(f) /\ f.category = "channels" /\ f.severity \in DOMAIN SeverityRank
         /\ BrowseEnds => \A f \in MatchDlq(depth, headers) :
              Witnessed(f) /\ f.category = "dlq" /\ f.severity \in DOMAIN SeverityRank
         /\ \A ok \in BOOLEAN : DisplayQmname(ok) =>
              \A f \in MatchCluster(rows, repos) :
                Witnessed(f) /\ f.category = "cluster" /\ f.severity \in DOMAIN SeverityRank
<1>1. ASSUME NEW ok \in BOOLEAN, DisplayQmstatus(ok), NEW f \in MatchChannels(rows, LogTail(ok))
      PROVE  Witnessed(f) /\ f.category = "channels" /\ f.severity \in DOMAIN SeverityRank
  <2>1. rows = {} \/ \E v, q : rows = v.channels /\ Facts(v, q) \subseteq ever
    BY <1>1 DEF DisplayQmstatus, Command, SeenInv, Remembered
  <2>2. LogTail(ok) = {} \/ \E v, q : LogTail(ok) = v.codes /\ Facts(v, q) \subseteq ever
    BY DEF LogTail, SeenInv
  <2> QED
    <3>1. Claim(f) \in ever /\ f.category = "channels" /\ f.severity \in DOMAIN SeverityRank
      BY <1>1, <2>1, <2>2, ChannelsClaim
    <3> QED
      BY <3>1 DEF Witnessed, Claim
<1>2. ASSUME BrowseEnds, NEW f \in MatchDlq(depth, headers)
      PROVE  Witnessed(f) /\ f.category = "dlq" /\ f.severity \in DOMAIN SeverityRank
  <2>1. depth \in Nat
    BY DEF TypeInv, TypeOK
  <2> QED
    BY <1>2, <2>1, DlqClaims DEF BrowseInv
<1>3. ASSUME NEW ok \in BOOLEAN, DisplayQmname(ok), NEW f \in MatchCluster(rows, repos)
      PROVE  Witnessed(f) /\ f.category = "cluster" /\ f.severity \in DOMAIN SeverityRank
  <2>1. rows = {} \/ \E v, q : rows = v.clusqmgrs /\ Facts(v, q) \subseteq ever
    BY <1>3 DEF DisplayQmname, Command, SeenInv, Remembered
  <2> QED
    <3>1. Claim(f) \in ever /\ f.category = "cluster" /\ f.severity \in DOMAIN SeverityRank
      BY <1>3, <2>1, ClusterClaims
    <3> QED
      BY <3>1 DEF Witnessed, Claim
<1> QED
  BY <1>1, <1>2, <1>3

\* All other steps leave the results alone, but for a check to be listed as skipped.
LEMMA ResultsStay ==
  ASSUME CheckStep,
         \A ok \in BOOLEAN : ~DisplayQmstatus(ok) /\ ~DisplayQmname(ok),
         ~BrowseEnds
  PROVE  all_findings' = all_findings /\ checks_run' = checks_run
<1>1. ASSUME NEW ok \in BOOLEAN,
             \/ DisplayChstatus(ok) \/ DisplayDeadq(ok) \/ OpenQueue(ok)
             \/ DisplayClusqmgr(ok) \/ DisplayRepos(ok)
      PROVE  all_findings' = all_findings /\ checks_run' = checks_run
  BY <1>1 DEF DisplayChstatus, DisplayDeadq, OpenQueue, DisplayClusqmgr, DisplayRepos, resultVars
<1>2. CASE BadSample \/ (\E m \in Messages : BrowseNext(m)) \/ BrowseFails \/ Report
  BY <1>2 DEF BadSample, BrowseNext, BrowseFails, Report, Skipped, resultVars
<1> QED
  BY <1>1, <1>2 DEF CheckStep

\* No step takes a finding back or forgets that a command failed.
LEMMA ResultsGrow ==
  ASSUME [Next]_vars
  PROVE  /\ all_findings \subseteq all_findings'
         /\ ever \subseteq ever' /\ always' \subseteq always
         /\ sample' = sample
         /\ failed => failed'
<1>1. CASE ViewChanges \/ (\E m \in Messages : Put(m) \/ Get(m)) \/ Break
  BY <1>1, EnvironmentStep
<1>2. CASE CheckStep
  <2>1. all_findings \subseteq all_findings'
    <3>1. (\E check, found : Ran(check, found)) => all_findings \subseteq all_findings'
      BY DEF Ran
    <3>2. \A ok \in BOOLEAN : DisplayQmstatus(ok) \/ DisplayQmname(ok) \/ BrowseEnds =>
            \E check, found : Ran(check, found)
      BY DEF DisplayQmstatus, DisplayQmname, BrowseEnds
    <3> QED
      BY <1>2, <3>1, <3>2, ResultsStay
  <2>2. failed => failed'
    <3>1. ASSUME failed, NEW ok \in BOOLEAN,
                 \/ DisplayChstatus(ok) \/ DisplayQmstatus(ok) \/ DisplayDeadq(ok) \/ OpenQueue(ok)
                 \/ DisplayClusqmgr(ok) \/ DisplayRepos(ok) \/ DisplayQmname(ok)
          PROVE  failed'
      BY <3>1
      DEF DisplayChstatus, DisplayQmstatus, DisplayDeadq, OpenQueue, DisplayClusqmgr, DisplayRepos,
          DisplayQmname, Command
    <3>2. ASSUME failed, \/ BadSample \/ (\E m \in Messages : BrowseNext(m))
                         \/ BrowseEnds \/ BrowseFails \/ Report
          PROVE  failed'
      BY <3>2 DEF BadSample, BrowseNext, BrowseEnds, BrowseFails, Report, auxVars
    <3> QED
      BY <1>2, <3>1, <3>2 DEF CheckStep
  <2> QED
    BY <1>2, <2>1, <2>2, ToolStep
<1>3. CASE UNCHANGED vars
  BY <1>3 DEF vars, resultVars, auxVars
<1> QED
  BY <1>1, <1>2, <1>3 DEF Next

LEMMA ReportStep == TypeInv /\ SeenInv /\ BrowseInv /\ ReportInv /\ [Next]_vars => ReportInv'
<1> SUFFICES ASSUME TypeInv, SeenInv, BrowseInv, ReportInv, [Next]_vars PROVE ReportInv'
  OBVIOUS
<1>1. CASE ViewChanges \/ (\E m \in Messages : Put(m) \/ Get(m)) \/ Break
  <2>1. /\ ever \subseteq ever' /\ failed' = failed /\ deadq' = deadq
        /\ UNCHANGED <<all_findings, checks_run>>
    BY <1>1, EnvironmentStep
  <2> QED
    BY <2>1, WitnessedStays DEF ReportInv
<1>2. CASE CheckStep
  <2>0. \A f : Witnessed(f) => Witnessed(f)'
    BY <1>2, ToolStep, ResultsGrow, WitnessedStays
  <2>1. ASSUME NEW check, NEW found, Ran(check, found),
               \A f \in found :
                 Witnessed(f) /\ f.category = check /\ f.severity \in DOMAIN SeverityRank
        PROVE  ReportInv'
    BY <2>0, <2>1 DEF ReportInv, Ran
  <2>2. ASSUME NEW ok \in BOOLEAN, DisplayQmstatus(ok) PROVE ReportInv'
    <3>1. Ran("channels", MatchChannels(rows, LogTail(ok)))
      BY <2>2 DEF DisplayQmstatus
    <3> QED
      BY <2>1, <2>2, <3>1, FoundClaims
  <2>3. CASE BrowseEnds
    <3>1. Ran("dlq", MatchDlq(depth, headers))
      BY <2>3 DEF BrowseEnds
    <3> QED
      BY <2>1, <2>3, <3>1, FoundClaims
  <2>4. ASSUME NEW ok \in BOOLEAN, DisplayQmname(ok) PROVE ReportInv'
    <3>1. Ran("cluster", MatchCluster(rows, repos))
      BY <2>4 DEF DisplayQmname
    <3> QED
      BY <2>1, <2>4, <3>1, FoundClaims
  <2>5. CASE all_findings' = all_findings /\ checks_run' = checks_run
    BY <2>0, <2>5 DEF ReportInv
  <2> QED
    BY <1>2, <2>2, <2>3, <2>4, <2>5, ResultsStay
<1>3. CASE UNCHANGED vars
  BY <1>3 DEF ReportInv, Witnessed, vars, qmVars, resultVars, auxVars
<1> QED
  BY <1>1, <1>2, <1>3 DEF Next

\* The invariant of the tool's findings as a whole.
CheckInv == TypeInv /\ SeenInv /\ BrowseInv /\ ReportInv

LEMMA CheckInit == Init => CheckInv
<1> SUFFICES ASSUME Init PROVE SeenInv /\ BrowseInv /\ ReportInv
  BY TypeInit DEF CheckInv
<1>1. /\ pc = "chstatus" /\ depth = 0 /\ headers = {} /\ all_findings = {}
      /\ ever = Facts(view, queue) \cup Circumstances(view, fallback)
      /\ always = Facts(view, queue)
  BY DEF Init
<1> QED
  BY <1>1 DEF SeenInv, BrowseInv, ReportInv

LEMMA CheckInvStep == CheckInv /\ [Next]_vars => CheckInv'
BY TypeStep, SeenStep, BrowseStep, ReportStep DEF CheckInv

\* Whatever fails, breaks or changes while the check runs, everything it reports was
\* true of the queue manager at some time of the check: no refused command, broken
\* connection or empty reply is taken for a state.  Only the default dead-letter queue
\* may be reported for the real one, if a command failed or there is no real one.
THEOREM HealthFindingsWitnessed == Spec => []FindingsWitnessed
<1>1. CheckInv => FindingsWitnessed
  BY DEF CheckInv, ReportInv, FindingsWitnessed
<1> QED
  BY <1>1, CheckInit, CheckInvStep, PTL DEF Spec
-------------------------------------------------------------------------------
\* Every lasting trouble of a category that is looked for exhaustively is reported.
Covered(category) ==
  \A t \in always :
    t.category = category =>
      \/ t.kind \in Sampled
      \/ t.kind = "amq" /\ t.about \notin KnownCodes
      \/ MistakenForRepository(t)
      \/ \E f \in all_findings :
           f.kind \notin Sampled /\ f.category = t.category /\ f.about = t.about

\* A check that has run, with no command failed so far, has covered its category.
CoverInv ==
  ~failed =>
    /\ pc \notin {"chstatus", "qmstatus"} => Covered("channels")
    /\ pc \in {"clusqmgr", "repos", "qmname", "report", "done"} /\ sample \in 1 .. MaxSample =>
         Covered("dlq")
    /\ pc \in {"report", "done"} => Covered("cluster")

LEMMA CoveredStays ==
  ASSUME NEW category, Covered(category),
         all_findings \subseteq all_findings', always' \subseteq always, ever \subseteq ever'
  PROVE  Covered(category)'
BY DEF Covered, MistakenForRepository

\* A fact is its category, kind and subject.
LEMMA FactShape ==
  ASSUME NEW v, NEW q, NEW t \in Facts(v, q)
  PROVE  t = Fact(t.category, t.kind, t.about)
<1>1. \E category, kind, about : t = Fact(category, kind, about)
  BY DEF Facts, QueueFacts
<1> QED
  BY <1>1 DEF Fact

\* The check that ends covers its category, if nothing failed: the two replies it puts
\* together may be of different times, but a lasting trouble is in both.
LEMMA CheckCovers ==
  ASSUME CheckInv, ~failed'
  PROVE  /\ \A ok \in BOOLEAN : DisplayQmstatus(ok) => Covered("channels")'
         /\ BrowseEnds => Covered("dlq")'
         /\ \A ok \in BOOLEAN : DisplayQmname(ok) => Covered("cluster")'
<1> USE DEF CheckInv
<1>1. ASSUME NEW ok \in BOOLEAN, DisplayQmstatus(ok) PROVE Covered("channels")'
  <2>1. /\ pc = "qmstatus" /\ ~failed /\ ok /\ always' = always
        /\ all_findings' = all_findings \cup MatchChannels(rows, view.codes)
    BY <1>1 DEF DisplayQmstatus, Command, LogTail, Ran
  <2>2. PICK v \in Views, q \in SUBSET Messages : rows = v.channels /\ always \subseteq Facts(v, q)
    BY <2>1 DEF SeenInv, Remembered
  <2>3. ASSUME NEW t \in always, t.category = "channels", t.kind # "amq" \/ t.about \in KnownCodes
        PROVE  \E f \in all_findings' :
                 f.kind \notin Sampled /\ f.category = t.category /\ f.about = t.about
    <3>1. t \in Facts(v, q) \cap Facts(view, queue)
      BY <2>2 DEF SeenInv
    <3> QED
      BY <2>1, <2>2, <2>3, <3>1, ChannelsCover
  <2> QED
    BY <2>1, <2>3 DEF Covered
<1>2. ASSUME BrowseEnds PROVE Covered("dlq")'
  <2>1. /\ pc = "browse" /\ ~failed /\ always' = always
        /\ all_findings' = all_findings \cup MatchDlq(depth, headers)
    BY <1>2 DEF BrowseEnds, Ran, auxVars
  <2>2. ASSUME NEW t \in always, t.category = "dlq", t.kind \notin Sampled
        PROVE  \E f \in all_findings' :
                 f.kind \notin Sampled /\ f.category = t.category /\ f.about = t.about
    <3>1. t.kind = "depth" /\ t.about = "dlq"
      BY <2>2, RowsFromFacts DEF SeenInv
    <3>2. Fact("dlq", "depth", "dlq") \in always
      <4>1. t = Fact(t.category, t.kind, t.about)
        BY FactShape DEF SeenInv
      <4> QED
        BY <2>2, <3>1, <4>1
    <3>3. depth > 0
      BY <2>1, <3>2 DEF BrowseInv
    <3>4. FindingDlqDepth(depth) \in all_findings'
      BY <2>1, <3>3 DEF MatchDlq
    <3>5. /\ FindingDlqDepth(depth).category = "dlq" /\ FindingDlqDepth(depth).kind = "depth"
          /\ FindingDlqDepth(depth).about = "dlq"
      BY DEF FindingDlqDepth, Finding
    <3>6. "depth" \notin Sampled
      BY DEF Sampled
    <3> QED
      BY <2>2, <3>1, <3>4, <3>5, <3>6
  <2> QED
    BY <2>1, <2>2 DEF Covered
<1>3. ASSUME NEW ok \in BOOLEAN, DisplayQmname(ok) PROVE Covered("cluster")'
  <2>1. /\ pc = "qmname" /\ ~failed /\ always' = always
        /\ all_findings' = all_findings \cup MatchCluster(rows, repos)
    BY <1>3 DEF DisplayQmname, Command, Ran
  <2>2. PICK v \in Views, q \in SUBSET Messages :
          rows = v.clusqmgrs /\ always \subseteq Facts(v, q)
    BY <2>1 DEF SeenInv, Remembered
  <2>3. PICK w \in Views, z \in SUBSET Messages, other \in SUBSET Messages :
          /\ repos = w.repos /\ always \subseteq Facts(w, z)
          /\ Circumstances(w, other) \subseteq ever
    BY <2>1 DEF SeenInv, Remembered
  <2>4. ASSUME NEW t \in always, t.category = "cluster", ~MistakenForRepository(t)
        PROVE  \E f \in all_findings' :
                 f.kind \notin Sampled /\ f.category = t.category /\ f.about = t.about
    <3>1. t \in Facts(v, q) \cap Facts(w, z)
      BY <2>2, <2>3
    <3>2. \A c \in w.repos : c \in DOMAIN Upper /\ Fact("cluster", "full_repository", c) \in ever
      BY <2>3, ViewsAssumption DEF Circumstances
    <3>3. ~(t.kind = "no_full_repository" /\ \E c \in w.repos \ {t.about} : Upper[c] = t.about)
      BY <2>4, <3>2 DEF MistakenForRepository
    <3> QED
      BY <2>1, <2>2, <2>3, <2>4, <3>1, <3>3, ClusterCovers
  <2>5. \A t : MistakenForRepository(t) => MistakenForRepository(t)'
    BY <1>3 DEF MistakenForRepository, DisplayQmname, Command
  <2> QED
    BY <2>1, <2>4, <2>5 DEF Covered
<1> QED
  BY <1>1, <1>2, <1>3

LEMMA CoverStep == CheckInv /\ CoverInv /\ [Next]_vars => CoverInv'
<1> SUFFICES ASSUME CheckInv, CoverInv, [Next]_vars, ~failed' PROVE CoverInv'
  BY DEF CoverInv
<1>0. /\ ~failed /\ sample' = sample
      /\ \A category : Covered(category) => Covered(category)'
  BY ResultsGrow, CoveredStays
<1>1. CASE pc' = pc
  BY <1>0, <1>1 DEF CoverInv
<1>2. ASSUME NEW ok \in BOOLEAN, DisplayQmstatus(ok) PROVE CoverInv'
  <2>1. pc' = "deadq" /\ Covered("channels")'
    BY <1>2, CheckCovers DEF DisplayQmstatus, Goto
  <2> QED
    BY <2>1 DEF CoverInv
<1>3. CASE BrowseEnds
  <2>1. pc = "browse" /\ pc' = "clusqmgr" /\ Covered("dlq")'
    BY <1>3, CheckCovers DEF BrowseEnds, Goto
  <2> QED
    BY <1>0, <2>1 DEF CoverInv
<1>4. ASSUME NEW ok \in BOOLEAN, DisplayQmname(ok) PROVE CoverInv'
  <2>1. pc = "qmname" /\ pc' = "report" /\ Covered("cluster")'
    BY <1>4, CheckCovers DEF DisplayQmname, Command, Goto
  <2> QED
    BY <1>0, <2>1 DEF CoverInv
<1>5. CASE BadSample
  <2>1. pc = "deadq" /\ pc' = "clusqmgr" /\ sample \notin 1 .. MaxSample
    BY <1>5 DEF BadSample, Goto
  <2> QED
    BY <1>0, <2>1 DEF CoverInv
<1>6. ASSUME NEW ok \in BOOLEAN, DisplayChstatus(ok) \/ DisplayDeadq(ok) \/ OpenQueue(ok)
      PROVE  CoverInv'
  <2>1. \/ pc = "chstatus" /\ pc' = "qmstatus"
        \/ pc = "deadq" /\ pc' = "open"
        \/ pc = "open" /\ pc' = "browse"
    BY <1>6 DEF DisplayChstatus, DisplayDeadq, OpenQueue, Command, Goto
  <2> QED
    BY <1>0, <2>1 DEF CoverInv
<1>7. ASSUME NEW ok \in BOOLEAN, DisplayClusqmgr(ok) \/ DisplayRepos(ok) PROVE CoverInv'
  <2>1. \/ pc = "clusqmgr" /\ pc' = "repos"
        \/ pc = "repos" /\ pc' = "qmname"
    BY <1>7 DEF DisplayClusqmgr, DisplayRepos, Command, Goto
  <2> QED
    BY <1>0, <2>1 DEF CoverInv
<1>8. CASE Report
  <2>1. pc = "report" /\ pc' = "done"
    BY <1>8 DEF Report, Goto
  <2> QED
    BY <1>0, <2>1 DEF CoverInv
<1>9. ~BrowseFails
  BY DEF BrowseFails
<1>10. ViewChanges \/ (\E m \in Messages : Put(m) \/ Get(m)) \/ Break => pc' = pc
  BY EnvironmentStep
<1>11. (\E m \in Messages : BrowseNext(m)) \/ UNCHANGED vars => pc' = pc
  BY DEF BrowseNext, vars
<1> QED
  BY <1>1, <1>2, <1>3, <1>4, <1>5, <1>6, <1>7, <1>8, <1>9, <1>10, <1>11 DEF Next, CheckStep

\* A health check in which no command failed misses no trouble that lasted from its
\* beginning to its end, however much else changed and although its commands see the
\* queue manager at different times.
THEOREM HealthNothingMissed == Spec => []NothingMissed
<1>1. Init => CoverInv
  BY DEF Init, CoverInv
<1>2. CheckInv /\ CoverInv => NothingMissed
  <2> SUFFICES ASSUME CheckInv, CoverInv, pc = "done", ~failed, sample \in 1 .. MaxSample,
                      NEW t \in always
               PROVE  \/ t.kind \in Sampled
                      \/ t.kind = "amq" /\ t.about \notin KnownCodes
                      \/ MistakenForRepository(t)
                      \/ \E f \in all_findings :
                           /\ f.kind \notin Sampled
                           /\ f.category = t.category /\ f.about = t.about
    BY DEF NothingMissed
  <2>1. t.category \in {"channels", "dlq", "cluster"}
    BY RowsFromFacts DEF CheckInv, SeenInv
  <2>2. Covered("channels") /\ Covered("dlq") /\ Covered("cluster")
    BY DEF CoverInv
  <2> QED
    BY <2>1, <2>2 DEF Covered
<1> QED
  BY <1>1, <1>2, CheckInit, CheckInvStep, CoverStep, PTL DEF Spec
-------------------------------------------------------------------------------
\* Which checks are accounted for, by where the tool is; a connection that broke
\* before the browse ended has cost the dead-letter check.
AccountInv ==
  /\ pc \in {"chstatus", "qmstatus"} => checks_run = {} /\ checks_skipped = {}
  /\ pc \in {"deadq", "open", "browse"} => checks_run = {"channels"} /\ checks_skipped = {}
  /\ pc \in {"clusqmgr", "repos", "qmname"} =>
       \/ checks_run = {"channels", "dlq"} /\ checks_skipped = {}
       \/ checks_run = {"channels"} /\ checks_skipped = {"dlq"}
  /\ pc \in {"report", "done"} =>
       \/ checks_run = Checks /\ checks_skipped = {}
       \/ checks_run = {"channels", "cluster"} /\ checks_skipped = {"dlq"}
  /\ /\ pc \in {"clusqmgr", "repos", "qmname", "report", "done"}
     /\ conn = "before"
     => "dlq" \in checks_skipped

LEMMA AccountStep == TypeInv /\ AccountInv /\ [Next]_vars => AccountInv'
<1> SUFFICES ASSUME TypeInv, AccountInv, [Next]_vars PROVE AccountInv'
  OBVIOUS
<1>1. CASE ViewChanges \/ (\E m \in Messages : Put(m) \/ Get(m)) \/ UNCHANGED vars
  <2>1. UNCHANGED <<pc, checks_run, checks_skipped, conn>>
    BY <1>1 DEF ViewChanges, Put, Get, toolVars, vars, qmVars, resultVars
  <2> QED
    BY <2>1 DEF AccountInv
<1>2. CASE Break
  <2>1. /\ UNCHANGED <<pc, checks_run, checks_skipped>>
        /\ conn' = "before" => pc \in BeforeBrowsed
    BY <1>2 DEF Break, toolVars, resultVars
  <2> QED
    BY <2>1 DEF AccountInv, BeforeBrowsed
<1>3. ASSUME NEW ok \in BOOLEAN,
             \/ DisplayChstatus(ok) \/ DisplayDeadq(ok) \/ OpenQueue(ok)
             \/ DisplayClusqmgr(ok) \/ DisplayRepos(ok)
      PROVE  AccountInv'
  <2>1. UNCHANGED <<checks_run, checks_skipped, conn>>
    BY <1>3
    DEF DisplayChstatus, DisplayDeadq, OpenQueue, DisplayClusqmgr, DisplayRepos, qmVars, resultVars
  <2>2. \/ pc = "chstatus" /\ pc' = "qmstatus"
        \/ pc = "deadq" /\ pc' = "open"
        \/ pc = "open" /\ pc' = "browse"
        \/ pc = "clusqmgr" /\ pc' = "repos"
        \/ pc = "repos" /\ pc' = "qmname"
    BY <1>3
    DEF DisplayChstatus, DisplayDeadq, OpenQueue, DisplayClusqmgr, DisplayRepos, Command, Goto
  <2> QED
    BY <2>1, <2>2 DEF AccountInv
<1>4. ASSUME NEW ok \in BOOLEAN, DisplayQmstatus(ok) PROVE AccountInv'
  <2>1. /\ pc = "qmstatus" /\ pc' = "deadq"
        /\ checks_run' = checks_run \cup {"channels"} /\ checks_skipped' = checks_skipped
    BY <1>4 DEF DisplayQmstatus, Command, Goto, Ran
  <2> QED
    BY <2>1 DEF AccountInv
<1>5. CASE BadSample \/ BrowseFails
  <2>1. /\ pc \in {"deadq", "open", "browse"} /\ pc' = "clusqmgr"
        /\ checks_run' = checks_run /\ checks_skipped' = checks_skipped \cup {"dlq"}
    BY <1>5 DEF BadSample, BrowseFails, Goto, Skipped
  <2> QED
    BY <2>1 DEF AccountInv
<1>6. CASE BrowseEnds
  <2>1. /\ pc = "browse" /\ pc' = "clusqmgr" /\ conn' = "up"
        /\ checks_run' = checks_run \cup {"dlq"} /\ checks_skipped' = checks_skipped
    BY <1>6 DEF BrowseEnds, Goto, Ran, qmVars
  <2> QED
    BY <2>1 DEF AccountInv
<1>7. ASSUME NEW m \in Messages, BrowseNext(m) PROVE AccountInv'
  BY <1>7 DEF BrowseNext, AccountInv, qmVars, resultVars
<1>8. ASSUME NEW ok \in BOOLEAN, DisplayQmname(ok) PROVE AccountInv'
  <2>1. /\ pc = "qmname" /\ pc' = "report" /\ conn' = conn
        /\ checks_run' = checks_run \cup {"cluster"} /\ checks_skipped' = checks_skipped
    BY <1>8 DEF DisplayQmname, Command, Goto, Ran, qmVars
  <2> QED
    BY <2>1 DEF AccountInv, Checks
<1>9. CASE Report
  <2>1. pc = "report" /\ pc' = "done" /\ UNCHANGED <<checks_run, checks_skipped, conn>>
    BY <1>9 DEF Report, Goto, qmVars
  <2> QED
    BY <2>1 DEF AccountInv
<1> QED
  BY <1>1, <1>2, <1>3, <1>4, <1>5, <1>6, <1>7, <1>8, <1>9 DEF Next, CheckStep

\* A report in which nothing is skipped comes over a connection that was up when the
\* dead-letter queue had been browsed, although the collectors before and after the
\* browse swallow their errors.
THEOREM HealthDeadConnectionShows == Spec => []DeadConnectionShows
<1>1. Init => AccountInv
  BY DEF Init, AccountInv
<1>2. AccountInv => DeadConnectionShows
  BY DEF AccountInv, DeadConnectionShows
<1> QED
  BY <1>1, <1>2, AccountStep, TypeInit, TypeStep, PTL DEF Spec
-------------------------------------------------------------------------------
\* What was made of the findings when they were reported.
SummaryInv ==
  pc = "done" => summary \in Summaries(all_findings)

LEMMA SummaryStep == SummaryInv /\ [Next]_vars => SummaryInv'
<1> SUFFICES ASSUME SummaryInv, [Next]_vars, pc' = "done"
             PROVE  summary' \in Summaries(all_findings')
  BY DEF SummaryInv
<1>1. CASE ViewChanges \/ (\E m \in Messages : Put(m) \/ Get(m)) \/ Break
  BY <1>1, EnvironmentStep DEF SummaryInv
<1>2. CASE Report
  BY <1>2 DEF Report
<1>3. CASE UNCHANGED vars
  BY <1>3 DEF SummaryInv, vars, resultVars
<1>4. ASSUME NEW ok \in BOOLEAN
      PROVE  /\ ~DisplayChstatus(ok) /\ ~DisplayQmstatus(ok) /\ ~DisplayDeadq(ok)
             /\ ~OpenQueue(ok) /\ ~DisplayClusqmgr(ok) /\ ~DisplayRepos(ok) /\ ~DisplayQmname(ok)
  BY
  DEF DisplayChstatus, DisplayQmstatus, DisplayDeadq, OpenQueue, DisplayClusqmgr, DisplayRepos,
      DisplayQmname, Goto
<1>5. ~BadSample /\ (\A m \in Messages : ~BrowseNext(m)) /\ ~BrowseEnds /\ ~BrowseFails
  BY DEF BadSample, BrowseNext, BrowseEnds, BrowseFails, Goto, SummaryInv
<1> QED
  BY <1>1, <1>2, <1>3, <1>4, <1>5 DEF Next, CheckStep

LEMMA SummaryInit == Init => SummaryInv
BY DEF Init, SummaryInv

\* The report accounts for each check exactly once, and has no findings of a check that
\* was skipped, wherever it was when it failed.
THEOREM HealthSkippedSayNothing == Spec => []SkippedSayNothing
<1>1. Init => AccountInv
  BY DEF Init, AccountInv
<1>2. AccountInv /\ ReportInv /\ SummaryInv => SkippedSayNothing
  <2> SUFFICES ASSUME AccountInv, ReportInv, SummaryInv, pc = "done"
               PROVE  /\ checks_run \cup checks_skipped = Checks
                      /\ checks_run \cap checks_skipped = {}
                      /\ \A c \in Checks : summary.by_category[c] > 0 => c \in checks_run
    BY DEF SkippedSayNothing
  <2>1. checks_run \cup checks_skipped = Checks /\ checks_run \cap checks_skipped = {}
    BY DEF AccountInv, Checks
  <2>2. summary.by_category = CountByCategory(all_findings)
    BY DEF SummaryInv, Summaries
  <2>3. ASSUME NEW c \in Checks, c \notin checks_run PROVE ~(summary.by_category[c] > 0)
    <3>1. {f \in all_findings : f.category = c} = {}
      BY <2>3 DEF ReportInv
    <3>2. c \in DOMAIN CategoryRank
      BY DEF Checks, CategoryRank
    <3>3. summary.by_category[c] = Cardinality({f \in all_findings : f.category = c})
      BY <2>2, <3>2 DEF CountByCategory
    <3>4. summary.by_category[c] = 0
      BY <3>1, <3>3, FS_EmptySet
    <3> QED
      BY <3>4
  <2> QED
    BY <2>1, <2>3
<1>3. CheckInv => TypeInv /\ ReportInv
  BY DEF CheckInv
<1> QED
  BY <1>1, <1>2, <1>3, AccountStep, SummaryStep, SummaryInit, CheckInit, CheckInvStep, PTL DEF Spec
-------------------------------------------------------------------------------
\* A function takes finitely many arguments to finitely many values.
LEMMA ImageFinite ==
  ASSUME NEW S, IsFiniteSet(S), NEW f, DOMAIN f = S, f = [x \in S |-> f[x]]
  PROVE  IsFiniteSet({f[x] : x \in S})
<1> DEFINE T == {f[x] : x \in S}
<1>1. f \in [S -> T]
  OBVIOUS
<1>2. f \in Surjection(S, T)
  BY <1>1 DEF Surjection
<1> QED
  BY <1>2, FS_Surjection

\* The matchers make finitely many findings of finite replies.
LEMMA ChannelsFinite ==
  ASSUME NEW chs, IsFiniteSet(chs), NEW codes, IsFiniteSet(codes)
  PROVE  IsFiniteSet(MatchChannels(chs, codes))
<1>1. IsFiniteSet(UNION {ChannelFindings(r) : r \in chs})
  <2> DEFINE g == [r \in chs |-> ChannelFindings(r)]
  <2>1. IsFiniteSet({g[r] : r \in chs})
    <3>1. DOMAIN g = chs /\ g = [r \in chs |-> g[r]]
      OBVIOUS
    <3> HIDE DEF g
    <3> QED
      BY <3>1, ImageFinite
  <2>2. {g[r] : r \in chs} = {ChannelFindings(r) : r \in chs}
    OBVIOUS
  <2>3. \A fs \in {ChannelFindings(r) : r \in chs} : IsFiniteSet(fs)
    <3> SUFFICES ASSUME NEW r \in chs PROVE IsFiniteSet(ChannelFindings(r))
      OBVIOUS
    <3>1. ChannelFindings(r) \in {{}, {Finding2035(r)}, {FindingConnError(r)},
                                  {FindingIndoubt(r)}, {FindingBadStatus(r)}}
      BY DEF ChannelFindings
    <3>2. /\ IsFiniteSet({})
          /\ IsFiniteSet({Finding2035(r)}) /\ IsFiniteSet({FindingConnError(r)})
          /\ IsFiniteSet({FindingIndoubt(r)}) /\ IsFiniteSet({FindingBadStatus(r)})
      BY FS_EmptySet, FS_Singleton
    <3> QED
      BY <3>1, <3>2
  <2> QED
    BY <2>1, <2>2, <2>3, FS_UNION
<1>2. IsFiniteSet({Finding("channels", "HIGH", "amq", code) : code \in codes \cap KnownCodes})
  <2> DEFINE known == codes \cap KnownCodes
             g == [code \in known |-> Finding("channels", "HIGH", "amq", code)]
  <2>1. IsFiniteSet(known)
    BY FS_Intersection
  <2>2. DOMAIN g = known /\ g = [code \in known |-> g[code]]
    OBVIOUS
  <2>3. {g[code] : code \in known} = {Finding("channels", "HIGH", "amq", code) : code \in known}
    OBVIOUS
  <2> HIDE DEF g, known
  <2>4. IsFiniteSet({g[code] : code \in known})
    BY <2>1, <2>2, ImageFinite
  <2> QED
    BY <2>3, <2>4 DEF known
<1> QED
  BY <1>1, <1>2, FS_Union DEF MatchChannels

LEMMA DlqFinite ==
  ASSUME NEW d, NEW hs, IsFiniteSet(hs)
  PROVE  IsFiniteSet(MatchDlq(d, hs))
<1> DEFINE findings == {FindingForReason(reason) : reason \in {h.reason : h \in hs} \ {0}}
           g == [h \in hs |-> FindingForReason(h.reason)]
<1>1. findings \subseteq {g[h] : h \in hs}
  OBVIOUS
<1>2. DOMAIN g = hs /\ g = [h \in hs |-> g[h]]
  OBVIOUS
<1> HIDE DEF g
<1>3. IsFiniteSet({g[h] : h \in hs})
  BY <1>2, ImageFinite
<1>4. IsFiniteSet(findings)
  BY <1>1, <1>3, FS_Subset
<1>5. IsFiniteSet(IF d > 0 THEN {FindingDlqDepth(d)} ELSE {})
  BY FS_EmptySet, FS_Singleton
<1>6. IsFiniteSet(IF \E h \in hs : h.backout >= BackoutThreshold THEN {FindingBackoutLoop} ELSE {})
  BY FS_EmptySet, FS_Singleton
<1> QED
  BY <1>4, <1>5, <1>6, FS_Union DEF MatchDlq

LEMMA ClusterFinite ==
  ASSUME NEW rs, IsFiniteSet(rs), NEW reply
  PROVE  IsFiniteSet(MatchCluster(rs, reply))
<1> DEFINE g == [r \in rs |-> {Finding("cluster", "CRITICAL", "no_full_repository", r.cluster),
                               Finding("cluster", "HIGH", "unhealthy", r.qm),
                               Finding("cluster", "MEDIUM", "stale", r.qm),
                               Finding("cluster", "MEDIUM", "suspended", r.qm)}]
           alone == {Finding("cluster", "HIGH", "alone", ThisQM)}
<1>1. MatchCluster(rs, reply) \subseteq (UNION {g[r] : r \in rs}) \cup alone
  <2>1. CheckFullRepos(rs, reply) \subseteq UNION {g[r] : r \in rs}
    <3>1. ASSUME NEW f \in CheckFullRepos(rs, reply)
          PROVE  \E r \in rs : f = Finding("cluster", "CRITICAL", "no_full_repository", r.cluster)
      BY DEF CheckFullRepos
    <3> QED
      BY <3>1
  <2>2. CheckUnhealthyChannels(rs) \cup CheckStaleEntries(rs) \cup CheckSuspendedMembers(rs)
          \subseteq UNION {g[r] : r \in rs}
    <3>1. ASSUME NEW f \in CheckUnhealthyChannels(rs) \cup CheckStaleEntries(rs)
                             \cup CheckSuspendedMembers(rs)
          PROVE  \E r \in rs : f \in {Finding("cluster", "HIGH", "unhealthy", r.qm),
                                      Finding("cluster", "MEDIUM", "stale", r.qm),
                                      Finding("cluster", "MEDIUM", "suspended", r.qm)}
      BY DEF CheckUnhealthyChannels, CheckStaleEntries, CheckSuspendedMembers
    <3> QED
      BY <3>1
  <2>3. CheckSelfOnly(rs) \subseteq alone
    BY DEF CheckSelfOnly
  <2> HIDE DEF g, alone
  <2> QED
    BY <2>1, <2>2, <2>3 DEF MatchCluster
<1>2. DOMAIN g = rs /\ g = [r \in rs |-> g[r]]
  OBVIOUS
<1>3. \A r \in rs : IsFiniteSet(g[r])
  <2>1. \A w, x, y, z : IsFiniteSet({w, x, y, z})
    <3> TAKE w, x, y, z
    <3>1. IsFiniteSet({w} \cup {x})
      BY FS_Singleton, FS_AddElement
    <3>2. IsFiniteSet(({w} \cup {x}) \cup {y})
      BY <3>1, FS_AddElement
    <3>3. IsFiniteSet((({w} \cup {x}) \cup {y}) \cup {z})
      BY <3>2, FS_AddElement
    <3>4. {w, x, y, z} = (({w} \cup {x}) \cup {y}) \cup {z}
      OBVIOUS
    <3> QED
      BY <3>3, <3>4
  <2> QED
    BY <2>1
<1>4. IsFiniteSet(alone)
  BY FS_Singleton
<1> HIDE DEF g, alone
<1>5. IsFiniteSet({g[r] : r \in rs})
  BY <1>2, ImageFinite
<1>6. IsFiniteSet(UNION {g[r] : r \in rs})
  BY <1>3, <1>5, FS_UNION
<1>7. IsFiniteSet((UNION {g[r] : r \in rs}) \cup alone)
  BY <1>4, <1>6, FS_Union
<1> QED
  BY <1>1, <1>7, FS_Subset

\* Finitely many findings.
FiniteInv == IsFiniteSet(all_findings) /\ IsFiniteSet(headers)

LEMMA FiniteStep == SeenInv /\ FiniteInv /\ TypeInv /\ [Next]_vars => FiniteInv'
<1> SUFFICES ASSUME SeenInv, FiniteInv, TypeInv, [Next]_vars PROVE FiniteInv'
  OBVIOUS
<1>1. IsFiniteSet(all_findings')
  <2>1. CASE ViewChanges \/ (\E m \in Messages : Put(m) \/ Get(m)) \/ Break
    BY <2>1, EnvironmentStep DEF FiniteInv
  <2>2. ASSUME NEW ok \in BOOLEAN, DisplayQmstatus(ok) PROVE IsFiniteSet(all_findings')
    <3>1. IsFiniteSet(rows)
      <4>1. pc = "qmstatus"
        BY <2>2 DEF DisplayQmstatus, Command
      <4>2. rows = {} \/ \E v \in Views : rows = v.channels
        BY <4>1 DEF SeenInv
      <4>3. \A v \in Views : IsFiniteSet(v.channels)
        BY ViewsAssumption
      <4> QED
        BY <4>2, <4>3, FS_EmptySet
    <3>2. IsFiniteSet(LogTail(ok))
      <4>1. LogTail(ok) = {} \/ LogTail(ok) = view.codes
        BY DEF LogTail
      <4>2. view \in Views
        BY DEF TypeInv, TypeOK
      <4>3. IsFiniteSet(view.codes)
        BY <4>2, ViewsAssumption
      <4> QED
        BY <4>1, <4>3, FS_EmptySet
    <3>3. IsFiniteSet(MatchChannels(rows, LogTail(ok)))
      BY <3>1, <3>2, ChannelsFinite
    <3> QED
      BY <2>2, <3>3, FS_Union DEF DisplayQmstatus, Ran, FiniteInv
  <2>3. CASE BrowseEnds
    <3>1. IsFiniteSet(MatchDlq(depth, headers))
      BY DlqFinite DEF FiniteInv
    <3> QED
      BY <2>3, <3>1, FS_Union DEF BrowseEnds, Ran, FiniteInv
  <2>4. ASSUME NEW ok \in BOOLEAN, DisplayQmname(ok) PROVE IsFiniteSet(all_findings')
    <3>1. IsFiniteSet(rows)
      <4>1. pc = "qmname"
        BY <2>4 DEF DisplayQmname, Command
      <4>2. rows = {} \/ \E v \in Views : rows = v.clusqmgrs
        BY <4>1 DEF SeenInv
      <4>3. \A v \in Views : IsFiniteSet(v.clusqmgrs)
        BY ViewsAssumption
      <4> QED
        BY <4>2, <4>3, FS_EmptySet
    <3>2. IsFiniteSet(MatchCluster(rows, repos))
      BY <3>1, ClusterFinite
    <3> QED
      BY <2>4, <3>2, FS_Union DEF DisplayQmname, Ran, FiniteInv
  <2>5. CASE all_findings' = all_findings
    BY <2>5 DEF FiniteInv
  <2>6. UNCHANGED vars => all_findings' = all_findings
    BY DEF vars, resultVars
  <2> QED
    BY <2>1, <2>2, <2>3, <2>4, <2>5, <2>6, ResultsStay DEF Next
<1>2. IsFiniteSet(headers')
  <2>1. CASE ViewChanges \/ (\E m \in Messages : Put(m) \/ Get(m)) \/ Break
    BY <2>1, EnvironmentStep DEF FiniteInv
  <2>2. ASSUME NEW m \in Messages, BrowseNext(m) PROVE IsFiniteSet(headers')
    <3>1. headers' \subseteq headers \cup {m}
      BY <2>2 DEF BrowseNext, ParseDlh
    <3>2. IsFiniteSet(headers \cup {m})
      BY FS_AddElement DEF FiniteInv
    <3> QED
      BY <3>1, <3>2, FS_Subset
  <2>3. CASE BadSample \/ BrowseEnds \/ BrowseFails
    BY <2>3, FS_EmptySet DEF BadSample, BrowseEnds, BrowseFails, DlqForgotten
  <2>4. ASSUME NEW ok \in BOOLEAN,
               \/ DisplayChstatus(ok) \/ DisplayQmstatus(ok) \/ DisplayDeadq(ok) \/ OpenQueue(ok)
               \/ DisplayClusqmgr(ok) \/ DisplayRepos(ok) \/ DisplayQmname(ok)
        PROVE  IsFiniteSet(headers')
    BY <2>4
    DEF DisplayChstatus, DisplayQmstatus, DisplayDeadq, OpenQueue, DisplayClusqmgr, DisplayRepos,
        DisplayQmname, dlqVars, FiniteInv
  <2>5. CASE Report \/ UNCHANGED vars
    BY <2>5 DEF Report, vars, dlqVars, FiniteInv
  <2> QED
    BY <2>1, <2>2, <2>3, <2>4, <2>5 DEF Next, CheckStep
<1> QED
  BY <1>1, <1>2 DEF FiniteInv

\* What _build_summary makes of finitely many findings with known severities.
LEMMA SummaryOf ==
  ASSUME NEW fs, IsFiniteSet(fs), \A f \in fs : f.severity \in DOMAIN SeverityRank,
         NEW s \in Summaries(fs)
  PROVE  /\ s.overall_status = "OK" <=> fs = {}
         /\ \A f \in fs :
              /\ SeverityRank[s.overall_status] <= SeverityRank[f.severity]
              /\ f \notin s.top_issues =>
                   /\ Cardinality(s.top_issues) = TopIssues
                   /\ \A g \in s.top_issues : SeverityRank[g.severity] <= SeverityRank[f.severity]
<1> DEFINE severities == {f.severity : f \in fs}
<1>1. s.overall_status = Overall(fs) /\ s.top_issues \in Top(fs)
  BY DEF Summaries
<1>2. \A z \in DOMAIN SeverityRank : SeverityRank[z] \in 0 .. 3
  BY DEF SeverityRank
<1>3. ASSUME fs # {}
      PROVE  /\ Overall(fs) \in DOMAIN SeverityRank
             /\ \A f \in fs : SeverityRank[Overall(fs)] <= SeverityRank[f.severity]
  <2>1. severities # {} /\ severities \subseteq DOMAIN SeverityRank
    BY <1>3
  <2>2. \E worst \in severities : \A z \in severities : SeverityRank[worst] <= SeverityRank[z]
    <3>1. DOMAIN SeverityRank = {"CRITICAL", "HIGH", "MEDIUM", "LOW"}
      BY DEF SeverityRank
    <3>2. /\ SeverityRank["CRITICAL"] = 0 /\ SeverityRank["HIGH"] = 1
          /\ SeverityRank["MEDIUM"] = 2 /\ SeverityRank["LOW"] = 3
      BY DEF SeverityRank
    <3> HIDE DEF severities
    <3> QED
      BY <2>1, <3>1, <3>2
  <2>3. Overall(fs) = CHOOSE worst \in severities :
                        \A z \in severities : SeverityRank[worst] <= SeverityRank[z]
    BY <2>1 DEF Overall
  <2>4. /\ Overall(fs) \in severities
        /\ \A z \in severities : SeverityRank[Overall(fs)] <= SeverityRank[z]
    <3> HIDE DEF severities
    <3> QED
      BY <2>2, <2>3
  <2> QED
    BY <2>1, <2>4
<1>4. s.overall_status = "OK" <=> fs = {}
  <2>1. fs = {} => Overall(fs) = "OK"
    BY DEF Overall
  <2>2. "OK" \notin DOMAIN SeverityRank
    BY DEF SeverityRank
  <2> QED
    BY <1>1, <1>3, <2>1, <2>2
<1>5. ASSUME NEW f \in fs, f \notin s.top_issues
      PROVE  /\ Cardinality(s.top_issues) = TopIssues
             /\ \A g \in s.top_issues : SeverityRank[g.severity] <= SeverityRank[f.severity]
  <2> DEFINE top == s.top_issues
  <2>1. /\ top \in SUBSET fs
        /\ Cardinality(top) = IF Cardinality(fs) < TopIssues THEN Cardinality(fs) ELSE TopIssues
        /\ \A g \in top, h \in fs \ top : ~Before(h, g)
    BY <1>1 DEF Top
  <2>2. Cardinality(top) # Cardinality(fs)
    BY <1>5, <2>1, FS_Subset
  <2>3. ASSUME NEW g \in top PROVE SeverityRank[g.severity] <= SeverityRank[f.severity]
    <3>1. ~(SeverityRank[f.severity] < SeverityRank[g.severity])
      BY <1>5, <2>1, <2>3 DEF Before
    <3>2. SeverityRank[f.severity] \in 0 .. 3 /\ SeverityRank[g.severity] \in 0 .. 3
      BY <1>2, <2>1, <2>3
    <3> QED
      BY <3>1, <3>2
  <2> QED
    BY <2>1, <2>2, <2>3
<1> QED
  BY <1>1, <1>3, <1>4, <1>5

\* The overall status is the worst severity reported, "OK" only if nothing is; what is
\* not among the five top issues is no more severe than any of them, and there are five.
THEOREM HealthSummaryTellsWorst == Spec => []SummaryTellsWorst
<1>1. CheckInv /\ FiniteInv /\ SummaryInv => SummaryTellsWorst
  BY SummaryOf DEF CheckInv, ReportInv, FiniteInv, SummaryInv, SummaryTellsWorst
<1>2. Init => FiniteInv
  BY FS_EmptySet DEF Init, FiniteInv
<1>3. CheckInv => SeenInv /\ TypeInv
  BY DEF CheckInv
<1> QED
  BY <1>1, <1>2, <1>3, FiniteStep, SummaryStep, SummaryInit, CheckInit, CheckInvStep, PTL DEF Spec
===============================================================================
