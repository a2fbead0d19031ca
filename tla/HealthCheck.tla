----------------------------- MODULE HealthCheck -----------------------------
(***************************************************************************)
(* full_mq_health_check (tools/health_check.py) with the collectors and    *)
(* matchers it runs (tools and rcs/matchers: channels, dlq, cluster) and    *)
(* the dead-letter browse of the live connector.                           *)
(*                                                                         *)
(* The tool is sequential; the queue manager is not still while it runs.   *)
(* Between two commands channels and cluster members change, messages come *)
(* and go on the dead-letter queue, the connection may break, and any one  *)
(* command may be refused.  Most collectors turn a failed command into an  *)
(* empty reply; only a failing check as a whole is skipped.                *)
(*                                                                         *)
(* A finding is what it is about, not its prose; rows, findings and        *)
(* headers are distinguishable, so their lists are sets.                   *)
(***************************************************************************)
EXTENDS Integers, FiniteSets

CONSTANTS
  ThisQM,        \* the queue manager the tool is connected to
  Views,         \* what DISPLAY commands may show of it
  KnownCodes,    \* AMQ codes the citation registry has an entry for
  Upper,         \* Upper[c]: cluster name c in upper case
  Messages,      \* messages that may be on the dead-letter queue
  SampleSizes,   \* dlq_sample_size as clients give it
  MaxSample,     \* _MAX_SAMPLE
  MediumAbove, HighAbove, CriticalAbove,   \* depths of _finding_dlq_depth
  MaxChanges,    \* bound: how often the view changes during a check
  NoReply        \* the empty text of a failed command

ASSUME LimitsAssumption ==
  /\ {MaxSample, MediumAbove, HighAbove, CriticalAbove, MaxChanges} \subseteq Nat
  /\ SampleSizes \subseteq Int
  /\ \A m \in Messages : m.reason \in Nat /\ m.backout \in Nat /\ m.header \in BOOLEAN

\* A reply has finitely many rows, names and codes.
\* MQ lists the local queue manager among the members of its clusters, as a full
\* repository of the cluster that its REPOS attribute names; it may be one of others
\* by REPOSNL, a namelist that the check does not look into.
ASSUME ViewsAssumption ==
  \A v \in Views :
    /\ IsFiniteSet(v.channels) /\ IsFiniteSet(v.codes) /\ IsFiniteSet(v.clusqmgrs)
    /\ NoReply # v.repos /\ v.repos \subseteq DOMAIN Upper
    /\ \A r \in v.clusqmgrs :
         \E own \in v.clusqmgrs : own.qm = ThisQM /\ own.cluster = r.cluster
    /\ \A r \in v.clusqmgrs : r.qm = ThisQM /\ r.cluster \in v.repos => r.repos

VARIABLES
  view,      \* channels, cluster members and attributes of the queue manager
  queue,     \* the messages on its dead-letter queue
  deadq,     \* which queue that is: "own", "system" (the default) or "none"
  fallback,  \* the messages on the default queue while it is not that queue
  conn,      \* "up", or broken "before" or "after" the end of the browse
  changes,   \* auxiliary: how often the view has changed
  pc,        \* the command the check is about to send
  sample,    \* dlq_sample_size
  rows,      \* rows the check under way has collected
  repos,     \* its DISPLAY QMGR REPOS reply
  target,    \* the queue it browses
  depth,     \* the depth it inquired
  ahead,     \* messages the browse cursor has not passed
  taken,     \* how many messages it has got
  headers,   \* the headers it has parsed
  checks_run, checks_skipped,
  all_findings,
  summary,   \* _build_summary's result
  failed,    \* auxiliary: has any command failed
  ever,      \* auxiliary: what was true at some time of the check
  always     \* auxiliary: what was true at all times of the check

qmVars == <<view, queue, deadq, fallback, conn, changes>>
dlqVars == <<target, depth, ahead, taken, headers>>
resultVars == <<checks_run, checks_skipped, all_findings, summary>>
auxVars == <<failed, ever, always>>
vars == <<qmVars, pc, sample, rows, repos, dlqVars, resultVars, auxVars>>
-----------------------------------------------------------------------------
(* The matchers.                                                           *)

Finding(category, severity, kind, about) ==
  [category |-> category, severity |-> severity, kind |-> kind, about |-> about]

BadStatus == {"RETRYING", "STOPPED", "PAUSED", "INDOUBT", "INACTIVE_FAILED"}

\* A mutation of InDoubt: live rows say INDOUBT(YES), not STATUS(INDOUBT).
InDoubtByStatus(r) == r.status = "INDOUBT"

InDoubt(r) == r.status = "INDOUBT" \/ r.indoubt

Finding2035(r) == Finding("channels", "HIGH", "not_authorized", r.channel)

FindingConnError(r) == Finding("channels", "HIGH", "connection", r.channel)

FindingIndoubt(r) == Finding("channels", "CRITICAL", "in_doubt", r.channel)

FindingBadStatus(r) == Finding("channels", "MEDIUM", "bad_status", r.channel)

\* The first test that applies to a row decides what is said of it.
ChannelFindings(r) ==
  IF r.reason = 2035 THEN {Finding2035(r)}
  ELSE IF r.reason \in {2009, 2059} THEN {FindingConnError(r)}
  ELSE IF InDoubt(r) THEN {FindingIndoubt(r)}
  ELSE IF r.status \in BadStatus THEN {FindingBadStatus(r)}
  ELSE {}

MatchChannels(chs, codes) ==
  (UNION {ChannelFindings(r) : r \in chs})
    \cup {Finding("channels", "HIGH", "amq", code) : code \in codes \cap KnownCodes}

FindingDlqDepth(d) ==
  Finding("dlq", IF d > CriticalAbove THEN "CRITICAL"
                 ELSE IF d > HighAbove THEN "HIGH"
                 ELSE IF d > MediumAbove THEN "MEDIUM"
                 ELSE "LOW", "depth", "dlq")

ReasonSeverity(reason) ==
  IF reason \in {2035, 2051, 2053} THEN "HIGH" ELSE IF reason = 2079 THEN "LOW" ELSE "MEDIUM"

FindingForReason(reason) == Finding("dlq", ReasonSeverity(reason), "reason", reason)

FindingBackoutLoop == Finding("dlq", "HIGH", "backout", "dlq")

BackoutThreshold == 5

\* Depth, one finding per reason code, poison messages.
MatchDlq(d, hs) ==
  (IF d > 0 THEN {FindingDlqDepth(d)} ELSE {})
    \cup {FindingForReason(reason) : reason \in {h.reason : h \in hs} \ {0}}
    \cup (IF \E h \in hs : h.backout >= BackoutThreshold THEN {FindingBackoutLoop} ELSE {})

\* _self_full_repo_clusters upper-cases the reply before it cuts the names out.
SelfFull(reply) == IF reply = NoReply THEN {} ELSE {Upper[c] : c \in reply}

CheckFullRepos(rs, reply) ==
  {Finding("cluster", "CRITICAL", "no_full_repository", c) :
     c \in {c \in {r.cluster : r \in rs} \ SelfFull(reply) :
              \A r \in rs : r.cluster = c => ~r.repos}}

CheckUnhealthyChannels(rs) ==
  {Finding("cluster", "HIGH", "unhealthy", r.qm) :
     r \in {r \in rs : r.status \in BadStatus \ {"INDOUBT"}}}

StaleDays == 7

\* r.days is the age of CLUSDATE in whole days, -1 if there is no such date.
CheckStaleEntries(rs) ==
  {Finding("cluster", "MEDIUM", "stale", r.qm) : r \in {r \in rs : r.days >= StaleDays}}

CheckSuspendedMembers(rs) ==
  {Finding("cluster", "MEDIUM", "suspended", r.qm) : r \in {r \in rs : r.suspended}}

\* A mutation of CheckSelfOnly: no rows read like no other members.
CheckSelfOnlyUnguarded(rs) ==
  {Finding("cluster", "HIGH", "alone", q) : q \in {q \in {ThisQM} : \A r \in rs : r.qm = q}}

CheckSelfOnly(rs) ==
  {Finding("cluster", "HIGH", "alone", q) :
     q \in {q \in {ThisQM} : rs # {} /\ \A r \in rs : r.qm = q}}

MatchCluster(rs, reply) ==
  IF rs = {} /\ reply = NoReply
    THEN {}
    ELSE CheckFullRepos(rs, reply) \cup CheckUnhealthyChannels(rs) \cup CheckStaleEntries(rs)
           \cup CheckSuspendedMembers(rs) \cup CheckSelfOnly(rs)
-----------------------------------------------------------------------------
(* Ranking and summary.                                                    *)

SeverityRank == [CRITICAL |-> 0, HIGH |-> 1, MEDIUM |-> 2, LOW |-> 3]

CategoryRank == [channels |-> 0, dlq |-> 1, cluster |-> 2]

\* A mutation of Before: severities compared as the strings they are.
BeforeAlphabetical(f, g) ==
  LET name == [CRITICAL |-> 0, HIGH |-> 1, LOW |-> 2, MEDIUM |-> 3] IN
  \/ name[f.severity] < name[g.severity]
  \/ f.severity = g.severity /\ CategoryRank[f.category] < CategoryRank[g.category]

\* _finding_sort_key; findings with equal ranks are ordered by their prose.
Before(f, g) ==
  \/ SeverityRank[f.severity] < SeverityRank[g.severity]
  \/ f.severity = g.severity /\ CategoryRank[f.category] < CategoryRank[g.category]

TopIssues == 5

\* sorted_findings[:5], as a set.
Top(fs) ==
  {top \in SUBSET fs :
     /\ Cardinality(top) = IF Cardinality(fs) < TopIssues THEN Cardinality(fs) ELSE TopIssues
     /\ \A f \in top, g \in fs \ top : ~Before(g, f)}

Overall(fs) ==
  LET severities == {f.severity : f \in fs} IN
  IF severities = {} THEN "OK"
  ELSE CHOOSE s \in severities : \A z \in severities : SeverityRank[s] <= SeverityRank[z]

CountByCategory(fs) ==
  [c \in DOMAIN CategoryRank |-> Cardinality({f \in fs : f.category = c})]

\* _build_summary; findings of equal rank may come in any order.
Summaries(fs) ==
  {[overall_status |-> Overall(fs), by_category |-> CountByCategory(fs), top_issues |-> top] :
     top \in Top(fs)}
-----------------------------------------------------------------------------
(* What is true of the queue manager, whatever the tool makes of it.       *)

Fact(category, kind, about) == [category |-> category, kind |-> kind, about |-> about]

\* What messages on a queue say of it.
QueueFacts(category, q) ==
  {Fact(category, "depth", "dlq") : m \in q}
    \cup {Fact(category, "reason", m.reason) : m \in q}
    \cup {Fact(category, "backout", "dlq") : m \in {m \in q : m.backout >= BackoutThreshold}}

Facts(v, q) ==
  {Fact("channels", "not_authorized", r.channel) : r \in {r \in v.channels : r.reason = 2035}}
    \cup {Fact("channels", "connection", r.channel) :
            r \in {r \in v.channels : r.reason \in {2009, 2059}}}
    \cup {Fact("channels", "in_doubt", r.channel) :
            r \in {r \in v.channels : r.indoubt \/ r.status = "INDOUBT"}}
    \cup {Fact("channels", "bad_status", r.channel) :
            r \in {r \in v.channels : r.status \in BadStatus \ {"INDOUBT"}}}
    \cup {Fact("channels", "amq", code) : code \in v.codes}
    \cup QueueFacts("dlq", q)
    \cup {Fact("cluster", "no_full_repository", r.cluster) :
            r \in {r \in v.clusqmgrs :
                     ~\E full \in v.clusqmgrs : full.cluster = r.cluster /\ full.repos}}
    \cup {Fact("cluster", "unhealthy", r.qm) :
            r \in {r \in v.clusqmgrs : r.status \in BadStatus \ {"INDOUBT"}}}
    \cup {Fact("cluster", "stale", r.qm) : r \in {r \in v.clusqmgrs : r.days >= StaleDays}}
    \cup {Fact("cluster", "suspended", r.qm) : r \in {r \in v.clusqmgrs : r.suspended}}
    \cup {Fact("cluster", "alone", r.qm) :
            r \in {r \in v.clusqmgrs : {z.qm : z \in v.clusqmgrs} = {ThisQM}}}

\* What is no trouble, but may mislead the tool: which cluster REPOS names, and what
\* is on the default dead-letter queue while it is not the dead-letter queue.
Circumstances(v, other) ==
  {Fact("cluster", "full_repository", c) : c \in v.repos} \cup QueueFacts("fallback", other)
-----------------------------------------------------------------------------
Init ==
  /\ view \in Views
  /\ deadq \in {"own", "system", "none"}
  /\ queue \in {q \in SUBSET Messages : IsFiniteSet(q) /\ (deadq = "none" => q = {})}
  /\ fallback \in {q \in SUBSET (Messages \ queue) : IsFiniteSet(q) /\ (deadq = "system" => q = {})}
  /\ conn = "up"
  /\ changes = 0
  /\ pc = "chstatus"
  /\ sample \in SampleSizes
  /\ rows = {} /\ repos = NoReply
  /\ target = "none" /\ depth = 0 /\ ahead = {} /\ taken = 0 /\ headers = {}
  /\ checks_run = {} /\ checks_skipped = {}
  /\ all_findings = {}
  /\ summary \in Summaries({})
  /\ failed = FALSE
  /\ ever = Facts(view, queue) \cup Circumstances(view, fallback)
  /\ always = Facts(view, queue)

toolVars == <<pc, sample, rows, repos, target, depth, taken, headers, resultVars, failed>>

Witness(v, q, other) ==
  /\ ever' = ever \cup Facts(v, q) \cup Circumstances(v, other)
  /\ always' = always \cap Facts(v, q)

\* Channels start and stop, members join, leave, suspend; attributes are altered.
ViewChanges ==
  /\ pc # "done"
  /\ changes < MaxChanges
  /\ changes' = changes + 1
  /\ view' \in Views \ {view}
  /\ Witness(view', queue, fallback)
  /\ UNCHANGED <<queue, deadq, fallback, conn, ahead, toolVars>>

\* A message is put to the dead-letter queue, or to the default one if that is
\* another queue, behind every browse cursor's place.
Put(m) ==
  /\ pc # "done"
  /\ m \notin queue \cup fallback
  /\ \/ /\ deadq # "none"
        /\ queue' = queue \cup {m} /\ UNCHANGED fallback
        /\ ahead' = IF pc = "browse" /\ target = deadq THEN ahead \cup {m} ELSE ahead
     \/ /\ deadq # "system"
        /\ fallback' = fallback \cup {m} /\ UNCHANGED queue
        /\ ahead' = IF pc = "browse" /\ target # deadq THEN ahead \cup {m} ELSE ahead
  /\ Witness(view, queue', fallback')
  /\ UNCHANGED <<view, deadq, conn, changes, toolVars>>

\* A dead-letter handler, or an application, takes a message off.
Get(m) ==
  /\ pc # "done"
  /\ m \in queue \cup fallback
  /\ queue' = queue \ {m} /\ fallback' = fallback \ {m}
  /\ ahead' = ahead \ {m}
  /\ Witness(view, queue', fallback')
  /\ UNCHANGED <<view, deadq, conn, changes, toolVars>>

\* Where the check is until it has browsed the dead-letter queue.
BeforeBrowsed == {"chstatus", "qmstatus", "deadq", "open", "browse"}

\* The connection breaks; every later command fails.
Break ==
  /\ conn = "up"
  /\ pc \notin {"report", "done"}
  /\ conn' = IF pc \in BeforeBrowsed THEN "before" ELSE "after"
  /\ UNCHANGED <<view, queue, deadq, fallback, changes, ahead, ever, always, toolVars>>
-----------------------------------------------------------------------------
(* The check.  execute_mqsc answers, or raises: a broken connection, a      *)
(* command that is refused.                                                *)

Command(cmd, ok) ==
  /\ pc = cmd
  /\ ok => conn = "up"
  /\ failed' = (failed \/ ~ok)
  /\ UNCHANGED <<ever, always>>

Goto(where) == pc' = where

\* run_dlq_checks returns or raises: its locals are gone.
DlqForgotten ==
  target' = "none" /\ depth' = 0 /\ ahead' = {} /\ taken' = 0 /\ headers' = {}

\* _safe_run: the check returned findings.
Ran(check, found) ==
  /\ checks_run' = checks_run \cup {check}
  /\ all_findings' = all_findings \cup found
  /\ UNCHANGED <<checks_skipped, summary>>

\* A mutation of Skipped: the check is listed as run before it is called.
SkippedAfterRun(check) ==
  /\ checks_run' = checks_run \cup {check}
  /\ checks_skipped' = checks_skipped \cup {check}
  /\ UNCHANGED <<all_findings, summary>>

\* _safe_run: the check raised.
Skipped(check) ==
  /\ checks_skipped' = checks_skipped \cup {check}
  /\ UNCHANGED <<checks_run, all_findings, summary>>

\* _collect_channel_status: no rows if the command fails.
DisplayChstatus(ok) ==
  /\ Command("chstatus", ok)
  /\ rows' = IF ok THEN view.channels ELSE {}
  /\ Goto("qmstatus")
  /\ UNCHANGED <<qmVars, sample, repos, dlqVars, resultVars>>

\* _read_error_log_tail: the codes in the reply, none if the command fails.
LogTail(ok) == IF ok THEN view.codes ELSE {}

\* The second command of run_channel_checks, then the channel matcher.
DisplayQmstatus(ok) ==
  /\ Command("qmstatus", ok)
  /\ Ran("channels", MatchChannels(rows, LogTail(ok)))
  /\ rows' = {}
  /\ Goto("deadq")
  /\ UNCHANGED <<qmVars, sample, repos, dlqVars>>

\* run_dlq_checks refuses a sample size out of range.
BadSample ==
  /\ pc = "deadq"
  /\ sample \notin 1 .. MaxSample
  /\ Skipped("dlq")
  /\ DlqForgotten
  /\ Goto("clusqmgr")
  /\ UNCHANGED <<qmVars, sample, rows, repos, auxVars>>

\* _resolve_dlq_name: the default queue if the command fails or names none.
DisplayDeadq(ok) ==
  /\ Command("deadq", ok)
  /\ sample \in 1 .. MaxSample
  /\ target' = IF ok /\ deadq = "own" THEN "own" ELSE "system"
  /\ Goto("open")
  /\ UNCHANGED <<qmVars, sample, rows, repos, depth, ahead, taken, headers, resultVars>>

\* What is on the queue the check browses.
Contents == IF target = deadq THEN queue ELSE fallback

\* _parse_dlh_safely: the header of a message that has one.
ParseDlh(m) == {h \in {m} : h.header}

\* browse_dlq opens the queue and inquires its depth, 0 if the inquiry fails.
OpenQueue(inquired) ==
  /\ pc = "open"
  /\ conn = "up"
  /\ depth' = IF inquired THEN Cardinality(Contents) ELSE 0
  /\ ahead' = Contents
  /\ failed' = (failed \/ ~inquired)
  /\ Goto("browse")
  /\ UNCHANGED <<qmVars, sample, rows, repos, target, taken, headers, resultVars, ever, always>>

\* A mutation of BrowseNext: the loop runs until the queue is empty.
BrowseNextUnbounded(m) ==
  /\ pc = "browse"
  /\ conn = "up"
  /\ m \in ahead
  /\ ahead' = ahead \ {m}
  /\ headers' = headers \cup ParseDlh(m)
  /\ UNCHANGED <<qmVars, pc, sample, rows, repos, target, depth, taken, resultVars, auxVars>>

\* A mutation of BrowseNext: one message more than asked for.
BrowseNextPast(m) ==
  /\ pc = "browse"
  /\ conn = "up"
  /\ taken <= sample
  /\ m \in ahead
  /\ ahead' = ahead \ {m}
  /\ taken' = taken + 1
  /\ headers' = headers \cup ParseDlh(m)
  /\ UNCHANGED <<qmVars, pc, sample, rows, repos, target, depth, resultVars, auxVars>>

\* One round of the loop: MQGET with BROWSE_FIRST or BROWSE_NEXT; a message
\* without a dead-letter header is passed over, and counts.
BrowseNext(m) ==
  /\ pc = "browse"
  /\ conn = "up"
  /\ taken < sample
  /\ m \in ahead
  /\ ahead' = ahead \ {m}
  /\ taken' = taken + 1
  /\ headers' = headers \cup ParseDlh(m)
  /\ UNCHANGED <<qmVars, pc, sample, rows, repos, target, depth, resultVars, auxVars>>

\* NO_MSG_AVAILABLE or the end of the loop; the queue is closed and matched.
BrowseEnds ==
  /\ pc = "browse"
  /\ conn = "up"
  /\ ahead = {} \/ taken >= sample
  /\ Ran("dlq", MatchDlq(depth, headers))
  /\ DlqForgotten
  /\ Goto("clusqmgr")
  /\ UNCHANGED <<qmVars, sample, rows, repos, auxVars>>

\* A mutation of BrowseFails: a best-effort browse that returns what it has.
BrowseFailsQuietly ==
  /\ pc \in {"open", "browse"}
  /\ failed' = TRUE
  /\ Ran("dlq", MatchDlq(depth, headers))
  /\ DlqForgotten
  /\ Goto("clusqmgr")
  /\ UNCHANGED <<qmVars, sample, rows, repos, ever, always>>

\* Opening, getting or closing raises, and so does the check.
BrowseFails ==
  /\ pc \in {"open", "browse"}
  /\ failed' = TRUE
  /\ Skipped("dlq")
  /\ DlqForgotten
  /\ Goto("clusqmgr")
  /\ UNCHANGED <<qmVars, sample, rows, repos, ever, always>>

DisplayClusqmgr(ok) ==
  /\ Command("clusqmgr", ok)
  /\ rows' = IF ok THEN view.clusqmgrs ELSE {}
  /\ Goto("repos")
  /\ UNCHANGED <<qmVars, sample, repos, dlqVars, resultVars>>

DisplayRepos(ok) ==
  /\ Command("repos", ok)
  /\ repos' = IF ok THEN view.repos ELSE NoReply
  /\ Goto("qmname")
  /\ UNCHANGED <<qmVars, sample, rows, dlqVars, resultVars>>

\* The name from the inventory stands in for the reply; then the matcher.
DisplayQmname(ok) ==
  /\ Command("qmname", ok)
  /\ Ran("cluster", MatchCluster(rows, repos))
  /\ rows' = {} /\ repos' = NoReply
  /\ Goto("report")
  /\ UNCHANGED <<qmVars, sample, dlqVars>>

Report ==
  /\ pc = "report"
  /\ summary' \in Summaries(all_findings)
  /\ Goto("done")
  /\ UNCHANGED <<qmVars, sample, rows, repos, dlqVars, checks_run, checks_skipped, all_findings,
                 auxVars>>

CheckStep ==
  \/ \E ok \in BOOLEAN :
       \/ DisplayChstatus(ok)
       \/ DisplayQmstatus(ok)
       \/ DisplayDeadq(ok)
       \/ OpenQueue(ok)
       \/ DisplayClusqmgr(ok)
       \/ DisplayRepos(ok)
       \/ DisplayQmname(ok)
  \/ BadSample
  \/ \E m \in Messages : BrowseNext(m)
  \/ BrowseEnds
  \/ BrowseFails
  \/ Report

Next ==
  \/ ViewChanges
  \/ \E m \in Messages : Put(m) \/ Get(m)
  \/ Break
  \/ CheckStep

Spec == Init /\ [][Next]_vars

\* Every command is answered or fails in the end.
FairSpec == Spec /\ WF_vars(CheckStep)
-----------------------------------------------------------------------------
Sampled == {"reason", "backout"}
Checks == {"channels", "dlq", "cluster"}
Places == {"chstatus", "qmstatus", "deadq", "open", "browse", "clusqmgr", "repos", "qmname",
           "report", "done"}

\* Types of the tool's locals; a sample never has more messages than asked for.
TypeOK ==
  /\ view \in Views
  /\ queue \subseteq Messages /\ fallback \subseteq Messages
  /\ deadq \in {"own", "system", "none"}
  /\ conn \in {"up", "before", "after"}
  /\ changes \in 0 .. MaxChanges
  /\ pc \in Places
  /\ sample \in SampleSizes
  /\ target \in {"own", "system", "none"}
  /\ depth \in Nat
  /\ ahead \subseteq Contents
  /\ taken \in Nat /\ (taken > 0 => taken <= sample)
  /\ headers \subseteq Messages
  /\ failed \in BOOLEAN
  /\ checks_run \subseteq Checks /\ checks_skipped \subseteq Checks

\* Finding f was true of the queue manager at some time of the check.  Or it is the
\* one false alarm there is: a command failed, which may be DISPLAY QMGR DEADQ, or
\* DEADQ names no queue, and f is about SYSTEM.DEAD.LETTER.QUEUE, which is browsed and
\* reported instead although it is not the dead-letter queue.
Witnessed(f) ==
  \/ Fact(f.category, f.kind, f.about) \in ever
  \/ /\ f.category = "dlq" /\ (failed \/ deadq = "none")
     /\ Fact("fallback", f.kind, f.about) \in ever

\* Whatever failed or changed while the check ran, everything it reports was so, with
\* the one exception named.  In particular an empty reply of a failed command is not
\* taken for a state.
FindingsWitnessed == \A f \in all_findings : Witnessed(f)

\* This queue manager is a full repository of another cluster, whose name in upper
\* case is the name that t is about.
MistakenForRepository(t) ==
  /\ t.kind = "no_full_repository"
  /\ \E c \in DOMAIN Upper \ {t.about} :
       Upper[c] = t.about /\ Fact("cluster", "full_repository", c) \in ever

\* Nothing missed: if no command failed, a trouble that lasted from beginning to
\* end of the check is reported, as a finding about the same thing.  Reason codes
\* and poison messages are found by sampling and may be missed; a code without an
\* entry in the registry is, and so is the missing repository of a cluster that is
\* mistaken for one of this queue manager's own.
NothingMissed ==
  (pc = "done" /\ ~failed /\ sample \in 1 .. MaxSample) =>
    \A t \in always :
      \/ t.kind \in Sampled
      \/ t.kind = "amq" /\ t.about \notin KnownCodes
      \/ MistakenForRepository(t)
      \/ \E f \in all_findings :
           f.kind \notin Sampled /\ f.category = t.category /\ f.about = t.about

\* The report accounts for every check once, and a check that was skipped adds
\* nothing to it.
SkippedSayNothing ==
  pc = "done" =>
    /\ checks_run \cup checks_skipped = Checks
    /\ checks_run \cap checks_skipped = {}
    /\ \A c \in Checks : summary.by_category[c] > 0 => c \in checks_run

\* The overall status is the worst severity reported, and no finding is more
\* severe than a top issue unless it is one itself.
SummaryTellsWorst ==
  pc = "done" =>
    LET top == summary.top_issues IN
    /\ summary.overall_status = "OK" <=> all_findings = {}
    /\ \A f \in all_findings :
         /\ SeverityRank[summary.overall_status] <= SeverityRank[f.severity]
         /\ f \notin top =>
              /\ Cardinality(top) = TopIssues
              /\ \A g \in top : SeverityRank[g.severity] <= SeverityRank[f.severity]

\* A connection that broke before the dead-letter queue was browsed shows in
\* checks_skipped, although the collectors before and after swallow their errors.  One
\* that breaks after the browse leaves no trace: the cluster check swallows them all.
DeadConnectionShows ==
  (pc = "done" /\ conn = "before") => "dlq" \in checks_skipped

\* The check ends even if the dead-letter queue is filled as fast as it is browsed.
ReportAlwaysMade == <>(pc = "done")
=============================================================================
