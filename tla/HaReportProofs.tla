----------------------------- MODULE HaReportProofs -----------------------------
(***************************************************************************)
(* What the reports of the four HA tools say of any systems: nothing that  *)
(* was not so, and everything that an answered command showed, but for the *)
(* cases HaDiagnosis names.                                                *)
(***************************************************************************)
EXTENDS HaDiagnosisProofs, WellFoundedInduction

\* The tool's commands.
Asked == {Commands(tool)[i] : i \in 1 .. Len(Commands(tool))}

\* A reply that the system showed at some time of the call.
Shown(c) ==
  \E v \in UNION Systems :
    heard[c] = v[c] /\ Facts(v) \subseteq ever /\ always \subseteq Facts(v)

\* The findings the report is made of.
Cited == {[severity |-> f.severity, kind |-> f.kind, about |-> f.about,
           doc_refs |-> Lookup(f.topic, version)] : f \in Match}

\* What the tool holds for a reply is one, or stands for a failure; each command it has
\* sent was answered or is among the deaf; the report is made of what was heard.
HearingInv ==
  phase # "detect" =>
    /\ todo \in Seq(AllCommands) /\ Pending \subseteq Asked
    /\ DOMAIN heard = AllCommands
    /\ \A c \in AllCommands : Shown(c) \/ heard[c] \in Rowless
    /\ \A c \in AllCommands \ Asked : heard[c] = NoReply
    /\ \A c \in Asked : c \in Pending \/ c \in deaf \/ Shown(c)
    /\ phase = "done" => todo = <<>> /\ findings = Cited /\ evidence = Evidence

CallInv ==
  /\ tool \in Tools
  /\ phase \in {"detect", "collect", "done"}
  /\ phase # "done" => findings = {} /\ evidence = {}
  /\ ViewInv
  /\ HearingInv

LEMMA AskedCommands == ASSUME tool \in Tools PROVE Asked \subseteq AllCommands
BY ProbesCommands DEF Asked

LEMMA CallInit == Init => CallInv
BY DEF Init, CallInv, ViewInv, HearingInv

LEMMA ShownStays ==
  ASSUME NEW c, Shown(c), heard'[c] = heard[c], ever \subseteq ever', always' \subseteq always
  PROVE  Shown(c)'
BY DEF Shown

\* What is left to be sent after a step was to be sent before.
LEMMA TailPending ==
  ASSUME todo \in Seq(AllCommands), todo # <<>>, todo' = Tail(todo)
  PROVE  Pending' \subseteq Pending /\ Head(todo) \in Pending
<1>1. Len(todo) \in Nat \ {0}
  OBVIOUS
<1>2. \A i \in 1 .. Len(Tail(todo)) : Tail(todo)[i] = todo[i + 1] /\ i + 1 \in 1 .. Len(todo)
  BY <1>1
<1>3. todo[1] = Head(todo) /\ 1 \in 1 .. Len(todo)
  BY <1>1
<1> QED
  BY <1>2, <1>3 DEF Pending

\* The tool hears the answer to its next command, or of its failure.
LEMMA HearingStep ==
  ASSUME CallInv, NEW reply, Hear(reply),
         reply \in {view[Head(todo)]} \cup Rowless, ever \subseteq ever',
         deaf \subseteq deaf', reply # view[Head(todo)] => Head(todo) \in deaf'
  PROVE  CallInv'
<1>1. /\ UNCHANGED <<view, always, tool, phase, findings, evidence>>
      /\ todo # <<>> /\ todo' = Tail(todo)
      /\ heard' = [heard EXCEPT ![Head(todo)] = reply]
  BY DEF Hear, reportVars
<1>2. ViewInv' /\ Asked' = Asked
  BY <1>1 DEF CallInv, ViewInv, Asked
<1>3. ASSUME phase # "detect" PROVE HearingInv'
  <2>1. /\ todo \in Seq(AllCommands) /\ Pending \subseteq Asked /\ DOMAIN heard = AllCommands
        /\ phase # "done"
    BY <1>1, <1>3 DEF CallInv, HearingInv
  <2>2. /\ todo' \in Seq(AllCommands) /\ Head(todo) \in AllCommands
        /\ Pending \subseteq {Head(todo)} \cup Pending'
    BY <1>1, <2>1, PendingTail
  <2>3. Pending' \subseteq Pending /\ Head(todo) \in Pending
    BY <1>1, <2>1, TailPending
  <2> PICK h \in Asked \cap AllCommands : h = Head(todo)
    BY <2>1, <2>2, <2>3
  <2>4. /\ DOMAIN heard' = AllCommands
        /\ heard'[h] = reply
        /\ \A c \in AllCommands \ {h} : heard'[c] = heard[c]
    BY <1>1, <2>1, <2>2
  <2>5. \A c \in AllCommands \ {h} : Shown(c) => Shown(c)'
    BY <1>1, <2>4, ShownStays
  <2>6. reply = view[h] => Shown(h)'
    BY <1>1, <2>4 DEF CallInv, ViewInv, Shown
  <2>7. \A c \in AllCommands : Shown(c)' \/ heard'[c] \in Rowless
    BY <1>3, <2>4, <2>5, <2>6 DEF CallInv, HearingInv
  <2>8. \A c \in AllCommands \ Asked : heard'[c] = NoReply
    BY <1>3, <2>4 DEF CallInv, HearingInv
  <2>9. \A c \in Asked : c \in Pending' \/ c \in deaf' \/ Shown(c)'
    <3>1. Asked \subseteq AllCommands
      BY AskedCommands DEF CallInv
    <3> QED
      BY <1>3, <2>2, <2>5, <2>6, <3>1 DEF CallInv, HearingInv
  <2> QED
    BY <1>1, <1>2, <2>1, <2>2, <2>3, <2>4, <2>7, <2>8, <2>9 DEF HearingInv
<1> QED
  BY <1>1, <1>2, <1>3 DEF CallInv, HearingInv

LEMMA CallStep == CallInv /\ [Next]_vars => CallInv'
<1> SUFFICES ASSUME CallInv, [Next]_vars PROVE CallInv'
  OBVIOUS
<1>1. CASE SystemChanges
  <2>1. ViewInv'
    BY <1>1 DEF CallInv, ViewInv, SystemChanges
  <2>2. /\ ever \subseteq ever' /\ always' \subseteq always /\ phase # "done"
        /\ UNCHANGED <<tool, phase, todo, heard, deaf, findings, evidence>>
    BY <1>1 DEF SystemChanges, reportVars
  <2>3. \A c : Shown(c) => Shown(c)'
    BY <2>2, ShownStays
  <2>4. Asked' = Asked /\ Pending' = Pending
    BY <2>2 DEF Asked, Pending
  <2>5. HearingInv'
    BY <2>2, <2>3, <2>4 DEF CallInv, HearingInv
  <2> QED
    BY <2>1, <2>2, <2>5 DEF CallInv
<1>2. CASE Break \/ UNCHANGED vars
  <2>1. UNCHANGED <<view, ever, always, tool, phase, todo, heard, deaf, version, findings,
                  evidence>>
    BY <1>2 DEF Break, vars, systemVars, reportVars
  <2>2. \A c : Shown(c) => Shown(c)'
    BY <2>1, ShownStays
  <2>3. Asked' = Asked /\ Pending' = Pending /\ Cited' = Cited /\ Evidence' = Evidence
    BY <2>1 DEF Asked, Pending, Cited, Match, Evidence
  <2> QED
    BY <2>1, <2>2, <2>3 DEF CallInv, ViewInv, HearingInv
<1>3. CASE Answered
  <2>1. PICK reply \in Replies(Head(todo)) : Hear(reply) /\ UNCHANGED <<deaf, ever>>
    BY <1>3 DEF Answered
  <2>2. reply = view[Head(todo)]
    BY DEF Replies
  <2> QED
    BY <2>1, <2>2, HearingStep
<1>4. CASE Raised
  <2>1. Hear(NoReply) /\ deaf' = deaf \cup {Head(todo)} /\ ever' = ever
    BY <1>4 DEF Raised, Fails
  <2> QED
    BY <2>1, HearingStep DEF Rowless
<1>5. CASE \E complaint \in Complaints : Complained(complaint)
  <2>1. PICK complaint \in Complaints :
          Hear(complaint) /\ deaf' = deaf \cup {Head(todo)} /\ ever \subseteq ever'
    BY <1>5 DEF Complained, Fails
  <2> QED
    BY <2>1, HearingStep DEF Rowless
<1>6. CASE Detected
  <2>1. /\ phase' = "collect" /\ todo' = Commands(tool) /\ heard' = Silence
        /\ UNCHANGED <<view, ever, always, tool, findings, evidence>> /\ phase = "detect"
    BY <1>6 DEF Detected, systemVars
  <2>2. Pending' = Asked' /\ todo' \in Seq(AllCommands)
    BY <2>1, ProbesCommands DEF CallInv, Pending, Asked
  <2>3. DOMAIN heard' = AllCommands /\ \A c \in AllCommands : heard'[c] = NoReply
    BY <2>1 DEF Silence
  <2>4. HearingInv'
    BY <2>1, <2>2, <2>3 DEF HearingInv, Rowless
  <2> QED
    BY <2>1, <2>4 DEF CallInv, ViewInv
<1>7. CASE Matched
  <2>1. /\ phase = "collect" /\ phase' = "done" /\ todo = <<>>
        /\ findings' = Cited /\ evidence' = Evidence
        /\ UNCHANGED <<view, ever, always, tool, todo, heard, deaf, version>>
    BY <1>7 DEF Matched, systemVars, Cited
  <2>2. \A c : Shown(c) => Shown(c)'
    BY <2>1, ShownStays
  <2>3. Asked' = Asked /\ Pending' = Pending /\ Cited' = Cited /\ Evidence' = Evidence
    BY <2>1 DEF Asked, Pending, Cited, Match, Evidence
  <2> QED
    BY <2>1, <2>2, <2>3 DEF CallInv, ViewInv, HearingInv
<1> QED
  BY <1>1, <1>2, <1>3, <1>4, <1>5, <1>6, <1>7 DEF Next
-------------------------------------------------------------------------------
\* Each tool's facts are its own.
LEMMA OwnersApart ==
  ASSUME NEW v, NEW t \in Facts(v)
  PROVE  /\ t.owner = "native_ha" => t \in NativeHaFacts(v.nativehastatus, v.recoverygroup)
         /\ t.owner = "rdqm" => t \in RdqmFacts(v)
         /\ t.owner = "miqm" => t \in MiqmFacts(v)
         /\ t.owner = "zos" => t \in ZosFacts(v)
<1>1. \A f \in NativeHaFacts(v.nativehastatus, v.recoverygroup) : f.owner = "native_ha"
  BY DEF NativeHaFacts, Group, Fact
<1>2. \A crm : \A f \in PacemakerFacts(crm) : f.owner = "rdqm"
  BY DEF PacemakerFacts, Group, Fact
<1>3. \A drbd : \A f \in DrbdFacts(drbd) : f.owner = "rdqm"
  BY DEF DrbdFacts, Fact
<1>4. \A f \in RdqmFacts(v) : f.owner = "rdqm"
  BY <1>2, <1>3 DEF RdqmFacts, Group, Fact
<1>5. \A f \in MiqmFacts(v) : f.owner = "miqm"
  BY DEF MiqmFacts, Group, Fact
<1>6. \A f \in ZosFacts(v) : f.owner = "zos"
  BY DEF ZosFacts, Group, Fact
<1>7. \A f \in TopologyFacts(v) : f.owner \in {"topology", "named"}
  BY DEF TopologyFacts, Fact
<1> QED
  BY <1>1, <1>4, <1>5, <1>6, <1>7 DEF Facts

\* A set that has neither no element nor one has two.
LEMMA TwoElements ==
  ASSUME NEW S, IsFiniteSet(S)
  PROVE  /\ Cardinality(S) \in Nat
         /\ Cardinality(S) = 0 <=> S = {}
         /\ Cardinality(S) > 1 <=> \E x, y \in S : x # y
<1>1. Cardinality(S) \in Nat /\ (Cardinality(S) = 0 <=> S = {})
  BY FS_CardinalityType, FS_EmptySet
<1>2. ASSUME Cardinality(S) > 1 PROVE \E x, y \in S : x # y
  <2>1. PICK x : x \in S
    BY <1>1, <1>2
  <2>2. S # {x}
    BY <1>2, FS_Singleton
  <2> QED
    BY <2>1, <2>2
<1>3. ASSUME NEW x \in S, NEW y \in S, x # y PROVE Cardinality(S) > 1
  <2>1. /\ IsFiniteSet(S \ {x}) /\ Cardinality(S \ {x}) = Cardinality(S) - 1
    BY FS_RemoveElement
  <2>2. Cardinality(S \ {x}) # 0
    BY <1>3, <2>1, FS_EmptySet
  <2>3. Cardinality(S \ {x}) \in Nat
    BY <2>1, FS_CardinalityType
  <2> QED
    BY <1>1, <2>1, <2>2, <2>3
<1> QED
  BY <1>1, <1>2, <1>3

\* A majority is missing exactly if at most half of the votes are there.
LEMMA QuorumHalf ==
  ASSUME NEW k \in Nat, NEW n \in Nat
  PROVE  ~(k >= RequiredQuorum(n)) <=> 2 * k <= n
BY DEF RequiredQuorum
-------------------------------------------------------------------------------
\* Native HA: each trouble of the instances and of the recovery group is a fact.
LEMMA NativeHaFactsHave ==
  ASSUME NEW I, NEW rg
  PROVE  LET facts == NativeHaFacts(I, rg) IN
         /\ I # {} /\ 2 * Cardinality(InSync(I)) <= Cardinality(I) =>
              Fact("native_ha", "quorum", "group") \in facts
         /\ I # {} /\ Actives(I) = {} => Fact("native_ha", "no_active", "group") \in facts
         /\ (\E i, j \in Actives(I) : i # j) => Fact("native_ha", "dual_active", "group") \in facts
         /\ rg.lag # None /\ rg.lag >= 60 => Fact("native_ha", "crr_lag", "group") \in facts
         /\ \A i \in I \ Actives(I) :
              /\ i.insync = "NO" \/ i.status \notin {"RUNNING", "REPLICA"} =>
                   Fact("native_ha", "replica", i.instance) \in facts
              /\ Lags(i) => Fact("native_ha", "replay", i.instance) \in facts
<1> DEFINE facts == NativeHaFacts(I, rg)
<1>1. I # {} /\ 2 * Cardinality(InSync(I)) <= Cardinality(I) =>
        Fact("native_ha", "quorum", "group") \in facts
  BY DEF NativeHaFacts, Group, InSync
<1>2. I # {} /\ Actives(I) = {} => Fact("native_ha", "no_active", "group") \in facts
  <2>1. Actives(I) = {} => {i \in I : ~IsActive(i)} = I
    BY DEF Actives, IsActive
  <2> QED
    BY <2>1 DEF NativeHaFacts, Group
<1>3. (\E i, j \in Actives(I) : i # j) => Fact("native_ha", "dual_active", "group") \in facts
  BY DEF NativeHaFacts, Group, Actives, IsActive
<1>4. rg.lag # None /\ rg.lag >= 60 => Fact("native_ha", "crr_lag", "group") \in facts
  BY DEF NativeHaFacts, Group
<1>5. ASSUME NEW i \in I \ Actives(I)
      PROVE  /\ i.insync = "NO" \/ i.status \notin {"RUNNING", "REPLICA"} =>
                  Fact("native_ha", "replica", i.instance) \in facts
             /\ Lags(i) => Fact("native_ha", "replay", i.instance) \in facts
  BY DEF NativeHaFacts, Actives, IsActive
<1> QED
  BY <1>1, <1>2, <1>3, <1>4, <1>5

\* And each fact is such a trouble.
LEMMA NativeHaFactsAre ==
  ASSUME NEW I, NEW rg, NEW t \in NativeHaFacts(I, rg)
  PROVE  \/ /\ t.kind = "quorum" /\ t.about = "group"
            /\ I # {} /\ 2 * Cardinality(InSync(I)) <= Cardinality(I)
         \/ t.kind = "no_active" /\ t.about = "group" /\ I # {} /\ Actives(I) = {}
         \/ t.kind = "dual_active" /\ t.about = "group" /\ \E i, j \in Actives(I) : i # j
         \/ t.kind = "crr_lag" /\ t.about = "group" /\ rg.lag # None /\ rg.lag >= 60
         \/ /\ t.kind = "replica"
            /\ \E i \in I \ Actives(I) :
                 /\ t.about = i.instance
                 /\ i.insync = "NO" \/ i.status \notin {"RUNNING", "REPLICA"}
         \/ /\ t.kind = "replay"
            /\ \E i \in I \ Actives(I) : t.about = i.instance /\ Lags(i)
<1>1. CASE t \in Group("native_ha", "quorum",
                       I # {} /\ 2 * Cardinality({i \in I : i.insync = "YES"}) <= Cardinality(I))
  BY <1>1 DEF Group, Fact, InSync
<1>2. CASE t \in Group("native_ha", "no_active", I # {} /\ {i \in I : ~IsActive(i)} = I)
  BY <1>2 DEF Group, Fact, Actives, IsActive
<1>3. CASE t \in Group("native_ha", "dual_active",
                       \E i, j \in I : i # j /\ IsActive(i) /\ IsActive(j))
  BY <1>3 DEF Group, Fact, Actives, IsActive
<1>4. CASE t \in Group("native_ha", "crr_lag", rg.lag # None /\ rg.lag >= 60)
  BY <1>4 DEF Group, Fact
<1>5. CASE \/ t \in {Fact("native_ha", "replica", i.instance) :
                       i \in {i \in {i \in I : ~IsActive(i)} :
                                i.insync = "NO" \/ i.status \notin {"RUNNING", "REPLICA"}}}
           \/ t \in {Fact("native_ha", "replay", i.instance) :
                       i \in {i \in {i \in I : ~IsActive(i)} : Lags(i)}}
  BY <1>5 DEF Fact, Actives, IsActive
<1> QED
  BY <1>1, <1>2, <1>3, <1>4, <1>5 DEF NativeHaFacts
-------------------------------------------------------------------------------
\* The report of the matcher, before the citations are looked up.
Told(t) ==
  \E f \in Match :
    \/ f.kind = t.kind /\ t.about \in f.about
    \/ f.kind = "split_brain" /\ t.kind \in {"connection", "disk"} /\ t.about \in f.about
    \/ f.kind = "split_brain" /\ t.kind = "split_brain" /\ f.about = {"<unknown>"}

Held(f) == FalseAlarm(f) \/ \A thing \in f.about : Fact(tool, f.kind, thing) \in ever

\* A reply that says something is one the system showed.
LEMMA ReplyShown ==
  ASSUME CallInv, phase # "detect", NEW c \in AllCommands, heard[c] \notin Rowless
  PROVE  \E v \in UNION Systems :
           heard[c] = v[c] /\ Facts(v) \subseteq ever /\ always \subseteq Facts(v)
BY DEF CallInv, HearingInv, Shown

\* What the tools' MQSC commands show is rows.
LEMMA MqscRows ==
  ASSUME NEW v \in UNION Systems, NEW c \in AllCommands \ Shell, c # "clusqmgr"
  PROVE  v[c] \notin Rowless /\ Rows(v[c]) = v[c]
BY SystemsAssumption DEF Rows, Rowless, Shell

\* Every finding of the Native HA matcher was true at some time.
LEMMA NativeHaHeld ==
  ASSUME CallInv, phase # "detect", tool = "native_ha", NEW f \in Match
  PROVE  Held(f)
<1> DEFINE I == Rows(heard["nativehastatus"])
           crr == ParseCrr(heard["recoverygroup"])
<1>1. /\ I # {} \/ crr # {}
      /\ f \in CheckQuorum(I) \cup CheckActiveInstance(I) \cup CheckReplicas(I)
                 \cup CheckLogReplayLag(I) \cup CheckCrrLag(crr)
  BY DEF Match, MatchNativeHa
<1>2. CASE f \in CheckCrrLag(crr)
  <2>1. PICK c \in crr : c.lag >= 60 /\ f.kind = "crr_lag" /\ f.about = {"group"}
    BY <1>2 DEF CheckCrrLag, Finding, FindingOn, CrrLagHigh
  <2>2. /\ heard["recoverygroup"] \notin Rowless
        /\ c.lag = IF heard["recoverygroup"].lag = None THEN 0 ELSE heard["recoverygroup"].lag
    BY <2>1 DEF ParseCrr
  <2>3. PICK v \in UNION Systems :
          heard["recoverygroup"] = v["recoverygroup"] /\ Facts(v) \subseteq ever
    BY <2>2, ReplyShown DEF AllCommands, Shell
  <2>4. v.recoverygroup.lag # None /\ v.recoverygroup.lag >= 60
    BY <2>1, <2>2, <2>3
  <2>5. Fact("native_ha", "crr_lag", "group") \in Facts(v)
    BY <2>4, NativeHaFactsHave DEF Facts
  <2> QED
    BY <2>1, <2>3, <2>5 DEF Held
<1>3. CASE I = {} /\ f \notin CheckCrrLag(crr)
  <2>1. Actives(I) = {}
    BY <1>3 DEF Actives
  <2>2. CheckQuorum(I) = {} /\ CheckReplicas(I) = {} /\ CheckLogReplayLag(I) = {}
    BY <1>3 DEF CheckQuorum, CheckReplicas, CheckLogReplayLag
  <2>3. CheckActiveInstance(I) =
          {Finding("CRITICAL", "no_active", "group", "native_ha_quorum_lost")}
    BY <2>1, FS_EmptySet DEF CheckActiveInstance
  <2>4. f.kind = "no_active"
    BY <1>1, <1>3, <2>2, <2>3 DEF Finding, FindingOn
  <2> QED
    BY <1>3, <2>4 DEF Held, FalseAlarm
<1>4. CASE I # {} /\ f \notin CheckCrrLag(crr)
  <2>1. heard["nativehastatus"] \notin Rowless /\ I = heard["nativehastatus"]
    BY <1>4 DEF Rows
  <2>2. PICK v \in UNION Systems : I = v["nativehastatus"] /\ Facts(v) \subseteq ever
    BY <2>1, ReplyShown DEF AllCommands, Shell
  <2>3. IsFiniteSet(I) /\ \A i \in I : {i.pct, i.backlog} \subseteq Int \cup {NoNumber}
    BY <2>2, RowsAssumption
  <2>4. IsFiniteSet(InSync(I)) /\ IsFiniteSet(Actives(I))
    BY <2>3, FS_Subset DEF InSync, Actives
  <2>5. NativeHaFacts(I, v.recoverygroup) \subseteq ever
    BY <2>2 DEF Facts
  <2>6. CASE f \in CheckQuorum(I)
    <3>1. Cardinality(I) \in Nat /\ Cardinality(InSync(I)) \in Nat
      BY <2>3, <2>4, FS_CardinalityType
    <3>2. f.kind = "quorum" /\ f.about = {"group"} /\ 2 * Cardinality(InSync(I)) <= Cardinality(I)
      BY <2>6, <3>1, QuorumHalf DEF CheckQuorum, QuorumLost, Finding, FindingOn
    <3> QED
      BY <1>4, <2>5, <3>2, NativeHaFactsHave DEF Held
  <2>7. CASE f \in CheckActiveInstance(I)
    <3>1. \/ f.kind = "no_active" /\ f.about = {"group"} /\ Cardinality(Actives(I)) = 0
          \/ /\ f.kind = "dual_active" /\ f.about = {"group"}
             /\ Cardinality(Actives(I)) \notin {0, 1}
      BY <2>7 DEF CheckActiveInstance, Finding, FindingOn
    <3>2. /\ Cardinality(Actives(I)) = 0 => Actives(I) = {}
          /\ Cardinality(Actives(I)) \notin {0, 1} => \E i, j \in Actives(I) : i # j
      BY <2>4, TwoElements
    <3> QED
      BY <1>4, <2>5, <3>1, <3>2, NativeHaFactsHave DEF Held
  <2>8. CASE f \in CheckReplicas(I)
    <3>1. PICK i \in I \ Actives(I) :
            /\ f.kind = "replica" /\ f.about = {i.instance}
            /\ i.insync = "NO" \/ i.status \notin {"RUNNING", "REPLICA"}
      BY <2>8 DEF CheckReplicas, Finding, FindingOn
    <3>2. Fact("native_ha", "replica", i.instance) \in ever
      BY <2>5, <3>1, NativeHaFactsHave
    <3> QED
      BY <3>1, <3>2 DEF Held
  <2>9. CASE f \in CheckLogReplayLag(I)
    <3>1. PICK i \in I \ Actives(I) :
            /\ f.kind = "replay" /\ f.about = {i.instance}
            /\ \/ Number(i.pct, 100) < 80 \/ Number(i.backlog, 0) > 10000000
               \/ Number(i.pct, 100) < 95
      BY <2>9 DEF CheckLogReplayLag, Finding, FindingOn, LagPctHigh, LagBytesHigh, LagPctMedium
    <3>2. i \in I /\ i.pct \in Int \cup {NoNumber} /\ i.backlog \in Int \cup {NoNumber}
      BY <2>3
    <3>3. Lags(i)
      BY <3>1, <3>2 DEF Lags, Number
    <3>4. Fact("native_ha", "replay", i.instance) \in ever
      BY <2>5, <3>3, NativeHaFactsHave
    <3> QED
      BY <3>1, <3>4 DEF Held
  <2> QED
    BY <1>1, <1>4, <2>6, <2>7, <2>8, <2>9
<1> QED
  BY <1>2, <1>3, <1>4

\* A finding about a trouble tells it.
LEMMA FindingTells ==
  ASSUME NEW t, NEW severity, NEW topic, Finding(severity, t.kind, t.about, topic) \in Match
  PROVE  Told(t)
<1> DEFINE f == Finding(severity, t.kind, t.about, topic)
<1>1. f.kind = t.kind /\ t.about \in f.about
  BY DEF Finding, FindingOn
<1> QED
  BY <1>1 DEF Told

\* Every trouble of the instances and groups that lasted, and that a reply showed, is told.
LEMMA NativeHaTold ==
  ASSUME CallInv, phase # "detect", tool = "native_ha", NEW t \in Troubles, Shown(Source(t.kind))
  PROVE  Told(t)
<1> DEFINE I == Rows(heard["nativehastatus"])
           crr == ParseCrr(heard["recoverygroup"])
<1>1. PICK v \in UNION Systems :
        heard[Source(t.kind)] = v[Source(t.kind)] /\ always \subseteq Facts(v)
  BY DEF Shown
<1>2. t \in NativeHaFacts(v.nativehastatus, v.recoverygroup)
  BY <1>1, OwnersApart DEF Troubles
<1>3. I # {} \/ crr # {} =>
        Match = CheckQuorum(I) \cup CheckActiveInstance(I) \cup CheckReplicas(I)
                  \cup CheckLogReplayLag(I) \cup CheckCrrLag(crr)
  BY DEF Match, MatchNativeHa
<1>4. CASE t.kind = "crr_lag"
  <2>1. /\ t.about = "group" /\ v.recoverygroup.lag # None /\ v.recoverygroup.lag >= 60
        /\ heard["recoverygroup"] = v["recoverygroup"]
    BY <1>1, <1>2, <1>4, NativeHaFactsAre DEF Source
  <2>2. v["recoverygroup"] \notin Rowless
    BY MqscRows DEF AllCommands, Shell
  <2>3. crr = {[lag |-> v.recoverygroup.lag]}
    BY <2>1, <2>2 DEF ParseCrr
  <2>4. \E s : Finding(s, "crr_lag", "group", "native_ha_crr") \in CheckCrrLag(crr)
    <3> DEFINE c == [lag |-> v.recoverygroup.lag]
    <3>1. c \in crr /\ c.lag >= CrrLagHigh
      BY <2>1, <2>3 DEF CrrLagHigh
    <3> HIDE DEF c, crr
    <3> QED
      BY <3>1 DEF CheckCrrLag
  <2>5. PICK s : Finding(s, "crr_lag", "group", "native_ha_crr") \in CheckCrrLag(crr)
    BY <2>4
  <2>6. Finding(s, "crr_lag", "group", "native_ha_crr") \in Match
    BY <1>3, <2>3, <2>5
  <2> QED
    BY <1>4, <2>1, <2>6, FindingTells
<1>5. CASE t.kind # "crr_lag"
  <2>0. t.kind \in {"quorum", "no_active", "dual_active", "replica", "replay"}
    BY <1>2, <1>5, NativeHaFactsAre
  <2>1. Source(t.kind) = "nativehastatus"
    BY <2>0 DEF Source
  <2>2. I = v["nativehastatus"]
    BY <1>1, <2>1, MqscRows DEF AllCommands, Shell
  <2>3. IsFiniteSet(I) /\ \A i \in I : {i.pct, i.backlog} \subseteq Int \cup {NoNumber}
    BY <2>2, RowsAssumption
  <2>4. IsFiniteSet(InSync(I)) /\ IsFiniteSet(Actives(I))
    BY <2>3, FS_Subset DEF InSync, Actives
  <2>5. I # {}
    BY <1>2, <1>5, <2>2, NativeHaFactsAre DEF Actives
  <2>6. CASE t.kind = "quorum"
    <3>1. t.about = "group" /\ 2 * Cardinality(InSync(I)) <= Cardinality(I)
      BY <1>2, <2>2, <2>6, NativeHaFactsAre
    <3>2. Cardinality(I) \in Nat /\ Cardinality(InSync(I)) \in Nat
      BY <2>3, <2>4, FS_CardinalityType
    <3>3. CheckQuorum(I) = QuorumLost
      BY <2>5, <3>1, <3>2, QuorumHalf DEF CheckQuorum
    <3> QED
      BY <1>3, <2>5, <2>6, <3>1, <3>3, FindingTells DEF QuorumLost
  <2>7. CASE t.kind \in {"no_active", "dual_active"}
    <3>1. /\ t.about = "group"
          /\ t.kind = "no_active" => Actives(I) = {}
          /\ t.kind = "dual_active" => \E i, j \in Actives(I) : i # j
      BY <1>2, <2>2, <2>7, NativeHaFactsAre
    <3>2. /\ t.kind = "no_active" => Cardinality(Actives(I)) = 0
          /\ t.kind = "dual_active" => Cardinality(Actives(I)) > 1
      BY <2>4, <3>1, TwoElements
    <3>3. Finding("CRITICAL", t.kind, "group", "native_ha_quorum_lost") \in CheckActiveInstance(I)
      BY <2>7, <3>2 DEF CheckActiveInstance
    <3> QED
      BY <1>3, <2>5, <3>1, <3>3, FindingTells
  <2>8. CASE t.kind = "replica"
    <3>1. PICK i \in I \ Actives(I) :
            t.about = i.instance /\ (i.insync = "NO" \/ i.status \notin {"RUNNING", "REPLICA"})
      BY <1>2, <2>2, <2>8, NativeHaFactsAre
    <3>2. Finding("HIGH", "replica", i.instance, "AMQ3209") \in CheckReplicas(I)
      BY <3>1 DEF CheckReplicas
    <3> QED
      BY <1>3, <2>5, <2>8, <3>1, <3>2, FindingTells
  <2>9. CASE t.kind = "replay"
    <3>1. PICK i \in I \ Actives(I) : t.about = i.instance /\ Lags(i)
      BY <1>2, <2>2, <2>9, NativeHaFactsAre
    <3>2. \/ i.pct # NoNumber /\ i.pct < LagPctMedium
          \/ i.backlog # NoNumber /\ i.backlog > LagBytesHigh
      BY <3>1, SMT DEF Lags, LagPctMedium, LagBytesHigh
    <3>3. Number(i.pct, 100) < LagPctMedium \/ Number(i.backlog, 0) > LagBytesHigh
      BY <3>2 DEF Number
    <3>4. \E s : Finding(s, "replay", i.instance, "native_ha_log_replication")
                   \in CheckLogReplayLag(I)
      BY <3>1, <3>3 DEF CheckLogReplayLag
    <3> QED
      BY <1>3, <2>5, <2>9, <3>1, <3>4, FindingTells
  <2> QED
    BY <1>2, <1>5, <2>6, <2>7, <2>8, <2>9, NativeHaFactsAre
<1> QED
  BY <1>4, <1>5
-------------------------------------------------------------------------------
\* RDQM: each trouble of the nodes, the resources and the queue manager is a fact.
LEMMA RdqmFactsHave ==
  ASSUME NEW v
  PROVE  /\ v.crm_mon # NoReply =>
              LET crm == v.crm_mon
                  there == {n.node : n \in {n \in crm.nodes : n.there}}
                  away == {n.node : n \in {n \in crm.nodes : ~n.there}}
              IN /\ crm.nodes # {} /\ Cardinality(there) <= Cardinality(away) =>
                      Fact("rdqm", "quorum", "group") \in RdqmFacts(v)
                 /\ \A n \in away : Fact("rdqm", "offline", n) \in RdqmFacts(v)
                 /\ \A b \in crm.bullets : b.word = "FAILED" =>
                      Fact("rdqm", "failed_resource", b.resource) \in RdqmFacts(v)
         /\ v.drbdadm # NoReply =>
              /\ \A r \in v.drbdadm.split : Fact("rdqm", "split_brain", r) \in RdqmFacts(v)
              /\ \A p \in v.drbdadm.peers :
                   /\ p.conn # "Connected" =>
                        Fact("rdqm", "connection", p.resource) \in RdqmFacts(v)
                   /\ {p.disk, p.peer_disk} \cap BadDrbdDisk # {} =>
                        Fact("rdqm", "disk", p.resource) \in RdqmFacts(v)
         /\ v.rdqmstatus # NoReply /\ v.rdqmstatus.nodes /\ v.rdqmstatus.running = None =>
              Fact("rdqm", "no_running", "group") \in RdqmFacts(v)
<1>1. v.crm_mon # NoReply => PacemakerFacts(v.crm_mon) \subseteq RdqmFacts(v)
  BY DEF RdqmFacts
<1>2. v.drbdadm # NoReply => DrbdFacts(v.drbdadm) \subseteq RdqmFacts(v)
  BY DEF RdqmFacts
<1>3. v.rdqmstatus # NoReply =>
        Group("rdqm", "no_running", v.rdqmstatus.nodes /\ v.rdqmstatus.running = None)
          \subseteq RdqmFacts(v)
  BY DEF RdqmFacts
<1> DEFINE crm == v.crm_mon
           there == {n.node : n \in {n \in crm.nodes : n.there}}
           away == {n.node : n \in {n \in crm.nodes : ~n.there}}
<1>4. /\ crm.nodes # {} /\ Cardinality(there) <= Cardinality(away) =>
           Fact("rdqm", "quorum", "group") \in PacemakerFacts(crm)
      /\ \A n \in away : Fact("rdqm", "offline", n) \in PacemakerFacts(crm)
      /\ \A b \in crm.bullets : b.word = "FAILED" =>
           Fact("rdqm", "failed_resource", b.resource) \in PacemakerFacts(crm)
  BY DEF PacemakerFacts, Group
<1>5. /\ \A r \in v.drbdadm.split : Fact("rdqm", "split_brain", r) \in DrbdFacts(v.drbdadm)
      /\ \A p \in v.drbdadm.peers :
           /\ p.conn # "Connected" =>
                Fact("rdqm", "connection", p.resource) \in DrbdFacts(v.drbdadm)
           /\ {p.disk, p.peer_disk} \cap BadDrbdDisk # {} =>
                Fact("rdqm", "disk", p.resource) \in DrbdFacts(v.drbdadm)
  BY DEF DrbdFacts
<1>6. v.rdqmstatus.nodes /\ v.rdqmstatus.running = None =>
        Fact("rdqm", "no_running", "group")
          \in Group("rdqm", "no_running", v.rdqmstatus.nodes /\ v.rdqmstatus.running = None)
  BY DEF Group
<1> QED
  BY <1>1, <1>2, <1>3, <1>4, <1>5, <1>6

\* And each fact is such a trouble.
LEMMA RdqmFactsAre ==
  ASSUME NEW v, NEW t \in RdqmFacts(v)
  PROVE  \/ /\ v.crm_mon # NoReply
            /\ LET crm == v.crm_mon
                   there == {n.node : n \in {n \in crm.nodes : n.there}}
                   away == {n.node : n \in {n \in crm.nodes : ~n.there}}
               IN \/ /\ t.kind = "quorum" /\ t.about = "group"
                     /\ crm.nodes # {} /\ Cardinality(there) <= Cardinality(away)
                  \/ t.kind = "offline" /\ t.about \in away
                  \/ /\ t.kind = "failed_resource"
                     /\ \E b \in crm.bullets : t.about = b.resource /\ b.word = "FAILED"
         \/ /\ v.drbdadm # NoReply
            /\ \/ t.kind = "split_brain" /\ t.about \in v.drbdadm.split
               \/ /\ t.kind = "connection"
                  /\ \E p \in v.drbdadm.peers : t.about = p.resource /\ p.conn # "Connected"
               \/ /\ t.kind = "disk"
                  /\ \/ \E p \in v.drbdadm.peers :
                          t.about = p.resource /\ {p.disk, p.peer_disk} \cap BadDrbdDisk # {}
                     \/ \E r \in v.drbdadm.alone : t.about = r.resource
         \/ /\ v.rdqmstatus # NoReply /\ v.rdqmstatus.running = None
            /\ t.kind = "no_running" /\ t.about = "group"
<1>1. CASE v.crm_mon # NoReply /\ t \in PacemakerFacts(v.crm_mon)
  <2> DEFINE crm == v.crm_mon
             there == {n.node : n \in {n \in crm.nodes : n.there}}
             away == {n.node : n \in {n \in crm.nodes : ~n.there}}
  <2>1. CASE t \in Group("rdqm", "quorum",
                         crm.nodes # {} /\ Cardinality(there) <= Cardinality(away))
    BY <1>1, <2>1 DEF Group, Fact
  <2>2. CASE \/ t \in {Fact("rdqm", "offline", n) : n \in away}
             \/ t \in {Fact("rdqm", "failed_resource", b.resource) :
                          b \in {b \in crm.bullets : b.word = "FAILED"}}
    BY <1>1, <2>2 DEF Fact
  <2> QED
    BY <1>1, <2>1, <2>2 DEF PacemakerFacts
<1>2. CASE v.drbdadm # NoReply /\ t \in DrbdFacts(v.drbdadm)
  BY <1>2 DEF DrbdFacts, Fact
<1>3. CASE /\ v.rdqmstatus # NoReply
           /\ t \in Group("rdqm", "no_running", v.rdqmstatus.nodes /\ v.rdqmstatus.running = None)
  BY <1>3 DEF Group, Fact
<1> QED
  BY <1>1, <1>2, <1>3 DEF RdqmFacts

\* The nodes and resources crm_mon's reply is read as.
Listed(crm, states) == {n.node : n \in {n \in crm.nodes : n.state \in states}}

There(crm) == {n.node : n \in {n \in crm.nodes : n.there}}

Away(crm) == {n.node : n \in {n \in crm.nodes : ~n.there}}

LEMMA Paced ==
  ASSUME NEW v \in UNION Systems, v.crm_mon # NoReply
  PROVE  LET crm == v.crm_mon
             pace == ParseCrmMon(crm)
         IN /\ pace.online = Listed(crm, {"online"})
            /\ Listed(crm, {"offline"}) \subseteq pace.offline
            /\ pace.failed = IF crm.section
                             THEN {b.resource : b \in {b \in crm.bullets :
                                                         b.word \in FailedWords /\ ~b.swallowed}}
                             ELSE {}
            /\ \A S \in {pace.online, pace.offline} : IsFiniteSet(S) /\ Cardinality(S) \in Nat
<1> DEFINE crm == v.crm_mon
           pace == ParseCrmMon(crm)
<1>1. crm \notin Rowless
  BY SystemsAssumption DEF AllCommands, Shell, Rowless
<1>2. /\ pace.online = Listed(crm, {"online"})
      /\ \/ pace.offline = Listed(crm, {"offline"})
         \/ pace.offline = Listed(crm, {"offline", "standby"})
      /\ pace.failed = IF crm.section
                       THEN {b.resource : b \in {b \in crm.bullets :
                                                   b.word \in FailedWords /\ ~b.swallowed}}
                       ELSE {}
  BY <1>1 DEF ParseCrmMon, Listed
<1>3. ASSUME NEW states PROVE IsFiniteSet(Listed(crm, states))
  <2> DEFINE N == {n \in crm.nodes : n.state \in states}
             f == [n \in N |-> n.node]
  <2>1. IsFiniteSet(N)
    BY FS_Subset, RowsAssumption
  <2>2. f \in Surjection(N, Listed(crm, states))
    BY DEF Surjection, Listed
  <2> QED
    BY <2>1, <2>2, FS_Surjection
<1>4. Listed(crm, {"offline"}) \subseteq Listed(crm, {"offline", "standby"})
  BY DEF Listed
<1>5. \A S \in {pace.online, pace.offline} : IsFiniteSet(S)
  BY <1>2, <1>3
<1>6. \A S \in {pace.online, pace.offline} : Cardinality(S) \in Nat
  BY <1>5, FS_CardinalityType
<1> QED
  BY <1>2, <1>4, <1>5, <1>6

\* Without nodes in other states all are read as what they are.
LEMMA PacedAll ==
  ASSUME NEW v \in UNION Systems, v.crm_mon # NoReply,
         \A n \in v.crm_mon.nodes : n.state \in {"online", "offline"}
  PROVE  LET pace == ParseCrmMon(v.crm_mon)
         IN pace.online = There(v.crm_mon) /\ pace.offline = Away(v.crm_mon)
<1> DEFINE crm == v.crm_mon
           pace == ParseCrmMon(crm)
<1>1. crm \notin Rowless
  BY SystemsAssumption DEF AllCommands, Shell, Rowless
<1>2. \A n \in crm.nodes : /\ n.there \in BOOLEAN
                           /\ n.state = "online" => n.there
                           /\ n.state = "offline" => ~n.there
  BY RowsAssumption
<1>3. \A n \in crm.nodes : /\ n.there <=> n.state = "online"
                           /\ ~n.there <=> n.state = "offline"
  BY <1>2
<1>4. There(crm) = Listed(crm, {"online"}) /\ Away(crm) = Listed(crm, {"offline"})
  BY <1>3 DEF There, Away, Listed
<1>5. Listed(crm, {"offline", "standby"}) = Listed(crm, {"offline"})
  BY DEF Listed
<1>6. /\ pace.online = Listed(crm, {"online"})
      /\ \/ pace.offline = Listed(crm, {"offline"})
         \/ pace.offline = Listed(crm, {"offline", "standby"})
  BY <1>1 DEF ParseCrmMon, Listed
<1> QED
  BY <1>4, <1>5, <1>6

\* Of quorum, nodes and resources the RDQM matcher says what was so.
LEMMA PacemakerHeld ==
  ASSUME CallInv, phase # "detect", tool = "rdqm", NEW f,
         f \in CheckPacemakerQuorum(ParseCrmMon(heard["crm_mon"]))
                 \cup CheckOfflineNodes(ParseCrmMon(heard["crm_mon"]))
                 \cup CheckFailedResources(ParseCrmMon(heard["crm_mon"]))
  PROVE  Held(f)
<1> DEFINE crm == heard["crm_mon"]
           pace == ParseCrmMon(crm)
<1>1. crm \notin Rowless
  <2> SUFFICES ASSUME crm \in Rowless PROVE FALSE
    OBVIOUS
  <2>1. pace.online = {} /\ pace.offline = {} /\ pace.failed = {}
    BY DEF ParseCrmMon
  <2>2. TotalNodes(pace) = 0
    BY <2>1, FS_EmptySet DEF TotalNodes
  <2> QED
    BY <2>1, <2>2 DEF CheckPacemakerQuorum, CheckOfflineNodes, CheckFailedResources
<1>2. PICK v \in UNION Systems : crm = v["crm_mon"] /\ Facts(v) \subseteq ever
  BY <1>1, ReplyShown DEF AllCommands, Shell
<1>3. v.crm_mon # NoReply /\ crm = v.crm_mon /\ RdqmFacts(v) \subseteq ever
  BY <1>1, <1>2 DEF Facts, Rowless
<1>4. /\ \A S \in {pace.online, pace.offline} : IsFiniteSet(S) /\ Cardinality(S) \in Nat
      /\ pace.failed = IF crm.section
                       THEN {b.resource : b \in {b \in crm.bullets :
                                                   b.word \in FailedWords /\ ~b.swallowed}}
                       ELSE {}
  BY <1>3, Paced
<1>5. (\A n \in crm.nodes : n.state \in {"online", "offline"}) =>
        pace.online = There(crm) /\ pace.offline = Away(crm)
  BY <1>3, PacedAll
<1>6. CASE f \in CheckPacemakerQuorum(pace)
  <2>1. /\ f.kind = "quorum" /\ f.about = {"group"}
        /\ TotalNodes(pace) # 0 /\ ~(Cardinality(pace.online) >= RequiredQuorum(TotalNodes(pace)))
    BY <1>6 DEF CheckPacemakerQuorum, Finding, FindingOn
  <2>2. CASE \E n \in crm.nodes : n.state \notin {"online", "offline"}
    BY <2>1, <2>2 DEF Held, FalseAlarm
  <2>3. CASE \A n \in crm.nodes : n.state \in {"online", "offline"}
    <3>1. 2 * Cardinality(pace.online) <= Cardinality(pace.online) + Cardinality(pace.offline)
      BY <1>4, <2>1, QuorumHalf DEF TotalNodes
    <3>2. Cardinality(pace.online) <= Cardinality(pace.offline)
      BY <1>4, <3>1
    <3>3. crm.nodes # {}
      <4> SUFFICES ASSUME crm.nodes = {} PROVE FALSE
        OBVIOUS
      <4>1. There(crm) = {} /\ Away(crm) = {}
        BY DEF There, Away
      <4> QED
        BY <1>5, <2>1, <2>3, <4>1, FS_EmptySet DEF TotalNodes
    <3>4. Fact("rdqm", "quorum", "group") \in RdqmFacts(v)
      BY <1>3, <1>5, <2>3, <3>2, <3>3, RdqmFactsHave DEF There, Away
    <3> QED
      BY <1>3, <2>1, <3>4 DEF Held
  <2> QED
    BY <2>2, <2>3
<1>7. CASE f \in CheckOfflineNodes(pace)
  <2>1. f.kind = "offline" /\ f.about = pace.offline
    BY <1>7 DEF CheckOfflineNodes, FindingOn
  <2>2. CASE \E n \in crm.nodes : n.state \notin {"online", "offline"}
    BY <2>1, <2>2 DEF Held, FalseAlarm
  <2>3. CASE \A n \in crm.nodes : n.state \in {"online", "offline"}
    <3>1. \A n \in f.about : Fact("rdqm", "offline", n) \in RdqmFacts(v)
      BY <1>3, <1>5, <2>1, <2>3, RdqmFactsHave DEF Away
    <3> QED
      BY <1>3, <2>1, <3>1 DEF Held
  <2> QED
    BY <2>2, <2>3
<1>8. CASE f \in CheckFailedResources(pace)
  <2>1. PICK r \in pace.failed : f.kind = "failed_resource" /\ f.about = {r}
    BY <1>8 DEF CheckFailedResources, Finding, FindingOn
  <2>2. PICK b \in crm.bullets : b.resource = r
    BY <1>4, <2>1
  <2>3. CASE b.word # "FAILED"
    BY <2>1, <2>2, <2>3 DEF Held, FalseAlarm
  <2>4. CASE b.word = "FAILED"
    <3>1. Fact("rdqm", "failed_resource", r) \in RdqmFacts(v)
      BY <1>3, <2>2, <2>4, RdqmFactsHave
    <3> QED
      BY <1>3, <2>1, <3>1 DEF Held
  <2> QED
    BY <2>3, <2>4
<1> QED
  BY <1>6, <1>7, <1>8

\* What drbdadm's reply is read as.
LEMMA Drbd ==
  ASSUME NEW reply, reply \notin Rowless
  PROVE  /\ \A d \in ParseDrbd(reply) :
              \/ d.split_brain /\ d.resource = "<unknown>" /\ reply.split # {}
              \/ \E p \in reply.peers :
                   /\ d.resource = p.resource /\ d.conn = p.conn
                   /\ d.disk = p.disk /\ d.peer_disk = p.peer_disk
                   /\ (d.split_brain <=> (reply.split # {}))
         /\ reply.peers = {} /\ reply.split # {} =>
              \E d \in ParseDrbd(reply) : d.split_brain /\ d.resource = "<unknown>"
         /\ \A p \in reply.peers : \E d \in ParseDrbd(reply) :
              /\ d.resource = p.resource /\ d.conn = p.conn
              /\ d.disk = p.disk /\ d.peer_disk = p.peer_disk
              /\ (d.split_brain <=> (reply.split # {}))
<1> DEFINE entry(p) == [resource |-> p.resource, disk |-> p.disk, conn |-> p.conn,
                        peer_disk |-> p.peer_disk, split_brain |-> reply.split # {}]
           entries == {entry(p) : p \in reply.peers}
           unknown == [resource |-> "<unknown>", disk |-> None, conn |-> None, peer_disk |-> None,
                       split_brain |-> TRUE]
<1>1. ParseDrbd(reply) = IF entries = {} /\ reply.split # {} THEN {unknown} ELSE entries
  BY DEF ParseDrbd
<1>2. \A p : /\ entry(p).resource = p.resource /\ entry(p).conn = p.conn
             /\ entry(p).disk = p.disk /\ entry(p).peer_disk = p.peer_disk
             /\ (entry(p).split_brain <=> (reply.split # {}))
  OBVIOUS
<1>3. unknown.split_brain /\ unknown.resource = "<unknown>"
  OBVIOUS
<1> HIDE DEF entry, unknown
<1>4. entries = {} <=> reply.peers = {}
  OBVIOUS
<1> QED
  BY <1>1, <1>2, <1>3, <1>4

\* Of the replicated disks it says what was so, a split brain apart.
LEMMA DrbdHeld ==
  ASSUME CallInv, phase # "detect", tool = "rdqm", NEW f,
         f \in CheckDrbdSplitBrain(ParseDrbd(heard["drbdadm"]))
                 \cup CheckDrbdConnection(ParseDrbd(heard["drbdadm"]))
                 \cup CheckDrbdDiskState(ParseDrbd(heard["drbdadm"]))
  PROVE  Held(f)
<1> DEFINE reply == heard["drbdadm"]
           drbd == ParseDrbd(reply)
<1>1. reply \notin Rowless
  BY DEF ParseDrbd, CheckDrbdSplitBrain, CheckDrbdConnection, CheckDrbdDiskState
<1>2. PICK v \in UNION Systems : reply = v["drbdadm"] /\ Facts(v) \subseteq ever
  BY <1>1, ReplyShown DEF AllCommands, Shell
<1>3. v.drbdadm # NoReply /\ reply = v.drbdadm /\ RdqmFacts(v) \subseteq ever
  BY <1>1, <1>2 DEF Facts, Rowless
<1>4. CASE f \in CheckDrbdSplitBrain(drbd)
  <2>1. PICK d \in drbd : d.split_brain /\ f.kind = "split_brain" /\ f.about = {d.resource}
    BY <1>4 DEF CheckDrbdSplitBrain, Finding, FindingOn
  <2>2. reply.split # {}
    BY <1>1, <2>1, Drbd
  <2>3. CASE \E r \in reply.split : r \notin f.about
    BY <2>1, <2>3 DEF Held, FalseAlarm
  <2>4. CASE d.resource \in reply.split
    <3>1. Fact("rdqm", "split_brain", d.resource) \in RdqmFacts(v)
      BY <1>3, <2>4, RdqmFactsHave
    <3> QED
      BY <1>3, <2>1, <3>1 DEF Held
  <2> QED
    BY <2>1, <2>2, <2>3, <2>4
<1>5. CASE f \in CheckDrbdConnection(drbd)
  <2>1. PICK d \in drbd : /\ ~d.split_brain /\ d.conn # "Connected"
                          /\ f.kind = "connection" /\ f.about = {d.resource}
    BY <1>5 DEF CheckDrbdConnection, Finding, FindingOn
  <2>2. PICK p \in reply.peers : d.resource = p.resource /\ d.conn = p.conn
    BY <1>1, <2>1, Drbd
  <2>3. Fact("rdqm", "connection", p.resource) \in RdqmFacts(v)
    BY <1>3, <2>1, <2>2, RdqmFactsHave
  <2> QED
    BY <1>3, <2>1, <2>2, <2>3 DEF Held
<1>6. CASE f \in CheckDrbdDiskState(drbd)
  <2>1. PICK d \in drbd : /\ ~d.split_brain /\ {d.disk, d.peer_disk} \cap BadDrbdDisk # {}
                          /\ f.kind = "disk" /\ f.about = {d.resource}
    BY <1>6 DEF CheckDrbdDiskState, Finding, FindingOn
  <2>2. PICK p \in reply.peers :
          d.resource = p.resource /\ d.disk = p.disk /\ d.peer_disk = p.peer_disk
    BY <1>1, <2>1, Drbd
  <2>3. Fact("rdqm", "disk", p.resource) \in RdqmFacts(v)
    BY <1>3, <2>1, <2>2, RdqmFactsHave
  <2> QED
    BY <1>3, <2>1, <2>2, <2>3 DEF Held
<1> QED
  BY <1>4, <1>5, <1>6

\* Every finding of the RDQM matcher was true at some time, or is a known false alarm.
LEMMA RdqmHeld ==
  ASSUME CallInv, phase # "detect", tool = "rdqm", NEW f \in Match
  PROVE  Held(f)
<1>1. CASE f \in CheckRdqmNoRunningNode(ParseRdqmstatus(heard["rdqmstatus"]))
  <2> DEFINE reply == heard["rdqmstatus"]
  <2>1. PICK s \in ParseRdqmstatus(reply) :
          s.running = None /\ f.kind = "no_running" /\ f.about = {"group"}
    BY <1>1 DEF CheckRdqmNoRunningNode, Finding, FindingOn
  <2>2. reply # NoReply /\ (reply \in Complaints \/ reply.running = None)
    <3>1. ParseRdqmstatus(NoReply) = {}
      BY RepliesAssumption DEF ParseRdqmstatus
    <3>2. reply \notin Rowless =>
            ParseRdqmstatus(reply) = {[running |-> reply.running]}
      BY DEF ParseRdqmstatus, Rowless
    <3>3. reply \notin Rowless => s = [running |-> reply.running]
      BY <2>1, <3>2
    <3> QED
      BY <2>1, <3>1, <3>3 DEF Rowless
  <2>3. CASE reply \in Complaints \/ ~reply.nodes
    BY <2>1, <2>3 DEF Held, FalseAlarm
  <2>4. CASE reply \notin Complaints /\ reply.nodes
    <3>1. PICK v \in UNION Systems : reply = v["rdqmstatus"] /\ Facts(v) \subseteq ever
      BY <2>2, <2>4, ReplyShown DEF AllCommands, Shell, Rowless
    <3>2. Fact("rdqm", "no_running", "group") \in RdqmFacts(v)
      BY <2>2, <2>4, <3>1, RdqmFactsHave
    <3> QED
      BY <2>1, <3>1, <3>2 DEF Held, Facts
  <2> QED
    BY <2>3, <2>4
<1> QED
  BY <1>1, PacemakerHeld, DrbdHeld DEF Match, MatchRdqm

\* Every trouble of the RDQM that lasted, and that a reply showed, is told or is overlooked.
LEMMA RdqmTold ==
  ASSUME CallInv, phase # "detect", tool = "rdqm", NEW t \in Troubles, Shown(Source(t.kind))
  PROVE  Overlooked(t) \/ Told(t)
<1>1. PICK v \in UNION Systems :
        heard[Source(t.kind)] = v[Source(t.kind)] /\ always \subseteq Facts(v)
  BY DEF Shown
<1>2. t \in RdqmFacts(v)
  BY <1>1, OwnersApart DEF Troubles
<1> DEFINE pace == ParseCrmMon(heard["crm_mon"])
           drbd == ParseDrbd(heard["drbdadm"])
<1>3. Match = CheckPacemakerQuorum(pace) \cup CheckOfflineNodes(pace)
                \cup CheckFailedResources(pace)
                \cup CheckDrbdSplitBrain(drbd) \cup CheckDrbdConnection(drbd)
                \cup CheckDrbdDiskState(drbd)
                \cup CheckRdqmNoRunningNode(ParseRdqmstatus(heard["rdqmstatus"]))
  BY DEF Match, MatchRdqm
<1>4. CASE t.kind = "no_running"
  <2>1. /\ v.rdqmstatus # NoReply /\ v.rdqmstatus.running = None /\ t.about = "group"
        /\ heard["rdqmstatus"] = v["rdqmstatus"]
    BY <1>1, <1>2, <1>4, RdqmFactsAre DEF Source
  <2>2. v.rdqmstatus \notin Complaints
    BY SystemsAssumption DEF AllCommands, Shell
  <2>3. [running |-> None] \in ParseRdqmstatus(heard["rdqmstatus"])
    BY <2>1, <2>2 DEF ParseRdqmstatus
  <2>4. Finding("CRITICAL", "no_running", "group", "rdqm_overview")
          \in CheckRdqmNoRunningNode(ParseRdqmstatus(heard["rdqmstatus"]))
    BY <2>3 DEF CheckRdqmNoRunningNode
  <2> QED
    BY <1>3, <1>4, <2>1, <2>4, FindingTells
<1>5. CASE t.kind \in {"quorum", "offline", "failed_resource"}
  <2> DEFINE crm == v.crm_mon
  <2>1. /\ v.crm_mon # NoReply /\ heard["crm_mon"] = crm
        /\ \/ /\ t.kind = "quorum" /\ t.about = "group"
              /\ crm.nodes # {} /\ Cardinality(There(crm)) <= Cardinality(Away(crm))
           \/ t.kind = "offline" /\ t.about \in Away(crm)
           \/ /\ t.kind = "failed_resource"
              /\ \E b \in crm.bullets : t.about = b.resource /\ b.word = "FAILED"
    BY <1>1, <1>2, <1>5, RdqmFactsAre DEF Source, There, Away
  <2>2. /\ \A S \in {pace.online, pace.offline} : IsFiniteSet(S) /\ Cardinality(S) \in Nat
        /\ Listed(crm, {"offline"}) \subseteq pace.offline
        /\ pace.failed = IF crm.section
                         THEN {b.resource : b \in {b \in crm.bullets :
                                                     b.word \in FailedWords /\ ~b.swallowed}}
                         ELSE {}
    BY <2>1, Paced
  <2>3. CASE t.kind = "quorum"
    <3>1. CASE \E n \in crm.nodes : n.state \notin {"online", "offline"}
      BY <2>1, <2>3, <3>1 DEF Overlooked
    <3>2. CASE \A n \in crm.nodes : n.state \in {"online", "offline"}
      <4>1. pace.online = There(crm) /\ pace.offline = Away(crm)
        BY <2>1, <3>2, PacedAll
      <4>2. TotalNodes(pace) \in Nat /\ 2 * Cardinality(pace.online) <= TotalNodes(pace)
        BY <2>1, <2>2, <2>3, <4>1 DEF TotalNodes
      <4>3. TotalNodes(pace) # 0
        <5>1. PICK n : n \in crm.nodes
          BY <2>1, <2>3
        <5>2. n.node \in pace.online \/ n.node \in pace.offline
          BY <4>1, <5>1 DEF There, Away
        <5>3. Cardinality(pace.online) # 0 \/ Cardinality(pace.offline) # 0
          BY <2>2, <5>2, FS_EmptySet
        <5> QED
          BY <2>2, <5>3 DEF TotalNodes
      <4>4. Finding("CRITICAL", "quorum", "group", "rdqm_pacemaker")
              \in CheckPacemakerQuorum(pace)
        BY <2>2, <4>2, <4>3, QuorumHalf DEF CheckPacemakerQuorum
      <4> QED
        BY <1>3, <2>1, <2>3, <4>4, FindingTells
    <3> QED
      BY <3>1, <3>2
  <2>4. CASE t.kind = "offline"
    <3>1. PICK n \in crm.nodes : ~n.there /\ t.about = n.node
      BY <2>1, <2>4 DEF Away
    <3>2. CASE n.state \notin {"online", "offline"}
      BY <2>1, <2>4, <3>1, <3>2 DEF Overlooked
    <3>3. CASE n.state = "offline"
      <4>1. t.about \in pace.offline
        BY <2>2, <3>1, <3>3 DEF Listed
      <4> DEFINE f == FindingOn("HIGH", "offline", pace.offline, "rdqm_pacemaker")
      <4>2. f \in CheckOfflineNodes(pace)
        BY <4>1 DEF CheckOfflineNodes
      <4>3. f.kind = "offline" /\ f.about = pace.offline
        BY DEF FindingOn
      <4> QED
        BY <1>3, <2>4, <4>1, <4>2, <4>3 DEF Told
    <3>4. n.state # "online"
      BY <2>1, <3>1, RowsAssumption
    <3> QED
      BY <3>2, <3>3, <3>4
  <2>5. CASE t.kind = "failed_resource"
    <3>1. PICK b \in crm.bullets : t.about = b.resource /\ b.word = "FAILED"
      BY <2>1, <2>5
    <3>2. CASE ~crm.section \/ b.swallowed
      BY <2>1, <2>5, <3>1, <3>2 DEF Overlooked
    <3>3. CASE crm.section /\ ~b.swallowed
      <4>1. t.about \in pace.failed
        BY <2>2, <3>1, <3>3 DEF FailedWords
      <4>2. Finding("HIGH", "failed_resource", t.about, "rdqm_troubleshooting")
              \in CheckFailedResources(pace)
        BY <4>1 DEF CheckFailedResources
      <4> QED
        BY <1>3, <2>5, <4>2, FindingTells
    <3> QED
      BY <3>2, <3>3
  <2> QED
    BY <1>5, <2>3, <2>4, <2>5
<1>6. CASE t.kind \in {"split_brain", "connection", "disk"}
  <2> DEFINE reply == v.drbdadm
  <2>1. /\ v.drbdadm # NoReply /\ heard["drbdadm"] = v.drbdadm
        /\ \/ t.kind = "split_brain" /\ t.about \in reply.split
           \/ /\ t.kind = "connection"
              /\ \E p \in reply.peers : t.about = p.resource /\ p.conn # "Connected"
           \/ /\ t.kind = "disk"
              /\ \/ \E p \in reply.peers :
                      t.about = p.resource /\ {p.disk, p.peer_disk} \cap BadDrbdDisk # {}
                 \/ \E r \in reply.alone : t.about = r.resource
    BY <1>1, <1>2, <1>6, RdqmFactsAre DEF Source
  <2>2. reply \notin Rowless
    BY <2>1, SystemsAssumption DEF AllCommands, Shell, Rowless
  <2>3. ASSUME NEW d \in drbd, d.split_brain
        PROVE  \E f \in Match : f.kind = "split_brain" /\ f.about = {d.resource}
    <3> DEFINE f == Finding("CRITICAL", "split_brain", d.resource, "rdqm_split_brain")
    <3>1. f \in Match
      BY <1>3, <2>3 DEF CheckDrbdSplitBrain
    <3>2. f.kind = "split_brain" /\ f.about = {d.resource}
      BY DEF Finding, FindingOn
    <3> QED
      BY <3>1, <3>2
  <2>4. CASE t.kind = "split_brain"
    <3>1. CASE reply.peers = {}
      <4>1. PICK d \in drbd : d.split_brain /\ d.resource = "<unknown>"
        BY <2>1, <2>2, <2>4, <3>1, Drbd
      <4> QED
        BY <2>3, <2>4, <4>1 DEF Told
    <3>2. CASE t.about \in {p.resource : p \in reply.peers}
      <4>1. PICK d \in drbd : d.split_brain /\ d.resource = t.about
        BY <2>1, <2>2, <2>4, <3>2, Drbd
      <4> QED
        BY <2>3, <2>4, <4>1 DEF Told
    <3>3. CASE reply.peers # {} /\ t.about \notin {p.resource : p \in reply.peers}
      BY <2>1, <2>4, <3>3 DEF Overlooked
    <3> QED
      BY <3>1, <3>2, <3>3
  <2>5. ASSUME t.kind \in {"connection", "disk"},
               NEW p \in reply.peers, t.about = p.resource,
               \/ t.kind = "connection" /\ p.conn # "Connected"
               \/ t.kind = "disk" /\ {p.disk, p.peer_disk} \cap BadDrbdDisk # {}
        PROVE  Told(t)
    <3>1. PICK d \in drbd : /\ d.resource = p.resource /\ d.conn = p.conn
                            /\ d.disk = p.disk /\ d.peer_disk = p.peer_disk
      BY <2>1, <2>2, Drbd
    <3>2. CASE d.split_brain
      BY <2>3, <2>5, <3>1, <3>2 DEF Told
    <3>3. CASE ~d.split_brain /\ t.kind = "connection"
      <4>1. d.conn \notin {None, "Connected"}
        BY <2>1, <2>5, <3>1, <3>3, RowsAssumption
      <4>2. \E s : Finding(s, "connection", d.resource, "rdqm_troubleshooting")
                     \in CheckDrbdConnection(drbd)
        BY <3>3, <4>1 DEF CheckDrbdConnection
      <4> QED
        BY <1>3, <2>5, <3>1, <3>3, <4>2, FindingTells
    <3>4. CASE ~d.split_brain /\ t.kind = "disk"
      <4>1. {d.disk, d.peer_disk} \cap BadDrbdDisk # {}
        BY <2>5, <3>1, <3>4
      <4>2. Finding("HIGH", "disk", d.resource, "rdqm_troubleshooting") \in CheckDrbdDiskState(drbd)
        BY <3>4, <4>1 DEF CheckDrbdDiskState
      <4> QED
        BY <1>3, <2>5, <3>1, <3>4, <4>2, FindingTells
    <3> QED
      BY <2>5, <3>2, <3>3, <3>4
  <2>6. CASE t.kind = "disk" /\ \E r \in reply.alone : t.about = r.resource
    BY <2>1, <2>6 DEF Overlooked
  <2> QED
    BY <1>6, <2>1, <2>4, <2>5, <2>6
<1> QED
  BY <1>2, <1>4, <1>5, <1>6, RdqmFactsAre
-------------------------------------------------------------------------------
\* Multi-instance: the line of a running instance, and what a line is read as.
Runs(l) ==
  l.mode = "ACTIVE" \/ (l.mode = None /\ l.status \in {"Running", "Running elsewhere"})

Entry(l) ==
  [host |-> l.host, qm |-> l.qm,
   role |-> IF l.mode = None THEN InferRole(l.status) ELSE l.mode]

LEMMA EntryRole ==
  ASSUME NEW l
  PROVE  /\ Entry(l).host = l.host /\ Entry(l).qm = l.qm
         /\ Entry(l).role = "ACTIVE" <=> Runs(l)
<1>1. InferRole(l.status) = "ACTIVE" <=> l.status \in {"Running", "Running elsewhere"}
  BY DEF InferRole
<1> QED
  BY <1>1, RepliesAssumption DEF Entry, Runs

LEMMA Instances ==
  ASSUME NEW reply, IsFiniteSet(Rows(reply))
  PROVE  /\ ParseInstances(reply) = {Entry(l) : l \in Rows(reply)}
         /\ IsFiniteSet(Actives(ParseInstances(reply)))
         /\ Actives(ParseInstances(reply)) = {Entry(l) : l \in {l \in Rows(reply) : Runs(l)}}
<1> DEFINE P == ParseInstances(reply)
<1>1. P = {Entry(l) : l \in Rows(reply)}
  BY DEF ParseInstances, Entry
<1>2. IsFiniteSet(P)
  <2> DEFINE f == [l \in Rows(reply) |-> Entry(l)]
  <2>1. f \in Surjection(Rows(reply), P)
    BY <1>1 DEF Surjection
  <2> QED
    BY <2>1, FS_Surjection
<1>3. IsFiniteSet(Actives(P))
  BY <1>2, FS_Subset DEF Actives
<1>4. Actives(P) = {Entry(l) : l \in {l \in Rows(reply) : Runs(l)}}
  BY <1>1, EntryRole DEF Actives
<1> QED
  BY <1>1, <1>3, <1>4

Running(reply) == {l \in Own(reply) : Runs(l)}

LEMMA MiqmFactsHave ==
  ASSUME NEW v
  PROVE  /\ Own(v.dspmq_x) # {} /\ Running(v.dspmq_x) = {} =>
              Fact("miqm", "no_active", "group") \in MiqmFacts(v)
         /\ Cardinality(Running(v.dspmq_x)) > 1 =>
              Fact("miqm", "dual_active", "group") \in MiqmFacts(v)
         /\ (\E l \in Own(v.standby) : l.standby # "PERMITTED") =>
              Fact("miqm", "standby_not_permitted", "group") \in MiqmFacts(v)
         /\ v.qmstatus.codes # {} => Fact("miqm", "failover", "group") \in MiqmFacts(v)
BY DEF MiqmFacts, Group, Running, Runs

LEMMA MiqmFactsAre ==
  ASSUME NEW v, NEW t \in MiqmFacts(v)
  PROVE  /\ t.about = "group"
         /\ \/ t.kind = "no_active" /\ Own(v.dspmq_x) # {} /\ Running(v.dspmq_x) = {}
            \/ t.kind = "dual_active" /\ Cardinality(Running(v.dspmq_x)) > 1
            \/ /\ t.kind = "standby_not_permitted"
               /\ \E l \in Own(v.standby) : l.standby # "PERMITTED"
            \/ t.kind = "failover" /\ v.qmstatus.codes # {}
<1>1. CASE t \in Group("miqm", "no_active", Own(v.dspmq_x) # {} /\ Running(v.dspmq_x) = {})
  BY <1>1 DEF Group, Fact
<1>2. CASE t \in Group("miqm", "dual_active", Cardinality(Running(v.dspmq_x)) > 1)
  BY <1>2 DEF Group, Fact
<1>3. CASE t \in Group("miqm", "standby_not_permitted",
                       \E l \in Own(v.standby) : l.standby # "PERMITTED")
  BY <1>3 DEF Group, Fact
<1>4. CASE t \in Group("miqm", "failover", v.qmstatus.codes # {})
  BY <1>4 DEF Group, Fact
<1> QED
  BY <1>1, <1>2, <1>3, <1>4 DEF MiqmFacts, Running, Runs

\* Two running instances are two active entries, on whatever host.
LEMMA RunningActive ==
  ASSUME NEW v \in UNION Systems
  PROVE  LET P == ParseInstances(v.dspmq_x) IN
         /\ Cardinality(Actives(P)) \in Nat
         /\ Cardinality(Running(v.dspmq_x)) > 1 => Cardinality(Actives(P)) > 1
         /\ Others(v.dspmq_x) = {} /\ Cardinality(Actives(P)) > 1 =>
              Cardinality(Running(v.dspmq_x)) > 1
<1> DEFINE reply == v.dspmq_x
           P == ParseInstances(reply)
<1>1. IsFiniteSet(Rows(reply))
  BY RowsAssumption
<1>2. /\ IsFiniteSet(Actives(P))
      /\ Actives(P) = {Entry(l) : l \in {l \in Rows(reply) : Runs(l)}}
  BY <1>1, Instances
<1>3. IsFiniteSet(Running(reply))
  BY <1>1, FS_Subset DEF Running, Own
<1>4. \A l, m \in Running(reply) : l # m => Entry(l) # Entry(m)
  <2> SUFFICES ASSUME NEW l \in Running(reply), NEW m \in Running(reply), Entry(l) = Entry(m)
               PROVE  l = m
    OBVIOUS
  <2>1. l.host = m.host /\ l.qm = m.qm
    BY EntryRole
  <2>2. l \in Rows(reply) /\ m \in Rows(reply)
    BY DEF Running, Own
  <2> QED
    BY <2>1, <2>2, RowsAssumption
<1>5. Running(reply) \subseteq {l \in Rows(reply) : Runs(l)}
  BY DEF Running, Own
<1>6. Others(reply) = {} => Running(reply) = {l \in Rows(reply) : Runs(l)}
  BY DEF Running, Own, Others
<1>7. (\E l, m \in Running(reply) : l # m) => \E a, b \in Actives(P) : a # b
  BY <1>2, <1>4, <1>5
<1>8. Others(reply) = {} /\ (\E a, b \in Actives(P) : a # b) => \E l, m \in Running(reply) : l # m
  BY <1>2, <1>6
<1> QED
  BY <1>2, <1>3, <1>7, <1>8, TwoElements

\* The instances of a host that has no other queue manager.
LEMMA OwnInstances ==
  ASSUME NEW v \in UNION Systems, Others(v.dspmq_x) = {}
  PROVE  LET P == ParseInstances(v.dspmq_x) IN
         /\ P # {} <=> Own(v.dspmq_x) # {}
         /\ Actives(P) = {} <=> Running(v.dspmq_x) = {}
         /\ ~(Cardinality(Actives(P)) <= 1) => Cardinality(Running(v.dspmq_x)) > 1
<1> DEFINE reply == v.dspmq_x
           P == ParseInstances(reply)
<1>1. Rows(reply) = Own(reply)
  BY DEF Own, Others
<1>2. /\ P = {Entry(l) : l \in Own(reply)}
      /\ Actives(P) = {Entry(l) : l \in Running(reply)}
  BY <1>1, RowsAssumption, Instances DEF Running
<1>3. Cardinality(Actives(P)) \in Nat /\
      (Cardinality(Actives(P)) > 1 => Cardinality(Running(reply)) > 1)
  BY RunningActive
<1>4. P # {} <=> Own(reply) # {}
  BY <1>2
<1>5. Actives(P) = {} <=> Running(reply) = {}
  BY <1>2
<1> HIDE DEF P, reply
<1>6. ~(Cardinality(Actives(P)) <= 1) => Cardinality(Running(reply)) > 1
  BY <1>3
<1> USE DEF P, reply
<1> QED
  BY <1>4, <1>5, <1>6, Zenon

\* Every finding of the multi-instance matcher was true, or tells of another queue manager.
LEMMA MiqmHeld ==
  ASSUME CallInv, phase # "detect", tool = "miqm", NEW f \in Match
  PROVE  Held(f)
<1> DEFINE P == ParseInstances(heard["dspmq_x"])
           permitted == StandbyPermitted(heard["standby"])
           log == IF heard["qmstatus"] \in Rowless THEN {} ELSE heard["qmstatus"].codes
<1>1. f \in CheckNoActive(P) \cup CheckStandbyPermission(permitted, P) \cup CheckDualActive(P)
              \cup CheckFailoverHistory(log)
  BY DEF Match, MatchMiqm
<1>2. CASE f \in CheckNoActive(P) \cup CheckDualActive(P)
  <2>1. /\ f.about = {"group"}
        /\ \/ f.kind = "no_active" /\ P # {} /\ Actives(P) = {}
           \/ f.kind = "dual_active" /\ ~(Cardinality(Actives(P)) <= 1)
    BY <1>2 DEF CheckNoActive, CheckDualActive, Finding, FindingOn
  <2>2. CASE Others(heard["dspmq_x"]) # {}
    BY <2>1, <2>2 DEF Held, FalseAlarm
  <2>3. CASE Others(heard["dspmq_x"]) = {}
    <3>1. Rows(heard["dspmq_x"]) # {}
      <4> SUFFICES ASSUME Rows(heard["dspmq_x"]) = {} PROVE FALSE
        OBVIOUS
      <4>1. P = {} /\ Actives(P) = {}
        BY DEF ParseInstances, Actives
      <4> QED
        BY <2>1, <4>1, FS_EmptySet
    <3>2. PICK v \in UNION Systems : heard["dspmq_x"] = v["dspmq_x"] /\ Facts(v) \subseteq ever
      BY <3>1, ReplyShown DEF Rows, AllCommands, Shell
    <3>3. \/ f.kind = "no_active" /\ Own(v.dspmq_x) # {} /\ Running(v.dspmq_x) = {}
          \/ f.kind = "dual_active" /\ Cardinality(Running(v.dspmq_x)) > 1
      BY <2>1, <2>3, <3>2, OwnInstances
    <3>4. Fact("miqm", f.kind, "group") \in MiqmFacts(v)
      BY <3>3, MiqmFactsHave
    <3> QED
      BY <2>1, <3>2, <3>4 DEF Held, Facts
  <2> QED
    BY <2>2, <2>3
<1>3. CASE f \in CheckStandbyPermission(permitted, P)
  <2>1. f.kind = "standby_not_permitted" /\ f.about = {"group"} /\ ~permitted
    BY <1>3 DEF CheckStandbyPermission, Finding, FindingOn
  <2>2. CASE Own(heard["standby"]) = {}
    BY <2>1, <2>2 DEF Held, FalseAlarm
  <2>3. CASE Own(heard["standby"]) # {}
    <3>1. \E l \in Own(heard["standby"]) : l.standby # "PERMITTED"
      BY <2>1, <2>3 DEF StandbyPermitted, Own
    <3>2. heard["standby"] \notin Rowless
      BY <2>3 DEF Own, Rows
    <3>3. PICK v \in UNION Systems : heard["standby"] = v["standby"] /\ Facts(v) \subseteq ever
      BY <3>2, ReplyShown DEF AllCommands, Shell
    <3>4. Fact("miqm", "standby_not_permitted", "group") \in MiqmFacts(v)
      BY <3>1, <3>3, MiqmFactsHave
    <3> QED
      BY <2>1, <3>3, <3>4 DEF Held, Facts
  <2> QED
    BY <2>2, <2>3
<1>4. CASE f \in CheckFailoverHistory(log)
  <2>1. f.kind = "failover" /\ f.about = {"group"} /\ log # {}
    BY <1>4 DEF CheckFailoverHistory, Finding, FindingOn
  <2>2. heard["qmstatus"] \notin Rowless /\ heard["qmstatus"].codes # {}
    BY <2>1
  <2>3. PICK v \in UNION Systems : heard["qmstatus"] = v["qmstatus"] /\ Facts(v) \subseteq ever
    BY <2>2 DEF CallInv, HearingInv, Shown, AllCommands, Shell
  <2>4. Fact("miqm", "failover", "group") \in MiqmFacts(v)
    BY <2>2, <2>3, MiqmFactsHave
  <2> QED
    BY <2>1, <2>3, <2>4 DEF Held, Facts
<1> QED
  BY <1>1, <1>2, <1>3, <1>4

\* Every trouble of it that lasted, and that a reply showed, is told or is overlooked.
LEMMA MiqmTold ==
  ASSUME CallInv, phase # "detect", tool = "miqm", NEW t \in Troubles, Shown(Source(t.kind))
  PROVE  Overlooked(t) \/ Told(t)
<1>1. PICK v \in UNION Systems :
        heard[Source(t.kind)] = v[Source(t.kind)] /\ always \subseteq Facts(v)
  BY DEF Shown
<1>2. t \in MiqmFacts(v)
  BY <1>1, OwnersApart DEF Troubles
<1> DEFINE P == ParseInstances(heard["dspmq_x"])
           permitted == StandbyPermitted(heard["standby"])
           log == IF heard["qmstatus"] \in Rowless THEN {} ELSE heard["qmstatus"].codes
<1>3. Match = CheckNoActive(P) \cup CheckStandbyPermission(permitted, P) \cup CheckDualActive(P)
                \cup CheckFailoverHistory(log)
  BY DEF Match, MatchMiqm
<1>4. CASE t.kind = "no_active"
  <2>1. /\ t.about = "group" /\ Own(v.dspmq_x) # {} /\ Running(v.dspmq_x) = {}
        /\ heard["dspmq_x"] = v.dspmq_x
    BY <1>1, <1>2, <1>4, MiqmFactsAre DEF Source
  <2>2. CASE Others(v.dspmq_x) # {}
    BY <1>4, <2>1, <2>2 DEF Overlooked
  <2>3. CASE Others(v.dspmq_x) = {}
    <3>1. P # {} /\ Actives(P) = {}
      BY <2>1, <2>3, OwnInstances
    <3>2. Finding("CRITICAL", "no_active", "group", "miqm_troubleshooting") \in CheckNoActive(P)
      BY <3>1 DEF CheckNoActive
    <3> QED
      BY <1>3, <1>4, <2>1, <3>2, FindingTells
  <2> QED
    BY <2>2, <2>3
<1>5. CASE t.kind = "dual_active"
  <2>1. /\ t.about = "group" /\ Cardinality(Running(v.dspmq_x)) > 1
        /\ heard["dspmq_x"] = v.dspmq_x
    BY <1>1, <1>2, <1>5, MiqmFactsAre DEF Source
  <2>2. Cardinality(Actives(P)) > 1 /\ Cardinality(Actives(P)) \in Nat
    BY <2>1, RunningActive
  <2>3. Finding("CRITICAL", "dual_active", "group", "miqm_troubleshooting") \in CheckDualActive(P)
    BY <2>2 DEF CheckDualActive
  <2> QED
    BY <1>3, <1>5, <2>1, <2>3, FindingTells
<1>6. CASE t.kind = "standby_not_permitted"
  <2>1. /\ t.about = "group" /\ heard["standby"] = v["standby"]
        /\ \E l \in Own(v.standby) : l.standby # "PERMITTED"
    BY <1>1, <1>2, <1>6, MiqmFactsAre DEF Source
  <2>2. CASE Others(heard["standby"]) # {} \/ Rows(heard["dspmq_x"]) = {}
    BY <1>6, <2>2 DEF Overlooked
  <2>3. CASE Others(heard["standby"]) = {} /\ Rows(heard["dspmq_x"]) # {}
    <3>1. PICK l \in Own(v.standby) : l.standby # "PERMITTED"
      BY <2>1
    <3>2. \A m \in Rows(v.standby) : m = l
      <4>1. \A m \in Rows(v.standby) : m.qm = ThisQM /\ l \in Rows(v.standby) /\ l.qm = ThisQM
        BY <2>1, <2>3, <3>1 DEF Others, Own
      <4> QED
        BY <4>1, RowsAssumption
    <3>3. ~permitted
      BY <2>1, <3>1, <3>2 DEF StandbyPermitted
    <3>4. P # {}
      BY <2>3 DEF ParseInstances
    <3>5. Finding("HIGH", "standby_not_permitted", "group", "miqm_overview")
            \in CheckStandbyPermission(permitted, P)
      BY <3>3, <3>4 DEF CheckStandbyPermission
    <3> QED
      BY <1>3, <1>6, <2>1, <3>5, FindingTells
  <2> QED
    BY <2>2, <2>3
<1>7. CASE t.kind = "failover"
  <2>1. t.about = "group" /\ v.qmstatus.codes # {} /\ heard["qmstatus"] = v["qmstatus"]
    BY <1>1, <1>2, <1>7, MiqmFactsAre DEF Source
  <2>2. v["qmstatus"] \notin Rowless
    BY MqscRows DEF AllCommands, Shell
  <2>3. log # {}
    BY <2>1, <2>2
  <2>4. Finding("MEDIUM", "failover", "group", "miqm_troubleshooting") \in CheckFailoverHistory(log)
    BY <2>3 DEF CheckFailoverHistory
  <2> QED
    BY <1>3, <1>7, <2>1, <2>4, FindingTells
<1> QED
  BY <1>2, <1>4, <1>5, <1>6, <1>7, MiqmFactsAre
-------------------------------------------------------------------------------
\* Queue-sharing groups: what the rows show are the facts.
LEMMA ZosFactsHave ==
  ASSUME NEW v
  PROVE  /\ \A r \in v.group : r.qm # None /\ r.status \notin {"ACTIVE", "RUNNING"} =>
              Fact("zos", "member", r.qm) \in ZosFacts(v)
         /\ (\E i \in DOMAIN v.chinit :
                 v.chinit[i].chinit \notin {None, "RUNNING", "ACTIVE", "STARTED"}) =>
              Fact("zos", "chin", "group") \in ZosFacts(v)
         /\ \A r \in v.psid : r.use # NoNumber /\ r.use >= 80 =>
              Fact("zos", "pageset", r.psid) \in ZosFacts(v)
         /\ \A r \in v.buffpool : r.free # NoNumber /\ r.free < 10 =>
              Fact("zos", "bufferpool", r.pool) \in ZosFacts(v)
         /\ \A r \in v.cfstatus : r.status \notin {"ACTIVE", "AVAILABLE"} =>
              Fact("zos", "cf", r.structure) \in ZosFacts(v)
BY DEF ZosFacts, Group

LEMMA ZosFactsAre ==
  ASSUME NEW v, NEW t \in ZosFacts(v)
  PROVE  \/ /\ t.kind = "member"
            /\ \E r \in v.group :
                 t.about = r.qm /\ r.qm # None /\ r.status \notin {"ACTIVE", "RUNNING"}
         \/ /\ t.kind = "chin" /\ t.about = "group"
            /\ \E i \in DOMAIN v.chinit :
                 v.chinit[i].chinit \notin {None, "RUNNING", "ACTIVE", "STARTED"}
         \/ /\ t.kind = "pageset"
            /\ \E r \in v.psid : t.about = r.psid /\ r.use # NoNumber /\ r.use >= 80
         \/ /\ t.kind = "bufferpool"
            /\ \E r \in v.buffpool : t.about = r.pool /\ r.free # NoNumber /\ r.free < 10
         \/ /\ t.kind = "cf"
            /\ \E r \in v.cfstatus :
                 t.about = r.structure /\ r.status \notin {"ACTIVE", "AVAILABLE"}
<1>1. CASE t \in Group("zos", "chin",
                       \E i \in DOMAIN v.chinit :
                         v.chinit[i].chinit \notin {None, "RUNNING", "ACTIVE", "STARTED"})
  BY <1>1 DEF Group, Fact
<1>2. CASE \/ t \in {Fact("zos", "member", r.qm) :
                       r \in {r \in v.group : r.qm # None /\ r.status \notin {"ACTIVE", "RUNNING"}}}
           \/ t \in {Fact("zos", "cf", r.structure) :
                       r \in {r \in v.cfstatus : r.status \notin {"ACTIVE", "AVAILABLE"}}}
  BY <1>2 DEF Fact
<1>3. CASE \/ t \in {Fact("zos", "pageset", r.psid) :
                       r \in {r \in v.psid : r.use # NoNumber /\ r.use >= 80}}
           \/ t \in {Fact("zos", "bufferpool", r.pool) :
                       r \in {r \in v.buffpool : r.free # NoNumber /\ r.free < 10}}
  BY <1>3 DEF Fact
<1> QED
  BY <1>1, <1>2, <1>3 DEF ZosFacts

\* Rows that are there were shown.
LEMMA RowsShown ==
  ASSUME CallInv, phase # "detect", NEW c \in AllCommands, Rows(heard[c]) # {}
  PROVE  \E v \in UNION Systems : Rows(heard[c]) = v[c] /\ Facts(v) \subseteq ever
<1>1. heard[c] \notin Rowless /\ Rows(heard[c]) = heard[c]
  BY DEF Rows
<1> QED
  BY <1>1, ReplyShown

\* Every finding of the z/OS matcher was true at some time.
LEMMA ZosHeld ==
  ASSUME CallInv, phase # "detect", tool = "zos", NEW f \in Match
  PROVE  Held(f)
<1>1. f \in CheckQsgMembers(Rows(heard["group"])) \cup CheckChin(ChinStatus(heard["chinit"]))
              \cup CheckPagesets(Rows(heard["psid"])) \cup CheckBufferpools(Rows(heard["buffpool"]))
              \cup CheckCfStructures(Rows(heard["cfstatus"]))
  BY DEF Match, MatchZos
<1>2. CASE f \in CheckQsgMembers(Rows(heard["group"]))
  <2>1. PICK r \in Rows(heard["group"]) : /\ r.qm # None /\ r.status \notin {"ACTIVE", "RUNNING"}
                                          /\ f.kind = "member" /\ f.about = {r.qm}
    BY <1>2 DEF CheckQsgMembers, Finding, FindingOn
  <2>2. PICK v \in UNION Systems : r \in v["group"] /\ Facts(v) \subseteq ever
    BY <2>1, RowsShown DEF AllCommands
  <2>3. Fact("zos", "member", r.qm) \in ZosFacts(v)
    BY <2>1, <2>2, ZosFactsHave
  <2> QED
    BY <2>1, <2>2, <2>3 DEF Held, Facts
<1>3. CASE f \in CheckChin(ChinStatus(heard["chinit"]))
  <2> DEFINE reply == heard["chinit"]
  <2>1. PICK s \in ChinStatus(reply) \ {"RUNNING", "ACTIVE", "STARTED"} :
          f.kind = "chin" /\ f.about = {"group"}
    BY <1>3 DEF CheckChin, Finding, FindingOn
  <2>2. /\ reply \notin Rowless
        /\ \E i \in DOMAIN reply : reply[i].chinit = s /\ s # None
    <3> DEFINE rows == IF reply \in Rowless THEN <<>> ELSE reply
               named == {i \in DOMAIN rows : rows[i].chinit # None}
    <3>1. PICK i \in named : s = rows[i].chinit
      BY <2>1 DEF ChinStatus
    <3>2. reply \in Rowless => DOMAIN rows = {}
      OBVIOUS
    <3> QED
      BY <3>1, <3>2
  <2>3. PICK v \in UNION Systems : reply = v["chinit"] /\ Facts(v) \subseteq ever
    BY <2>2, ReplyShown DEF AllCommands
  <2>4. Fact("zos", "chin", "group") \in ZosFacts(v)
    BY <2>1, <2>2, <2>3, ZosFactsHave
  <2> QED
    BY <2>1, <2>3, <2>4 DEF Held, Facts
<1>4. CASE f \in CheckPagesets(Rows(heard["psid"]))
  <2>1. PICK r \in Rows(heard["psid"]) : /\ Number(r.use, 0) >= 80
                                         /\ f.kind = "pageset" /\ f.about = {r.psid}
    BY <1>4 DEF CheckPagesets, Finding, FindingOn, PagesetHigh
  <2>2. PICK v \in UNION Systems : r \in v["psid"] /\ Facts(v) \subseteq ever
    BY <2>1, RowsShown DEF AllCommands
  <2>3. r.use # NoNumber /\ r.use >= 80
    BY <2>1 DEF Number
  <2>4. Fact("zos", "pageset", r.psid) \in ZosFacts(v)
    BY <2>2, <2>3, ZosFactsHave
  <2> QED
    BY <2>1, <2>2, <2>4 DEF Held, Facts
<1>5. CASE f \in CheckBufferpools(Rows(heard["buffpool"]))
  <2>1. PICK r \in Rows(heard["buffpool"]) : /\ Number(r.free, 100) < 10
                                             /\ f.kind = "bufferpool" /\ f.about = {r.pool}
    BY <1>5 DEF CheckBufferpools, Finding, FindingOn, BufferpoolLowFreePct
  <2>2. PICK v \in UNION Systems : r \in v["buffpool"] /\ Facts(v) \subseteq ever
    BY <2>1, RowsShown DEF AllCommands
  <2>3. r.free # NoNumber /\ r.free < 10
    BY <2>1 DEF Number
  <2>4. Fact("zos", "bufferpool", r.pool) \in ZosFacts(v)
    BY <2>2, <2>3, ZosFactsHave
  <2> QED
    BY <2>1, <2>2, <2>4 DEF Held, Facts
<1>6. CASE f \in CheckCfStructures(Rows(heard["cfstatus"]))
  <2>1. PICK r \in Rows(heard["cfstatus"]) : /\ r.status \notin {"ACTIVE", "AVAILABLE"}
                                             /\ f.kind = "cf" /\ f.about = {r.structure}
    BY <1>6 DEF CheckCfStructures, Finding, FindingOn
  <2>2. PICK v \in UNION Systems : r \in v["cfstatus"] /\ Facts(v) \subseteq ever
    BY <2>1, RowsShown DEF AllCommands
  <2>3. Fact("zos", "cf", r.structure) \in ZosFacts(v)
    BY <2>1, <2>2, ZosFactsHave
  <2> QED
    BY <2>1, <2>2, <2>3 DEF Held, Facts
<1> QED
  BY <1>1, <1>2, <1>3, <1>4, <1>5, <1>6

LEMMA IndicesNat == \A n \in Nat : 1 .. n \subseteq Nat
OBVIOUS

\* A set of numbers has a first one.
LEMMA FirstOf ==
  ASSUME NEW S, S \subseteq Nat, S # {}
  PROVE  \E i \in S : \A j \in S : i <= j
<1> DEFINE Less == OpToRel(<, Nat)
<1>1. IsWellFoundedOn(Less, Nat)
  BY NatLessThanWellFounded
<1>2. PICK i \in S : \A j \in S : <<j, i>> \notin Less
  <2> HIDE DEF Less
  <2> QED
    BY <1>1, WFMin
<1>3. \A j \in S : j < i => <<j, i>> \in Less
  BY DEF OpToRel
<1>4. \A j \in S : ~(j < i)
  BY <1>2, <1>3
<1> QED
  BY <1>4

\* A status that no row contradicts is the first row's.
LEMMA ChinSeen ==
  ASSUME NEW v \in UNION Systems, NEW k \in DOMAIN v.chinit, v.chinit[k].chinit \notin {None, ""},
         \A i \in DOMAIN v.chinit : v.chinit[i].chinit \in {None, v.chinit[k].chinit}
  PROVE  v.chinit[k].chinit \in ChinStatus(v.chinit)
<1> DEFINE reply == v.chinit
           named == {i \in DOMAIN reply : reply[i].chinit # None}
<1>1. reply \notin Rowless
  BY MqscRows DEF AllCommands, Shell
<1>2. DOMAIN reply \subseteq Nat
  <2>1. reply = [i \in 1 .. Len(reply) |-> reply[i]] /\ Len(reply) \in Nat
    BY RowsAssumption
  <2>2. DOMAIN reply = 1 .. Len(reply)
    BY <2>1, Zenon
  <2>3. Len(reply) \in Nat
    BY <2>1, Zenon
  <2> QED
    BY <2>2, <2>3, IndicesNat, Zenon
<1>3. PICK i \in named : \A j \in named : i <= j
  BY <1>2, FirstOf
<1>4. reply[i].chinit = reply[k].chinit
  BY <1>3
<1>5. reply[i].chinit \in ChinStatus(reply)
  BY <1>1, <1>3, <1>4 DEF ChinStatus
<1> QED
  BY <1>4, <1>5

\* An empty status, or two that differ, is what the channel initiator's check overlooks.
LEMMA ChinMixed ==
  ASSUME NEW t, t.kind = "chin",
         LET statuses == {heard["chinit"][i].chinit : i \in DOMAIN heard["chinit"]} \ {None}
         IN  "" \in statuses \/ \E s, u \in statuses : s # u
  PROVE  Overlooked(t)
BY DEF Overlooked

\* Every trouble of the group that lasted, and that a reply showed, is told or overlooked.
LEMMA ZosTold ==
  ASSUME CallInv, phase # "detect", tool = "zos", NEW t \in Troubles, Shown(Source(t.kind))
  PROVE  Overlooked(t) \/ Told(t)
<1>1. PICK v \in UNION Systems :
        heard[Source(t.kind)] = v[Source(t.kind)] /\ always \subseteq Facts(v)
  BY DEF Shown
<1>2. t \in ZosFacts(v)
  BY <1>1, OwnersApart DEF Troubles
<1>3. Match = CheckQsgMembers(Rows(heard["group"])) \cup CheckChin(ChinStatus(heard["chinit"]))
                \cup CheckPagesets(Rows(heard["psid"]))
                \cup CheckBufferpools(Rows(heard["buffpool"]))
                \cup CheckCfStructures(Rows(heard["cfstatus"]))
  BY DEF Match, MatchZos
<1>4. \A c \in AllCommands \ (Shell \cup {"clusqmgr"}) :
        Source(t.kind) = c => Rows(heard[c]) = v[c]
  BY <1>1, MqscRows
<1>5. CASE t.kind = "member"
  <2>1. Rows(heard["group"]) = v.group
    BY <1>4, <1>5 DEF Source, AllCommands, Shell
  <2>2. \E r \in v.group : t.about = r.qm /\ r.qm # None /\ r.status \notin {"ACTIVE", "RUNNING"}
    BY <1>2, <1>5, ZosFactsAre
  <2>3. Finding("HIGH", "member", t.about, "zos_qsg_overview")
          \in CheckQsgMembers(Rows(heard["group"]))
    BY <2>1, <2>2 DEF CheckQsgMembers
  <2> QED
    BY <1>3, <1>5, <2>3, FindingTells
<1>6. CASE t.kind = "chin"
  <2>1. heard["chinit"] = v.chinit
    BY <1>1, <1>6 DEF Source
  <2>2. t.about = "group"
    BY <1>2, <1>6, ZosFactsAre
  <2>3. PICK k \in DOMAIN v.chinit :
          v.chinit[k].chinit \notin {None, "RUNNING", "ACTIVE", "STARTED"}
    BY <1>2, <1>6, ZosFactsAre
  <2> DEFINE statuses == {v.chinit[i].chinit : i \in DOMAIN v.chinit} \ {None}
  <2>4. CASE "" \in statuses \/ \E s, u \in statuses : s # u
    BY <1>6, <2>1, <2>4, ChinMixed
  <2>5. CASE ~("" \in statuses \/ \E s, u \in statuses : s # u)
    <3>1. v.chinit[k].chinit \in statuses /\ v.chinit[k].chinit # ""
      BY <2>3, <2>5
    <3>2. \A i \in DOMAIN v.chinit : v.chinit[i].chinit \in {None, v.chinit[k].chinit}
      BY <2>5, <3>1
    <3>3. v.chinit[k].chinit \in ChinStatus(v.chinit)
      BY <2>3, <3>1, <3>2, ChinSeen
    <3>4. Finding("CRITICAL", "chin", "group", "zos_chin") \in CheckChin(ChinStatus(heard["chinit"]))
      BY <2>1, <2>3, <3>3 DEF CheckChin
    <3> QED
      BY <1>3, <1>6, <2>2, <3>4, FindingTells
  <2> QED
    BY <2>4, <2>5
<1>7. CASE t.kind = "pageset"
  <2>1. Rows(heard["psid"]) = v.psid
    BY <1>4, <1>7 DEF Source, AllCommands, Shell
  <2>2. PICK r \in v.psid : t.about = r.psid /\ r.use # NoNumber /\ r.use >= 80
    BY <1>2, <1>7, ZosFactsAre
  <2>3. Number(r.use, 0) >= PagesetHigh
    BY <2>2 DEF Number, PagesetHigh
  <2>4. \E s : Finding(s, "pageset", t.about, "zos_pageset") \in CheckPagesets(Rows(heard["psid"]))
    BY <2>1, <2>2, <2>3 DEF CheckPagesets
  <2> QED
    BY <1>3, <1>7, <2>4, FindingTells
<1>8. CASE t.kind = "bufferpool"
  <2>1. Rows(heard["buffpool"]) = v.buffpool
    BY <1>4, <1>8 DEF Source, AllCommands, Shell
  <2>2. PICK r \in v.buffpool : t.about = r.pool /\ r.free # NoNumber /\ r.free < 10
    BY <1>2, <1>8, ZosFactsAre
  <2>3. Number(r.free, 100) < BufferpoolLowFreePct
    BY <2>2 DEF Number, BufferpoolLowFreePct
  <2>4. Finding("HIGH", "bufferpool", t.about, "zos_bufferpool")
          \in CheckBufferpools(Rows(heard["buffpool"]))
    BY <2>1, <2>2, <2>3 DEF CheckBufferpools
  <2> QED
    BY <1>3, <1>8, <2>4, FindingTells
<1>9. CASE t.kind = "cf"
  <2>1. Rows(heard["cfstatus"]) = v.cfstatus
    BY <1>4, <1>9 DEF Source, AllCommands, Shell
  <2>2. PICK r \in v.cfstatus : t.about = r.structure /\ r.status \notin {"ACTIVE", "AVAILABLE"}
    BY <1>2, <1>9, ZosFactsAre
  <2>3. \E s : Finding(s, "cf", t.about, "zos_cf_structure")
                 \in CheckCfStructures(Rows(heard["cfstatus"]))
    BY <2>1, <2>2 DEF CheckCfStructures
  <2> QED
    BY <1>3, <1>9, <2>3, FindingTells
<1> QED
  BY <1>2, <1>5, <1>6, <1>7, <1>8, <1>9, ZosFactsAre
-------------------------------------------------------------------------------
\* At the end everything the tool has to send was sent: it was answered or failed.
LEMMA AskedSets ==
  /\ tool = "native_ha" => Asked = {"nativehastatus", "recoverygroup"}
  /\ tool = "rdqm" => Asked = {"rdqmstatus", "crm_mon", "drbdadm"}
  /\ tool = "miqm" => Asked = {"dspmq_x", "standby", "qmstatus"}
  /\ tool = "zos" => Asked = {"group", "chinit", "psid", "buffpool", "cfstatus"}
BY DEF Asked, Commands

\* Each trouble has its command among those the tool sends.
LEMMA SourceAsked ==
  ASSUME CallInv, NEW t \in Troubles
  PROVE  Source(t.kind) \in Asked
<1>1. t \in Facts(view) /\ t.owner = tool
  BY DEF CallInv, ViewInv, Troubles
<1>2. CASE tool = "native_ha"
  BY <1>1, <1>2, OwnersApart, NativeHaFactsAre, AskedSets DEF Source
<1>3. CASE tool = "rdqm"
  BY <1>1, <1>3, OwnersApart, RdqmFactsAre, AskedSets DEF Source
<1>4. CASE tool = "miqm"
  BY <1>1, <1>4, OwnersApart, MiqmFactsAre, AskedSets DEF Source
<1>5. CASE tool = "zos"
  BY <1>1, <1>5, OwnersApart, ZosFactsAre, AskedSets DEF Source
<1> QED
  BY <1>2, <1>3, <1>4, <1>5 DEF CallInv, Tools

\* Every tool's findings hold, and none of its troubles that a reply showed is passed over.
LEMMA MatchHeld ==
  ASSUME CallInv, phase # "detect", NEW f \in Match
  PROVE  Held(f)
BY NativeHaHeld, RdqmHeld, MiqmHeld, ZosHeld DEF CallInv, Tools

LEMMA MatchTold ==
  ASSUME CallInv, phase # "detect", NEW t \in Troubles, Shown(Source(t.kind))
  PROVE  Overlooked(t) \/ Told(t)
BY NativeHaTold, RdqmTold, MiqmTold, ZosTold DEF CallInv, Tools

\* The report says what the matcher says.
LEMMA ReportTold ==
  ASSUME findings = Cited, NEW t, Told(t)
  PROVE  Reported(t)
<1>1. PICK f \in Match :
        \/ f.kind = t.kind /\ t.about \in f.about
        \/ f.kind = "split_brain" /\ t.kind \in {"connection", "disk"} /\ t.about \in f.about
        \/ f.kind = "split_brain" /\ t.kind = "split_brain" /\ f.about = {"<unknown>"}
  BY DEF Told
<1> DEFINE g == [severity |-> f.severity, kind |-> f.kind, about |-> f.about,
                 doc_refs |-> Lookup(f.topic, version)]
<1>2. g \in findings /\ g.kind = f.kind /\ g.about = f.about
  BY DEF Cited
<1> HIDE DEF g
<1> QED
  BY <1>1, <1>2 DEF Reported

\* A source is shown as seen only if it was.
LEMMA EvidenceHeard ==
  ASSUME NEW c \in Evidence
  PROVE  c \in AllCommands /\ heard[c] \notin Rowless
<1>1. c \in AllCommands
  BY DEF Evidence
<1>2. CASE c = "recoverygroup"
  BY <1>2 DEF Evidence, ParseCrr
<1>3. CASE c = "rdqmstatus"
  <2>1. \E s \in ParseRdqmstatus(heard[c]) : s.running # None
    BY <1>3 DEF Evidence
  <2>2. ParseRdqmstatus(NoReply) = {}
    BY RepliesAssumption DEF ParseRdqmstatus
  <2>3. \A reply \in Complaints : ParseRdqmstatus(reply) = {[running |-> None]}
    BY RepliesAssumption DEF ParseRdqmstatus
  <2>4. \A reply \in Complaints : \A s \in ParseRdqmstatus(reply) : s.running = None
    BY <2>3
  <2> QED
    BY <1>1, <2>1, <2>2, <2>4 DEF Rowless
<1>4. CASE c = "crm_mon"
  <2>1. TotalNodes(ParseCrmMon(heard[c])) > 0
    BY <1>4 DEF Evidence
  <2>2. \A reply \in Rowless :
          ParseCrmMon(reply) = [online |-> {}, offline |-> {}, failed |-> {}]
    BY DEF ParseCrmMon
  <2>3. TotalNodes([online |-> {}, offline |-> {}, failed |-> {}]) = 0
    BY FS_EmptySet DEF TotalNodes
  <2> QED
    BY <1>1, <2>1, <2>2, <2>3
<1>5. CASE c = "drbdadm"
  BY <1>5 DEF Evidence, ParseDrbd
<1>6. CASE c = "standby"
  BY <1>6 DEF Evidence, StandbyPermitted, Rows
<1>7. CASE c = "group"
  BY <1>7 DEF Evidence, Rows
<1>8. CASE c = "chinit"
  <2>1. ChinStatus(heard[c]) # {}
    BY <1>8 DEF Evidence
  <2>2. DOMAIN <<>> = {}
    OBVIOUS
  <2>3. \A reply \in Rowless : ChinStatus(reply) = {}
    BY <2>2 DEF ChinStatus
  <2> QED
    BY <1>1, <2>1, <2>3
<1>9. CASE c \in {"dspmq_x", "nativehastatus", "psid", "buffpool", "cfstatus"}
  BY <1>9 DEF Evidence, Rows
<1>10. CASE c \in {"version", "platform", "qmstatus", "clusqmgr"}
  BY <1>10 DEF Evidence
<1> QED
  BY <1>1, <1>2, <1>3, <1>4, <1>5, <1>6, <1>7, <1>8, <1>9, <1>10 DEF AllCommands, Shell

LEMMA SpecCall == Spec => []CallInv
BY CallInit, CallStep, PTL DEF Spec

\* No finding of the four tools is about something that never was so during the call, on
\* whatever systems, apart from the seven false alarms.
THEOREM HaFindingsWitnessed == Spec => []FindingsWitnessed
<1>1. CallInv => FindingsWitnessed
  <2> SUFFICES ASSUME CallInv, NEW g \in findings
               PROVE  FalseAlarm(g) \/ \A thing \in g.about : Fact(tool, g.kind, thing) \in ever
    BY DEF FindingsWitnessed
  <2>1. phase = "done" /\ findings = Cited
    BY DEF CallInv, HearingInv
  <2>2. PICK f \in Match : g = [severity |-> f.severity, kind |-> f.kind, about |-> f.about,
                                doc_refs |-> Lookup(f.topic, version)]
    BY <2>1 DEF Cited
  <2>3. g.kind = f.kind /\ g.about = f.about
    BY <2>2
  <2>4. Held(f)
    BY <2>1, MatchHeld
  <2> QED
    BY <2>3, <2>4 DEF Held, FalseAlarm
<1> QED
  BY <1>1, SpecCall, PTL

\* What was wrong all the time is reported if its command was answered, on whatever systems
\* and however many other commands failed, apart from the oversights named.
THEOREM HaNothingMissed == Spec => []NothingMissed
<1>1. CallInv => NothingMissed
  <2> SUFFICES ASSUME CallInv, phase = "done", NEW t \in Troubles
               PROVE  Source(t.kind) \in deaf \/ Overlooked(t) \/ Reported(t)
    BY DEF NothingMissed
  <2>1. todo = <<>> /\ findings = Cited
    BY DEF CallInv, HearingInv
  <2>2. Pending = {}
    BY <2>1 DEF Pending
  <2>3. Source(t.kind) \in deaf \/ Shown(Source(t.kind))
    BY <2>2, SourceAsked DEF CallInv, HearingInv
  <2> QED
    BY <2>1, <2>3, MatchTold, ReportTold
<1> QED
  BY <1>1, SpecCall, PTL

\* A source that the report shows as seen was, and what it would have told of and no
\* finding does was well at some time.
THEOREM HaSeenMeansChecked == Spec => []SeenMeansChecked
<1>1. CallInv => SeenMeansChecked
  <2> SUFFICES ASSUME CallInv, phase = "done", NEW t \in Troubles, Source(t.kind) \in evidence
               PROVE  Overlooked(t) \/ Reported(t)
    BY DEF SeenMeansChecked
  <2>1. findings = Cited /\ evidence = Evidence
    BY DEF CallInv, HearingInv
  <2>2. Source(t.kind) \in AllCommands /\ heard[Source(t.kind)] \notin Rowless
    BY <2>1, EvidenceHeard
  <2>3. Shown(Source(t.kind))
    BY <2>2 DEF CallInv, HearingInv
  <2> QED
    BY <2>1, <2>3, MatchTold, ReportTold
<1> QED
  BY <1>1, SpecCall, PTL
-------------------------------------------------------------------------------
\* What CallInv does not say of the call's locals.
LocalsInv ==
  /\ {local, up, probed} \subseteq BOOLEAN
  /\ todo \in Seq(AllCommands) /\ Len(todo) <= 6
  /\ DOMAIN heard = AllCommands
  /\ version = None \/ Len(version) = 4
  /\ flags \subseteq Kinds
  /\ topology \in Kinds \cup {"STANDALONE"}
  /\ changes \in 0 .. MaxChanges /\ faults \in 0 .. MaxFaults
  /\ deaf \subseteq AllCommands

LEMMA CommandsShort ==
  /\ Len(Probes) = 6
  /\ \A t \in Tools : Len(Commands(t)) <= 6
BY DEF Probes, Tools, Commands

\* Eight digits are four numbers.
LEMMA NormalizedLength ==
  ASSUME NEW raw, raw = None \/ Len(raw) \in {4, 8}
  PROVE  NormalizeMqVersion(raw) = None \/ Len(NormalizeMqVersion(raw)) = 4
<1>1. CASE raw # None /\ Len(raw) = 8
  <2> DEFINE four == [i \in 1 .. 4 |-> 10 * raw[2 * i - 1] + raw[2 * i]]
             Numbers == {four[i] : i \in 1 .. 4}
  <2>1. four \in Seq(Numbers)
    OBVIOUS
  <2>2. DOMAIN four = 1 .. 4
    OBVIOUS
  <2>3. Len(four) = 4
    BY <2>1, <2>2
  <2> QED
    BY <1>1, <2>3 DEF NormalizeMqVersion
<1>2. CASE ~(raw # None /\ Len(raw) = 8)
  BY <1>2 DEF NormalizeMqVersion
<1> QED
  BY <1>1, <1>2

LEMMA LocalsInit == Init => LocalsInv
<1> SUFFICES ASSUME Init PROVE LocalsInv
  OBVIOUS
<1>1. todo \in Seq(AllCommands) /\ Len(todo) <= 6
  BY ProbesCommands, CommandsShort DEF Init
<1>2. changes \in 0 .. MaxChanges /\ faults \in 0 .. MaxFaults
  BY BoundsAssumption DEF Init
<1>3. DOMAIN heard = AllCommands
  BY DEF Init, Silence
<1>4. {local, up, probed} \subseteq BOOLEAN
  BY DEF Init
<1> QED
  BY <1>1, <1>2, <1>3, <1>4 DEF Init, LocalsInv

\* A command that is sent.
LEMMA HearLocals ==
  ASSUME LocalsInv, NEW reply, Hear(reply), deaf' \subseteq deaf \cup {Head(todo)},
         faults' \in 0 .. MaxFaults
  PROVE  LocalsInv'
<1>1. /\ UNCHANGED <<local, up, probed, version, flags, topology, changes>>
      /\ todo # <<>> /\ todo' = Tail(todo)
      /\ heard' = [heard EXCEPT ![Head(todo)] = reply]
  BY DEF Hear, systemVars, reportVars
<1>2. /\ todo' \in Seq(AllCommands) /\ Len(todo') <= 6 /\ Head(todo) \in AllCommands
      /\ DOMAIN heard' = AllCommands
  BY <1>1 DEF LocalsInv
<1> QED
  BY <1>1, <1>2 DEF LocalsInv

LEMMA LocalsStep == TopologyInv /\ LocalsInv /\ [Next]_vars => LocalsInv'
<1> SUFFICES ASSUME TopologyInv, LocalsInv, [Next]_vars PROVE LocalsInv'
  OBVIOUS
<1>1. CASE SystemChanges
  <2>1. changes' \in 0 .. MaxChanges
    BY <1>1, BoundsAssumption DEF LocalsInv, SystemChanges
  <2> QED
    BY <1>1, <2>1 DEF LocalsInv, SystemChanges, reportVars
<1>2. CASE Break \/ Matched \/ UNCHANGED vars
  BY <1>2 DEF LocalsInv, Break, Matched, vars, systemVars, reportVars
<1>3. CASE Answered
  BY <1>3, HearLocals DEF LocalsInv, Answered
<1>4. CASE Raised \/ \E complaint \in Complaints : Complained(complaint)
  <2>1. PICK reply : Fails(reply)
    BY <1>4 DEF Raised, Complained
  <2>2. Hear(reply) /\ deaf' = deaf \cup {Head(todo)}
    BY <2>1 DEF Fails
  <2>3. faults' \in 0 .. MaxFaults
    BY <2>1, BoundsAssumption DEF Fails, LocalsInv
  <2> QED
    BY <2>2, <2>3, HearLocals
<1>5. CASE Detected
  <2>1. /\ phase = "detect" /\ todo' = Commands(tool) /\ heard' = Silence /\ deaf' = {}
        /\ version' = IF heard["version"] \in Rowless THEN None
                      ELSE NormalizeMqVersion(heard["version"])
        /\ flags' = Indicated(heard) /\ topology' = Classify(flags') /\ probed' = (deaf = {})
        /\ UNCHANGED <<local, up, changes, faults>>
    BY <1>5 DEF Detected, systemVars
  <2>2. todo' \in Seq(AllCommands) /\ Len(todo') <= 6
    BY <2>1, ProbesCommands, CommandsShort DEF TopologyInv
  <2>3. DOMAIN heard' = AllCommands
    BY <2>1 DEF Silence
  <2>4. version' = None \/ Len(version') = 4
    <3>1. heard["version"] \in Rowless \/ Witnessed("version")
      BY <2>1 DEF TopologyInv, HeardInv, Complaining, AllCommands, Rowless
    <3>2. Witnessed("version") => heard["version"] = None \/ Len(heard["version"]) \in {4, 8}
      BY RowsAssumption DEF Witnessed
    <3> QED
      BY <2>1, <3>1, <3>2, NormalizedLength
  <2>5. flags' \subseteq Kinds
    BY <2>1 DEF Indicated, Kinds
  <2>6. topology' \in Kinds \cup {"STANDALONE"}
    BY <2>1, <2>5, ClassifyFirst
  <2>7. {local', up', probed'} \subseteq BOOLEAN /\ changes' \in 0 .. MaxChanges
        /\ faults' \in 0 .. MaxFaults
    BY <2>1 DEF LocalsInv
  <2> QED
    BY <2>1, <2>2, <2>3, <2>4, <2>5, <2>6, <2>7 DEF LocalsInv
<1> QED
  BY <1>1, <1>2, <1>3, <1>4, <1>5 DEF Next

\* The severities the matchers give.
LEMMA MatchSeverity ==
  ASSUME tool \in Tools, NEW f \in Match
  PROVE  f.severity \in {"CRITICAL", "HIGH", "MEDIUM"}
<1>1. CASE tool = "native_ha"
  <2> DEFINE I == Rows(heard["nativehastatus"])
  <2>1. CASE f \in CheckQuorum(I) \cup CheckActiveInstance(I)
    BY <2>1 DEF CheckQuorum, QuorumLost, CheckActiveInstance, Finding, FindingOn
  <2>2. CASE f \in CheckReplicas(I) \cup CheckLogReplayLag(I)
    BY <2>2 DEF CheckReplicas, CheckLogReplayLag, Finding, FindingOn
  <2>3. CASE f \in CheckCrrLag(ParseCrr(heard["recoverygroup"]))
    BY <2>3 DEF CheckCrrLag, Finding, FindingOn
  <2> QED
    BY <1>1, <2>1, <2>2, <2>3 DEF Match, MatchNativeHa
<1>2. CASE tool = "rdqm"
  <2> DEFINE pace == ParseCrmMon(heard["crm_mon"])
             drbd == ParseDrbd(heard["drbdadm"])
  <2>1. CASE f \in CheckPacemakerQuorum(pace) \cup CheckOfflineNodes(pace)
                     \cup CheckFailedResources(pace)
    BY <2>1 DEF CheckPacemakerQuorum, CheckOfflineNodes, CheckFailedResources, Finding, FindingOn
  <2>2. CASE f \in CheckDrbdSplitBrain(drbd) \cup CheckDrbdConnection(drbd)
                     \cup CheckDrbdDiskState(drbd)
    BY <2>2 DEF CheckDrbdSplitBrain, CheckDrbdConnection, CheckDrbdDiskState, Finding, FindingOn
  <2>3. CASE f \in CheckRdqmNoRunningNode(ParseRdqmstatus(heard["rdqmstatus"]))
    BY <2>3 DEF CheckRdqmNoRunningNode, Finding, FindingOn
  <2> QED
    BY <1>2, <2>1, <2>2, <2>3 DEF Match, MatchRdqm
<1>3. CASE tool = "miqm"
  BY <1>3 DEF Match, MatchMiqm, CheckNoActive, CheckStandbyPermission, CheckDualActive,
     CheckFailoverHistory, Finding, FindingOn
<1>4. CASE tool = "zos"
  BY <1>4 DEF Match, MatchZos, CheckQsgMembers, CheckChin, CheckPagesets, CheckBufferpools,
     CheckCfStructures, Finding, FindingOn
<1> QED
  BY <1>1, <1>2, <1>3, <1>4 DEF Tools

\* The locals of the call keep their types, on whatever systems; the report shows no
\* source as seen that the tool did not ask.
THEOREM HaTypeOK == Spec => []TypeOK
<1>1. Init => TopologyInv /\ CallInv /\ LocalsInv
  BY TopologyInit, CallInit, LocalsInit
<1>2. TopologyInv /\ CallInv /\ LocalsInv /\ [Next]_vars => (TopologyInv /\ CallInv /\ LocalsInv)'
  BY TopologyStep, CallStep, LocalsStep
<1>3. CallInv /\ LocalsInv => TypeOK
  <2> SUFFICES ASSUME CallInv, LocalsInv PROVE TypeOK
    OBVIOUS
  <2>1. {Ranking[i] : i \in 1 .. Len(Ranking)} = Kinds \cup {"STANDALONE"}
    BY DEF Ranking, Kinds
  <2>2. Len(todo) <= Len(Probes) /\ {todo[i] : i \in 1 .. Len(todo)} \subseteq AllCommands
    BY CommandsShort DEF LocalsInv
  <2>3. evidence \subseteq Asked
    <3> SUFFICES ASSUME NEW c \in evidence PROVE c \in Asked
      OBVIOUS
    <3>1. phase = "done" /\ evidence = Evidence
      BY DEF CallInv, HearingInv
    <3>2. c \in AllCommands /\ heard[c] # NoReply
      BY <3>1, EvidenceHeard DEF Rowless
    <3> QED
      BY <3>1, <3>2 DEF CallInv, HearingInv
  <2>4. {f.severity : f \in findings} \subseteq {"CRITICAL", "HIGH", "MEDIUM"}
    <3> SUFFICES ASSUME NEW g \in findings PROVE g.severity \in {"CRITICAL", "HIGH", "MEDIUM"}
      OBVIOUS
    <3>1. phase = "done" /\ findings = Cited
      BY DEF CallInv, HearingInv
    <3>2. PICK f \in Match : g = [severity |-> f.severity, kind |-> f.kind, about |-> f.about,
                                  doc_refs |-> Lookup(f.topic, version)]
      BY <3>1 DEF Cited
    <3> QED
      BY <3>2, MatchSeverity DEF CallInv
  <2>5. view \in UNION Systems
    BY DEF CallInv, ViewInv
  <2> QED
    BY <2>1, <2>2, <2>3, <2>4, <2>5 DEF CallInv, LocalsInv, TypeOK, Asked
<1> QED
  BY <1>1, <1>2, <1>3, PTL DEF Spec
=================================================================================
