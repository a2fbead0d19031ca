---------------------------- MODULE MCHaDiagnosis ----------------------------
(***************************************************************************)
(* HaDiagnosis with a plain system and one per tool, each in a few of its  *)
(* states.                                                                 *)
(***************************************************************************)
EXTENDS HaDiagnosis

CONSTANTS
  OtherQM,
  NotFound  \* AMQ8147E: IBM MQ object not found.

Digits(release) == <<0, 9, 0, release, 0, 0, 0, 0>>

\* A queue manager without any of it.
Plain ==
  [version |-> Digits(4), platform |-> "UNIX", qmstatus |-> [nativeha |-> None, codes |-> {}],
   clusqmgr |-> {}, rdqmstatus |-> NoReply, standby |-> NoReply, crm_mon |-> NoReply,
   drbdadm |-> NoReply, dspmq_x |-> NoReply, nativehastatus |-> {},
   recoverygroup |-> [group |-> None, lag |-> None],
   group |-> {}, chinit |-> <<>>, psid |-> {}, buffpool |-> {}, cfstatus |-> {}]

Instance(name, role, status, insync, pct, backlog) ==
  [instance |-> name, role |-> role, status |-> status, insync |-> insync, pct |-> pct,
   backlog |-> backlog]

NativeHa(instances, lag) ==
  [Plain EXCEPT !.version = Digits(3), !.qmstatus.nativeha = "YES", !.clusqmgr = {"UNIFORM"},
                !.nativehastatus = instances, !.recoverygroup = [group |-> "EAST", lag |-> lag]]

\* All in sync; one replica of three left, no quorum; no active instance; two of them;
\* no instance at all.
NativeHaSystem ==
  {NativeHa({Instance("0", "ACTIVE", "RUNNING", "YES", 100, 0),
             Instance("1", "REPLICA", "RUNNING", "YES", 95, 10000000),
             Instance("2", "REPLICA", "REPLICA", "YES", NoNumber, NoNumber)}, 59),
   NativeHa({Instance("0", "ACTIVE", "RUNNING", "YES", 100, 0),
             Instance("1", "REPLICA", "RUNNING", "NO", 94, 0),
             Instance("2", "REPLICA", "DISCONNECTED", "", 100, 10000001)}, 60),
   NativeHa({Instance("1", "REPLICA", "RUNNING", "YES", 79, 0),
             Instance("2", "REPLICA", "RUNNING", "NO", 100, 0)}, 300),
   NativeHa({Instance("0", "ACTIVE", "RUNNING", "YES", 100, 0),
             Instance("1", "ACTIVE", "RUNNING", "YES", 100, 0)}, None),
   NativeHa({}, 60)}

Node(name, state) ==
  [node |-> name, state |-> state, there |-> state \in {"online", "standby", "maintenance"}]

Bullet(resource, word, swallowed) == [resource |-> resource, word |-> word, swallowed |-> swallowed]

Crm(lists, states, section, bullets) ==
  [lists |-> lists, nodes |-> {Node(n, states[n]) : n \in DOMAIN states}, section |-> section,
   bullets |-> bullets]

States(n1, n2, n3) == [n \in {"n1", "n2", "n3"} |->
                         CASE n = "n1" -> n1 [] n = "n2" -> n2 [] OTHER -> n3]

Peer(resource, disk, conn, peer_disk) ==
  [resource |-> resource, disk |-> disk, conn |-> conn, peer_disk |-> peer_disk]

Rdqm(running, crm, split, peers, alone) ==
  [Plain EXCEPT !.version = Digits(2), !.clusqmgr = {"PARTNER"},
                !.rdqmstatus = [nodes |-> TRUE, running |-> running], !.crm_mon = crm,
                !.drbdadm = [split |-> split, peers |-> peers, alone |-> alone]]

\* All well; a node lost and resources failed, one of them swallowed; quorum lost and a
\* split brain; nodes on standby in a line each; nodes unclean, a resource failed but no
\* section of it; a node on standby beside the lists and a split brain without a peer.
RdqmSystem ==
  {Rdqm("n1", Crm(TRUE, States("online", "online", "online"), FALSE, {}), {},
        {Peer("qm", "UpToDate", "Connected", "UpToDate")}, {}),
   Rdqm("n1", Crm(TRUE, States("online", "online", "offline"), TRUE,
                  {Bullet("vip", "FAILED", FALSE), Bullet("log", "Stopped", FALSE),
                   Bullet("fs", "FAILED", TRUE)}), {},
        {Peer("qm", "UpToDate", "WFConnection", "DUnknown"),
         Peer("log", "UpToDate", "SyncSource", "Inconsistent")},
        {[resource |-> "tmp", disk |-> "Failed"]}),
   Rdqm(None, Crm(TRUE, States("online", "offline", "offline"), TRUE,
                  {Bullet("vip", "FAILED", FALSE), Bullet("fs", "FAILED", FALSE)}), {"qm"},
        {Peer("qm", "UpToDate", "StandAlone", "DUnknown"),
         Peer("log", "Diskless", "Connected", "UpToDate")}, {}),
   Rdqm("n1", Crm(FALSE, States("online", "standby", "maintenance"), FALSE, {}), {"tmp"}, {}, {}),
   Rdqm("n1", Crm(TRUE, States("online", "UNCLEAN", "UNCLEAN"), FALSE,
                  {Bullet("vip", "FAILED", FALSE)}), {},
        {Peer("qm", "UpToDate", "Connected", "Outdated")}, {}),
   Rdqm("n1", Crm(TRUE, States("online", "offline", "standby"), FALSE,
                  {Bullet("vip", "unmanaged", FALSE)}), {"tmp"},
        {Peer("qm", "UpToDate", "Connected", "UpToDate")}, {})}

Line(q, mode, host, status) == [qm |-> q, mode |-> mode, host |-> host, status |-> status]

Permission(q, standby) == [qm |-> q, standby |-> standby]

Miqm(lines, permissions, codes) ==
  [Plain EXCEPT !.version = <<9, 4, 0, 0>>, !.clusqmgr = NotFound,
                !.qmstatus = [nativeha |-> "NO", codes |-> codes],
                !.rdqmstatus = [nodes |-> FALSE, running |-> None],
                !.dspmq_x = lines, !.standby = permissions]

\* One active, one standby; both active after a failover; none; and with another queue
\* manager on the host.
MiqmSystem ==
  {Miqm({Line(ThisQM, "ACTIVE", "h1", "Running"), Line(ThisQM, "STANDBY", "h2", "Running")},
        {Permission(ThisQM, "PERMITTED")}, {}),
   Miqm({Line(ThisQM, None, "h1", "Running"), Line(ThisQM, "ACTIVE", "h2", "Running")},
        {Permission(ThisQM, "NOT PERMITTED")}, {"AMQ7230"}),
   Miqm({Line(ThisQM, None, "h2", "Running as standby")}, {Permission(ThisQM, "PERMITTED")}, {}),
   Miqm({Line(ThisQM, "ACTIVE", "h1", "Running"), Line(OtherQM, "ACTIVE", "h1", "Running")},
        {Permission(ThisQM, "NOT PERMITTED"), Permission(OtherQM, "PERMITTED")}, {}),
   Miqm({Line(ThisQM, None, "h1", "Ended"), Line(OtherQM, None, "h1", "Running")},
        {Permission(ThisQM, "PERMITTED"), Permission(OtherQM, "NOT APPLICABLE")}, {})}

Zos(members, chinit, use, free, cf) ==
  [Plain EXCEPT !.platform = "MVS",
                !.group = {[qm |-> None, status |-> None]} \cup members,
                !.chinit = chinit, !.psid = {[psid |-> 0, use |-> use]},
                !.buffpool = {[pool |-> 0, free |-> free]},
                !.cfstatus = {[structure |-> "CSQ_ADMIN", status |-> cf]}]

Member(q, status) == [qm |-> q, status |-> status]

Chinit(status) == [chinit |-> status]

\* All well; everything full or failed; numbers that are none; limits just kept, and a
\* channel initiator whose second status counts for nothing; an empty status.
ZosSystem ==
  {Zos({Member(ThisQM, "ACTIVE"), Member(OtherQM, "RUNNING")},
       <<Chinit(None), Chinit("RUNNING")>>, 79, 10, "AVAILABLE"),
   Zos({Member(ThisQM, "ACTIVE"), Member(OtherQM, "INACTIVE")}, <<Chinit("STOPPED")>>, 95, 9,
       "DAMAGED"),
   Zos({Member(ThisQM, "ACTIVE")}, <<Chinit(None)>>, NoNumber, NoNumber, "RECOVERING"),
   Zos({Member(ThisQM, "")}, <<Chinit("RUNNING"), Chinit("STOPPED")>>, 80, 0, "ACTIVE"),
   Zos({}, <<Chinit("")>>, 80, 0, "ACTIVE")}

MCSystems == {{Plain}, NativeHaSystem, RdqmSystem, MiqmSystem, ZosSystem}

\* The server's machine runs an RDQM queue manager in trouble and others beside it.
MCOwnHost ==
  [Rdqm(None, Crm(TRUE, States("online", "offline", "offline"), TRUE,
                  {Bullet("ip", "FAILED", FALSE)}), {},
        {Peer("other", "Failed", "StandAlone", "DUnknown")}, {}) EXCEPT
     !.dspmq_x = {Line(OtherQM, "STANDBY", "x", "Running")},
     !.standby = {Permission(OtherQM, "NOT PERMITTED")}]
=============================================================================
