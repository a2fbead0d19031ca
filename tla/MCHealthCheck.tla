---------------------------- MODULE MCHealthCheck ----------------------------
(***************************************************************************)
(* HealthCheck with a few views of one queue manager, two dead letters and *)
(* depth limits scaled down to them.                                       *)
(***************************************************************************)
EXTENDS HealthCheck, TLC

CONSTANTS RemoteQM, CLUS, clus

Channel(status, reason, indoubt) ==
  [channel |-> "TO.B", status |-> status, reason |-> reason, indoubt |-> indoubt]

Member(q, c, full, status, days, suspended) ==
  [qm |-> q, cluster |-> c, repos |-> full, status |-> status, days |-> days, suspended |-> suspended]

View(chs, codes, members, full) ==
  [channels |-> chs, codes |-> codes, clusqmgrs |-> members, repos |-> full]

\* A queue manager left alone, with in-doubt channels, that is a full repository of clus
\* and not of CLUS; one without a full repository of clus, whose members are in trouble,
\* and with a sound channel and a sound cluster CLUS.
MCViews ==
  {View({Channel("RUNNING", 0, TRUE),
         [Channel("INDOUBT", 2100, FALSE) EXCEPT !.channel = "TO.C"]},
        {"AMQ9202", "AMQ8705"},
        {Member(ThisQM, CLUS, FALSE, "RUNNING", -1, FALSE),
         Member(ThisQM, clus, TRUE, "RUNNING", 0, FALSE)},
        {clus}),
   View({Channel("RETRYING", 2059, FALSE),
         [Channel("STOPPED", 2035, TRUE) EXCEPT !.channel = "TO.C"],
         [Channel("RUNNING", 0, FALSE) EXCEPT !.channel = "TO.D"]},
        {},
        {Member(ThisQM, clus, FALSE, "RUNNING", 0, TRUE),
         Member(RemoteQM, clus, FALSE, "RETRYING", 7, TRUE),
         Member(ThisQM, CLUS, FALSE, "RUNNING", 0, FALSE),
         Member(RemoteQM, CLUS, TRUE, "RUNNING", 6, FALSE)},
        {})}

MCUpper == (CLUS :> CLUS) @@ (clus :> CLUS)

\* A poison message, and one without a dead-letter header.
MCMessages ==
  {[reason |-> 2053, backout |-> 5, header |-> TRUE],
   [reason |-> 2079, backout |-> 4, header |-> FALSE]}
=============================================================================
