---------------------------- MODULE AuditLogProofs ----------------------------
(***************************************************************************)
(* What one AuditLogger on an undisturbed file guarantees, for every       *)
(* number of threads, events and restarts: the log always verifies, an     *)
(* acknowledged event is in it, and it implements the append-only ledger.  *)
(*                                                                         *)
(* The chain is not inductive by itself: the logger's memory (_prev_hash)  *)
(* has to agree with the file (Agrees) whenever no thread stands between   *)
(* its append and the assignment of _prev_hash, and one record behind      *)
(* while a thread does.                                                    *)
(***************************************************************************)
EXTENDS AuditLog, TLAPS

\* The log is written by one process, and nothing else touches the file.
SoleLogger ==
  /\ \A p, q \in Procs : p = q
  /\ TornWrites = FALSE /\ Edits = FALSE /\ Doctor = FALSE

\* Where a thread can be.
Place == {"idle", "waiting", "locked", "opened", "detached", "appended"}

USE DEF Writing, Place

\* Adding a line, terminated or not, leaves a non-empty file of lines.
LEMMA WithLineType ==
  ASSUME file \in Seq(Record \cup {Junk}), unended \in BOOLEAN,
         unended => file # <<>>, NEW line \in Record \cup {Junk}
  PROVE  WithLine(file, line) \in Seq(Record \cup {Junk}) /\ WithLine(file, line) # <<>>
<1>1. CASE unended
  <2>1. Len(file) \in 1 .. Len(file)
    BY <1>1
  <2>2. QED
    BY <1>1, <2>1 DEF WithLine
<1>2. CASE ~unended
  BY <1>2 DEF WithLine
<1>3. QED
  BY <1>1, <1>2

\* _load_last_hash returns a hash.
LEMMA LoadType ==
  ASSUME file \in Seq(Record \cup {Junk})
  PROVE  LoadLastHash(file) \in Seq(Bodies)
<1>1. CASE file = <<>> \/ file[Len(file)] = Junk
  BY <1>1 DEF LoadLastHash, Genesis
<1>2. CASE ~(file = <<>> \/ file[Len(file)] = Junk)
  <2>1. file[Len(file)] \in Record
    BY <1>2
  <2>2. QED
    BY <2>1, <1>2 DEF LoadLastHash, Record
<1>3. QED
  BY <1>1, <1>2

\* The record write() builds, and its fields.
LEMMA RecType ==
  ASSUME NEW b \in Bodies, NEW h \in Seq(Bodies)
  PROVE  /\ Rec(b, h) \in Record
         /\ Hash(b, h) \in Seq(Bodies)
         /\ Rec(b, h).body = b /\ Rec(b, h).prev = h /\ Rec(b, h).hash = Hash(b, h)
BY DEF Rec, Record, Hash

\* What a thread in write() is about to put in the file is a record of its event.
LEMMA ChainedRecord ==
  ASSUME TypeOK, NEW p \in Procs, NEW t \in Threads, pc[p][t] # "idle"
  PROVE  /\ Rec(body[p][t], prev[p]) \in Record
         /\ Rec(body[p][t], prev[p]).body = body[p][t]
         /\ Hash(body[p][t], prev[p]) \in Seq(Bodies)
<1>1. body[p][t] \in Bodies /\ prev[p] \in Seq(Bodies)
  BY DEF TypeOK
<1> QED
  BY <1>1, RecType

\* One thread of one process moves on; the others stay where they are.
LEMMA PcMoves ==
  ASSUME TypeOK, NEW p \in Procs, NEW t \in Threads,
         NEW where \in Place,
         pc' = [pc EXCEPT ![p][t] = where]
  PROVE  /\ pc' \in [Procs -> [Threads -> Place]]
         /\ pc'[p][t] = where
         /\ \A q \in Procs, u \in Threads : q # p \/ u # t => pc'[q][u] = pc[q][u]
<1>1. pc \in [Procs -> [Threads -> Place]]
  BY DEF TypeOK
<1> QED
  BY <1>1

\* A thread that leaves the lock, whatever it has written, keeps the types.
LEMMA LeaveType ==
  ASSUME TypeOK, NEW p \in Procs, NEW t \in Threads, pc[p][t] \in Writing \cup {"appended"},
         pc' = [pc EXCEPT ![p][t] = "idle"], lock' = [lock EXCEPT ![p] = NoThread],
         file' \in Seq(Record \cup {Junk}), unended' \in BOOLEAN, exists' \in BOOLEAN,
         unended' => file' # <<>>, file' # <<>> => exists', exists => exists',
         prev' \in [Procs -> Seq(Bodies)], acked' \subseteq Bodies,
         UNCHANGED <<up, body, doctor, crashes>>
  PROVE  TypeOK'
<1>1. lock \in [Procs -> Threads \cup {NoThread}] /\ lock[p] = t
  BY DEF TypeOK
<1>2. lock' \in [Procs -> Threads \cup {NoThread}] /\ \A q \in Procs \ {p} : lock'[q] = lock[q]
  BY <1>1
<1>3. pc' \in [Procs -> [Threads -> Place]]
  BY PcMoves
<1>4. /\ pc'[p][t] = "idle"
      /\ \A q \in Procs, u \in Threads : q # p \/ u # t => pc'[q][u] = pc[q][u]
  BY PcMoves
<1>5. \A q \in Procs, u \in Threads :
        /\ pc[q][u] \in Writing \cup {"appended"} => lock[q] = u
        /\ pc[q][u] = "opened" => exists
        /\ pc[q][u] # "idle" => q \in up /\ body[q][u] \in Bodies
  BY DEF TypeOK
<1>6. \A q \in Procs, u \in Threads :
        /\ pc'[q][u] \in Writing \cup {"appended"} => lock'[q] = u
        /\ pc'[q][u] = "opened" => exists'
  BY <1>1, <1>2, <1>4, <1>5
<1>7. \A q \in Procs, u \in Threads : pc'[q][u] # "idle" => q \in up' /\ body'[q][u] \in Bodies
  BY <1>4, <1>5
<1> QED
  BY <1>2, <1>3, <1>6, <1>7 DEF TypeOK

\* Every step, of any process and of any fault, keeps the types.
LEMMA NextTypeOK == TypeOK /\ [Next]_vars => TypeOK'
<1> SUFFICES ASSUME TypeOK, [Next]_vars PROVE TypeOK'
  OBVIOUS
<1> USE DEF TypeOK
<1>1. ASSUME NEW p \in Procs, Start(p) PROVE TypeOK'
  <2>1. LoadLastHash(file) \in Seq(Bodies)
    BY LoadType
  <2>2. QED
    BY <1>1, <2>1 DEF Start, fileVars
<1>2. ASSUME NEW p \in Procs, Stop(p) PROVE TypeOK'
  BY <1>2, AuditSwitches DEF Stop, fileVars
<1>3. ASSUME NEW p \in Procs, NEW t \in Threads, NEW b \in Bodies, CallWrite(p, t, b)
      PROVE TypeOK'
  BY <1>3 DEF CallWrite, fileVars
<1>4. ASSUME NEW p \in Procs, NEW t \in Threads, Acquire(p, t) PROVE TypeOK'
  <2>1. /\ pc[p][t] = "waiting" /\ lock[p] = NoThread
        /\ lock' = [lock EXCEPT ![p] = t] /\ pc' = [pc EXCEPT ![p][t] = "locked"]
        /\ UNCHANGED <<file, unended, exists, up, prev, body, acked, doctor, crashes>>
    BY <1>4 DEF Acquire, fileVars
  <2>2. pc' \in [Procs -> [Threads -> Place]]
    BY <2>1, PcMoves
  <2>3. /\ pc'[p][t] = "locked"
        /\ \A q \in Procs, u \in Threads : q # p \/ u # t => pc'[q][u] = pc[q][u]
    BY <2>1, PcMoves
  <2>4. \A u \in Threads : pc[p][u] \notin Writing \cup {"appended"}
    BY <2>1, AuditValues
  <2>5. lock'[p] = t /\ \A q \in Procs \ {p} : lock'[q] = lock[q]
    BY <2>1
  <2>6. \A q \in Procs, u \in Threads : pc'[q][u] \in Writing \cup {"appended"} => lock'[q] = u
    <3>1. \A u \in Threads : pc'[p][u] \in Writing \cup {"appended"} => lock'[p] = u
      BY <2>3, <2>4, <2>5
    <3>2. \A q \in Procs \ {p}, u \in Threads :
            pc'[q][u] \in Writing \cup {"appended"} => lock'[q] = u
      BY <2>3, <2>5
    <3> QED
      BY <3>1, <3>2
  <2>7. \A q \in Procs, u \in Threads :
          /\ pc'[q][u] # "idle" => q \in up' /\ body'[q][u] \in Bodies
          /\ pc'[q][u] = "opened" => exists'
    BY <2>1, <2>3
  <2>8. lock' \in [Procs -> Threads \cup {NoThread}]
    BY <2>1
  <2> QED
    BY <2>1, <2>2, <2>6, <2>7, <2>8
<1>5. ASSUME NEW p \in Procs, NEW t \in Threads, AppendLine(p, t) PROVE TypeOK'
  <2>0. pc[p][t] \in {"opened", "detached"}
    BY <1>5 DEF AppendLine
  <2>1. Rec(body[p][t], prev[p]) \in Record
    BY <2>0, ChainedRecord
  <2>2. /\ file' \in Seq(Record \cup {Junk}) /\ unended' \in BOOLEAN
        /\ unended' => file' # <<>>
        /\ file' # <<>> => exists
    <3>1. CASE file' = WithLine(file, Rec(body[p][t], prev[p])) /\ unended' = FALSE
               /\ pc[p][t] = "opened"
      BY <3>1, <2>1, WithLineType
    <3>2. CASE UNCHANGED <<file, unended>>
      BY <3>2
    <3> QED
      BY <1>5, <3>1, <3>2 DEF AppendLine
  <2>3. pc' = [pc EXCEPT ![p][t] = "appended"]
    BY <1>5 DEF AppendLine
  <2>4. pc' \in [Procs -> [Threads -> Place]]
    BY <2>3, PcMoves
  <2>5. /\ pc'[p][t] = "appended"
        /\ \A q \in Procs, u \in Threads : q # p \/ u # t => pc'[q][u] = pc[q][u]
    BY <2>3, PcMoves
  <2>6. UNCHANGED <<exists, up, prev, lock, body, acked, doctor, crashes>>
    BY <1>5 DEF AppendLine
  <2>7. \A q \in Procs, u \in Threads :
          pc'[q][u] = pc[q][u] \/ (q = p /\ u = t /\ pc'[q][u] = "appended")
    BY <2>5
  <2>8. \A q \in Procs, u \in Threads :
          pc'[q][u] \in Writing \cup {"appended"} => lock'[q] = u
    BY <2>0, <2>6, <2>7
  <2>9. \A q \in Procs, u \in Threads :
          /\ pc'[q][u] = "opened" => exists'
          /\ pc'[q][u] # "idle" => q \in up' /\ body'[q][u] \in Bodies
    BY <2>0, <2>6, <2>7
  <2> QED
    BY <2>2, <2>4, <2>6, <2>8, <2>9
<1>14. ASSUME NEW p \in Procs, NEW t \in Threads, OpenLog(p, t) PROVE TypeOK'
  <2>1. /\ pc[p][t] = "locked" /\ pc' = [pc EXCEPT ![p][t] = "opened"] /\ exists' = TRUE
        /\ UNCHANGED <<file, unended, up, prev, lock, body, acked, doctor, crashes>>
    BY <1>14 DEF OpenLog
  <2>2. pc' \in [Procs -> [Threads -> Place]]
    BY <2>1, PcMoves
  <2>3. /\ pc'[p][t] = "opened"
        /\ \A q \in Procs, u \in Threads : q # p \/ u # t => pc'[q][u] = pc[q][u]
    BY <2>1, PcMoves
  <2>4. \A q \in Procs, u \in Threads :
          /\ pc'[q][u] \in Writing \cup {"appended"} => lock'[q] = u
          /\ pc'[q][u] # "idle" => q \in up' /\ body'[q][u] \in Bodies
    BY <2>1, <2>3
  <2> QED
    BY <2>1, <2>2, <2>4
<1>6. ASSUME NEW p \in Procs, NEW t \in Threads, Commit(p, t) PROVE TypeOK'
  <2>0. pc[p][t] = "appended"
    BY <1>6 DEF Commit
  <2>1. Hash(body[p][t], prev[p]) \in Seq(Bodies)
    BY <2>0, ChainedRecord
  <2>2. QED
    BY <1>6, <2>1 DEF Commit, Leave, fileVars
<1>7. ASSUME NEW p \in Procs, NEW t \in Threads, WriteFails(p, t) PROVE TypeOK'
  <2>1. pc' = [pc EXCEPT ![p][t] = "idle"] /\ lock' = [lock EXCEPT ![p] = NoThread]
    BY <1>7 DEF WriteFails, Leave
  <2>2. pc[p][t] \in Writing
        /\ UNCHANGED <<file, unended, exists, up, prev, body, acked, doctor, crashes>>
    BY <1>7 DEF WriteFails, fileVars
  <2>3. QED
    BY <2>1, <2>2, LeaveType
<1>8. ASSUME NEW p \in Procs, NEW t \in Threads, WriteTorn(p, t) PROVE TypeOK'
  <2>0. pc[p][t] = "opened"
    BY <1>8 DEF WriteTorn
  <2>1. Rec(body[p][t], prev[p]) \in Record
    BY <2>0, ChainedRecord
  <2>2. file' \in Seq(Record \cup {Junk}) /\ file' # <<>>
    BY <1>8, <2>1, WithLineType DEF WriteTorn
  <2>3. pc' = [pc EXCEPT ![p][t] = "idle"] /\ lock' = [lock EXCEPT ![p] = NoThread]
    BY <1>8 DEF WriteTorn, Leave
  <2>4. exists /\ unended' = TRUE
        /\ UNCHANGED <<exists, up, prev, body, acked, doctor, crashes>>
    BY <1>8, <2>0 DEF WriteTorn
  <2>5. QED
    BY <2>0, <2>2, <2>3, <2>4, LeaveType
<1>9. ASSUME NEW i \in DOMAIN file, Edit(i) PROVE TypeOK'
  <2>1. file[i] \in Record
    BY <1>9 DEF Edit
  <2>2. [file[i] EXCEPT !.body = Forged] \in Record
    BY <2>1 DEF Record
  <2>3. file' = [file EXCEPT ![i] = [file[i] EXCEPT !.body = Forged]]
    BY <1>9 DEF Edit
  <2>4. file' \in Seq(Record \cup {Junk}) /\ file' # <<>>
    BY <2>2, <2>3
  <2>5. QED
    BY <1>9, <2>4 DEF Edit
<1>10. CASE DoctorCheck
  BY <1>10 DEF DoctorCheck
<1>11. CASE DoctorUnlink
  <2>1. <<>> \in Seq(Record \cup {Junk})
    OBVIOUS
  <2>2. /\ pc' \in [Procs -> [Threads -> Place]]
        /\ \A q \in Procs, u \in Threads :
             /\ pc'[q][u] # "opened"
             /\ pc'[q][u] = pc[q][u] \/ (pc'[q][u] = "detached" /\ pc[q][u] = "opened")
    BY <1>11 DEF DoctorUnlink
  <2>3. UNCHANGED <<up, prev, lock, body, acked, crashes>>
        /\ file' = <<>> /\ unended' = FALSE /\ exists' = FALSE
        /\ doctor' \in {"done", "destroyed"}
    BY <1>11 DEF DoctorUnlink
  <2>4. \A q \in Procs, u \in Threads :
          /\ pc'[q][u] \in Writing \cup {"appended"} => lock'[q] = u
          /\ pc'[q][u] # "idle" => q \in up' /\ body'[q][u] \in Bodies
    BY <2>2, <2>3
  <2>5. QED
    BY <2>1, <2>2, <2>3, <2>4
<1>12. CASE UNCHANGED vars
  BY <1>12 DEF vars
<1>13. QED
  BY <1>14, <1>1, <1>2, <1>3, <1>4, <1>5, <1>6, <1>7, <1>8, <1>9, <1>10, <1>11, <1>12
  DEF Next

\* The empty, not yet existing log is well typed.
LEMMA InitTypeOK == Init => TypeOK
<1> SUFFICES ASSUME Init PROVE TypeOK
  OBVIOUS
<1>1. file \in Seq(Record \cup {Junk}) /\ file = <<>> /\ unended = FALSE /\ exists = FALSE
  BY DEF Init
<1>2. prev \in [Procs -> Seq(Bodies)]
  <2>1. <<>> \in Seq(Bodies)
    OBVIOUS
  <2>2. QED
    BY <2>1 DEF Init, Genesis
<1>3. lock \in [Procs -> Threads \cup {NoThread}]
  BY DEF Init
<1>4. /\ pc \in [Procs -> [Threads -> Place]]
      /\ \A p \in Procs, t \in Threads : pc[p][t] = "idle"
  BY DEF Init
<1>5. body \in [Procs -> [Threads -> Bodies \cup {NoBody}]]
  BY DEF Init
<1>6. /\ up \subseteq Procs /\ acked \subseteq Bodies
      /\ doctor \in {"idle", "touched", "done"} /\ crashes \in 0 .. MaxCrashes
  BY AuditSwitches DEF Init
<1>7. QED
  BY <1>1, <1>2, <1>3, <1>4, <1>5, <1>6 DEF TypeOK

\* Types of the loggers' state, with any number of processes and every fault.
THEOREM AuditTypeOK == Spec => []TypeOK
<1>1. QED
  BY InitTypeOK, NextTypeOK, PTL DEF Spec
-------------------------------------------------------------------------------
\* The file is as the logger left it.
Quiet ==
  /\ unended = FALSE /\ doctor = "idle"
  /\ \A p \in Procs, t \in Threads : pc[p][t] # "detached"

\* The logger's memory against the file: the same last hash, or one record
\* behind while a thread is between its append and its assignment.
Agrees ==
  \A p \in up :
    /\ (\A t \in Threads : pc[p][t] # "appended") => prev[p] = LoadLastHash(file)
    /\ \A t \in Threads : pc[p][t] = "appended" =>
         file # <<>> /\ file[Len(file)] = Rec(body[p][t], prev[p])

\* An event that waits to be written is in no record and in no other hands.
Fresh ==
  \A p \in Procs, t \in Threads : pc[p][t] \in {"waiting"} \cup Writing =>
    /\ \A i \in DOMAIN file : file[i].body # body[p][t]
    /\ \A q \in Procs, u \in Threads :
         body[q][u] = body[p][t] => q = p /\ u = t

IInv == TypeOK /\ Quiet /\ ChainIntact /\ Agrees /\ Fresh /\ AckedRecorded

\* A record chained to the last hash extends a chain that verifies.
LEMMA ChainExtends ==
  ASSUME NEW f \in Seq(Record \cup {Junk}), VerifyChain(f), NEW b \in Bodies,
         NEW h \in Seq(Bodies), h = LoadLastHash(f)
  PROVE  VerifyChain(Append(f, Rec(b, h)))
<1> DEFINE r == Rec(b, h)
           g == Append(f, r)
<1>1. r \in Record /\ r # Junk /\ r.prev = h /\ r.hash = Hash(r.body, r.prev)
  BY RecType, AuditValues
<1> HIDE DEF r
<1>2. /\ DOMAIN g = 1 .. Len(f) + 1 /\ DOMAIN f = 1 .. Len(f) /\ Len(f) \in Nat
      /\ \A i \in 1 .. Len(f) : g[i] = f[i]
      /\ g[Len(f) + 1] = r
  OBVIOUS
<1> HIDE DEF g
<1>3. ASSUME NEW i \in 1 .. Len(f)
      PROVE  g[i] # Junk /\ g[i].prev = PrevOf(g, i) /\ g[i].hash = Hash(g[i].body, g[i].prev)
  <2>1. g[i] = f[i] /\ f[i] # Junk /\ f[i].prev = PrevOf(f, i)
        /\ f[i].hash = Hash(f[i].body, f[i].prev)
    BY <1>2 DEF VerifyChain
  <2>2. PrevOf(g, i) = PrevOf(f, i)
    BY <1>2 DEF PrevOf
  <2>3. QED
    BY <2>1, <2>2
<1>4. r.prev = PrevOf(g, Len(f) + 1)
  <2>1. CASE Len(f) = 0
    BY <2>1, <1>1 DEF PrevOf, LoadLastHash
  <2>2. CASE Len(f) # 0
    <3>1. Len(f) \in 1 .. Len(f) /\ f # <<>>
      BY <1>2, <2>2
    <3>2. f[Len(f)] # Junk
      BY <3>1, <1>2 DEF VerifyChain
    <3>3. h = f[Len(f)].hash
      BY <3>1, <3>2 DEF LoadLastHash
    <3>4. PrevOf(g, Len(f) + 1) = g[Len(f)].hash
      BY <1>2, <2>2 DEF PrevOf
    <3>5. QED
      BY <3>1, <3>3, <3>4, <1>1, <1>2
  <2>3. QED
    BY <2>1, <2>2
<1>5. \A i \in DOMAIN g :
        g[i] # Junk /\ g[i].prev = PrevOf(g, i) /\ g[i].hash = Hash(g[i].body, g[i].prev)
  BY <1>1, <1>2, <1>3, <1>4
<1>6. QED
  BY <1>5 DEF VerifyChain, g, r

\* What an append by the sole logger does to the file.
LEMMA AppendFacts ==
  ASSUME IInv, SoleLogger, NEW p \in Procs, NEW t \in Threads, AppendLine(p, t)
  PROVE  LET r == Rec(body[p][t], prev[p])
         IN /\ p \in up /\ body[p][t] \in Bodies /\ prev[p] \in Seq(Bodies)
            /\ \A u \in Threads : u # t => pc[p][u] \notin Writing \cup {"appended"}
            /\ prev[p] = LoadLastHash(file)
            /\ file' = Append(file, r)
            /\ r \in Record /\ r # Junk /\ r.body = body[p][t]
            /\ file \in Seq(Record \cup {Junk})
<1>1. pc[p][t] = "opened"
  BY DEF AppendLine, IInv, Quiet
<1>2. p \in up /\ body[p][t] \in Bodies /\ lock[p] = t /\ prev[p] \in Seq(Bodies)
      /\ file \in Seq(Record \cup {Junk})
  BY <1>1 DEF IInv, TypeOK
<1>3. \A u \in Threads : u # t => pc[p][u] \notin Writing \cup {"appended"}
  BY <1>2 DEF IInv, TypeOK
<1>4. prev[p] = LoadLastHash(file)
  BY <1>1, <1>2, <1>3 DEF IInv, Agrees
<1>5. file' = Append(file, Rec(body[p][t], prev[p]))
  BY <1>1 DEF AppendLine, WithLine, IInv, Quiet
<1>6. QED
  BY <1>2, <1>3, <1>4, <1>5, RecType, AuditValues

\* The append of the sole logger keeps the invariant: it extends the chain.
LEMMA AppendIInv ==
  ASSUME IInv, SoleLogger, NEW p \in Procs, NEW t \in Threads, AppendLine(p, t)
  PROVE  IInv'
<1> DEFINE r == Rec(body[p][t], prev[p])
<1>1. /\ p \in up /\ body[p][t] \in Bodies /\ prev[p] \in Seq(Bodies)
      /\ \A u \in Threads : u # t => pc[p][u] \notin Writing \cup {"appended"}
      /\ prev[p] = LoadLastHash(file)
      /\ file' = Append(file, r)
      /\ r \in Record /\ r # Junk /\ r.body = body[p][t]
      /\ file \in Seq(Record \cup {Junk})
  BY AppendFacts
<1>2. /\ pc[p][t] = "opened" /\ unended' = FALSE
      /\ pc' = [pc EXCEPT ![p][t] = "appended"]
      /\ UNCHANGED <<up, prev, lock, body, acked, doctor, crashes>>
  BY DEF AppendLine, IInv, Quiet
<1>3. TypeOK'
  BY NextTypeOK DEF IInv, Next
<1>4. Quiet'
  <2>1. \A q \in Procs, u \in Threads : pc'[q][u] # "detached"
    BY <1>2 DEF IInv, Quiet, TypeOK
  <2> QED
    BY <1>2, <2>1 DEF IInv, Quiet
<1>5. ChainIntact'
  BY <1>1, ChainExtends DEF IInv, ChainIntact
<1> HIDE DEF r
<1>6. /\ Len(file') = Len(file) + 1 /\ Len(file) \in Nat /\ file' # <<>>
      /\ file'[Len(file) + 1] = r
      /\ \A i \in DOMAIN file : i \in DOMAIN file' /\ file'[i] = file[i]
      /\ Len(file) + 1 \in DOMAIN file'
      /\ \A i \in DOMAIN file' : i \in DOMAIN file \/ i = Len(file) + 1
  <2>1. Len(file) \in Nat /\ DOMAIN file = 1 .. Len(file)
    BY <1>1
  <2>2. Len(file') = Len(file) + 1 /\ DOMAIN file' = 1 .. Len(file) + 1
    BY <1>1
  <2>3. file'[Len(file) + 1] = r /\ \A i \in DOMAIN file : file'[i] = file[i]
    BY <1>1, <2>1
  <2>4. file' # <<>>
    BY <2>1, <2>2
  <2> QED
    BY <2>1, <2>2, <2>3, <2>4
<1>7. Agrees'
  <2> SUFFICES ASSUME NEW q \in up'
               PROVE /\ (\A u \in Threads : pc'[q][u] # "appended")
                          => prev'[q] = LoadLastHash(file')
                     /\ \A u \in Threads : pc'[q][u] = "appended" =>
                          file' # <<>> /\ file'[Len(file')] = Rec(body'[q][u], prev'[q])
    BY DEF Agrees
  <2>1. q = p
    BY <1>2 DEF SoleLogger, IInv, TypeOK
  <2>2. pc'[p][t] = "appended" /\ \A u \in Threads : pc'[p][u] = "appended" => u = t
    BY <1>1, <1>2 DEF IInv, TypeOK
  <2>3. QED
    BY <2>1, <2>2, <1>2, <1>6 DEF r
<1>8. Fresh'
  <2> SUFFICES ASSUME NEW q \in Procs, NEW u \in Threads,
                      pc'[q][u] \in {"waiting"} \cup Writing
               PROVE  /\ \A i \in DOMAIN file' : file'[i].body # body'[q][u]
                      /\ \A v \in Procs, w \in Threads :
                           body'[v][w] = body'[q][u] => v = q /\ w = u
    BY DEF Fresh
  <2>1. pc[q][u] \in {"waiting"} \cup Writing /\ u # t
    BY <1>1, <1>2 DEF SoleLogger, IInv, TypeOK
  <2>2. body[p][t] # body[q][u]
    BY <2>1 DEF IInv, Fresh
  <2>3. QED
    BY <2>1, <2>2, <1>1, <1>2, <1>6 DEF IInv, Fresh
<1>9. AckedRecorded'
  BY <1>2, <1>6 DEF IInv, AckedRecorded
<1>10. QED
  BY <1>3, <1>4, <1>5, <1>7, <1>8, <1>9 DEF IInv

\* Without doctor, no open log is ever unlinked.
LEMMA StaysAttached ==
  ASSUME IInv, SoleLogger, [Next]_vars, NEW p \in Procs, NEW t \in Threads
  PROVE  pc'[p][t] # "detached"
<1>0. pc \in [Procs -> [Threads -> Place]] /\ pc[p][t] # "detached"
  BY DEF IInv, TypeOK, Quiet
<1>1. ASSUME NEW q \in Procs, NEW u \in Threads, NEW where \in Place \ {"detached"},
             pc' = [pc EXCEPT ![q][u] = where]
      PROVE  pc'[p][t] # "detached"
  BY <1>0, <1>1
<1>2. ASSUME NEW q \in Procs, Start(q) \/ Stop(q) PROVE pc'[p][t] # "detached"
  BY <1>0, <1>2 DEF Start, Stop
<1>3. ASSUME NEW q \in Procs, NEW u \in Threads,
             \/ \E b \in Bodies : CallWrite(q, u, b)
             \/ Acquire(q, u) \/ OpenLog(q, u) \/ AppendLine(q, u)
             \/ Commit(q, u) \/ WriteFails(q, u) \/ WriteTorn(q, u)
      PROVE  pc'[p][t] # "detached"
  <2>1. PICK where \in Place \ {"detached"} : pc' = [pc EXCEPT ![q][u] = where]
    BY <1>3 DEF CallWrite, Acquire, OpenLog, AppendLine, Commit, WriteFails, WriteTorn, Leave
  <2> QED
    BY <1>1, <2>1
<1>4. ~DoctorCheck /\ ~DoctorUnlink /\ \A i \in DOMAIN file : ~Edit(i)
  BY DEF DoctorCheck, DoctorUnlink, Edit, SoleLogger, IInv, Quiet
<1>5. CASE UNCHANGED vars
  BY <1>0, <1>5 DEF vars
<1> QED
  BY <1>2, <1>3, <1>4, <1>5 DEF Next

\* Every step of a sole logger keeps the invariant.
LEMMA NextIInv == SoleLogger /\ IInv /\ [Next]_vars => IInv'
<1> SUFFICES ASSUME SoleLogger, IInv, [Next]_vars PROVE IInv'
  OBVIOUS
<1>1. TypeOK'
  BY NextTypeOK DEF IInv
<1>0. unended' = FALSE /\ doctor' = "idle" => Quiet'
  BY StaysAttached DEF Quiet
<1>2. SUFFICES Quiet' /\ ChainIntact' /\ Agrees' /\ Fresh' /\ AckedRecorded'
  BY <1>1 DEF IInv
<1>3. ASSUME NEW p \in Procs, Start(p)
      PROVE Quiet' /\ ChainIntact' /\ Agrees' /\ Fresh' /\ AckedRecorded'
  <2>1. UNCHANGED <<file, unended, exists, lock, pc, body, acked, doctor, crashes>>
    BY <1>3 DEF Start, fileVars
  <2>2. Agrees'
    <3>1. \A q \in up' : q = p
      BY <1>3 DEF Start, SoleLogger, IInv, TypeOK
    <3>2. \A t \in Threads : pc[p][t] = "idle"
      BY <1>3 DEF Start, IInv, TypeOK
    <3>3. prev'[p] = LoadLastHash(file)
      BY <1>3 DEF Start, IInv, TypeOK
    <3>4. QED
      BY <2>1, <3>1, <3>2, <3>3 DEF Agrees
  <2>3. QED
    BY <1>0, <2>1, <2>2 DEF IInv, Quiet, ChainIntact, Fresh, AckedRecorded
<1>4. ASSUME NEW p \in Procs, Stop(p)
      PROVE Quiet' /\ ChainIntact' /\ Agrees' /\ Fresh' /\ AckedRecorded'
  <2>1. UNCHANGED <<file, unended, exists, prev, body, acked, doctor>>
    BY <1>4 DEF Stop, fileVars
  <2>2. Agrees'
    <3>1. up' = {}
      BY <1>4 DEF Stop, SoleLogger, IInv, TypeOK
    <3>2. QED
      BY <3>1 DEF Agrees
  <2>3. \A q \in Procs, u \in Threads : pc'[q][u] = pc[q][u] \/ pc'[q][u] = "idle"
    BY <1>4 DEF Stop, IInv, TypeOK
  <2>4. Fresh'
    BY <2>1, <2>3 DEF IInv, Fresh
  <2>5. QED
    BY <1>0, <2>1, <2>2, <2>4 DEF IInv, Quiet, ChainIntact, AckedRecorded
<1>5. ASSUME NEW p \in Procs, NEW t \in Threads, NEW b \in Bodies, CallWrite(p, t, b)
      PROVE Quiet' /\ ChainIntact' /\ Agrees' /\ Fresh' /\ AckedRecorded'
  <2>1. /\ UNCHANGED <<file, unended, exists, up, prev, lock, acked, doctor, crashes>>
        /\ pc[p][t] = "idle"
        /\ pc' = [pc EXCEPT ![p][t] = "waiting"]
        /\ body' = [body EXCEPT ![p][t] = b]
        /\ \A q \in Procs, u \in Threads : body[q][u] # b
        /\ \A i \in DOMAIN file : file[i] # Junk => file[i].body # b
    BY <1>5 DEF CallWrite, fileVars
  <2>2. Agrees'
    <3>1. \A q \in Procs, u \in Threads :
            (pc'[q][u] = "appended") <=> (pc[q][u] = "appended")
      BY <2>1 DEF IInv, TypeOK
    <3>2. \A q \in Procs, u \in Threads :
            pc[q][u] = "appended" => body'[q][u] = body[q][u]
      BY <2>1 DEF IInv, TypeOK
    <3>3. QED
      BY <2>1, <3>1, <3>2 DEF IInv, TypeOK, Agrees
  <2>3. Fresh'
    <3> SUFFICES ASSUME NEW q \in Procs, NEW u \in Threads,
                        pc'[q][u] \in {"waiting"} \cup Writing
                 PROVE  /\ \A i \in DOMAIN file' : file'[i].body # body'[q][u]
                        /\ \A v \in Procs, w \in Threads :
                             body'[v][w] = body'[q][u] => v = q /\ w = u
      BY DEF Fresh
    <3>0. /\ body'[p][t] = b
          /\ \A v \in Procs, w \in Threads :
               ~(v = p /\ w = t) => body'[v][w] = body[v][w]
      BY <2>1 DEF IInv, TypeOK
    <3>1. CASE q = p /\ u = t
      <4>1. \A i \in DOMAIN file : file[i] # Junk
        BY DEF IInv, ChainIntact, VerifyChain
      <4>2. QED
        BY <3>0, <3>1, <4>1, <2>1
    <3>2. CASE ~(q = p /\ u = t)
      <4>1. pc[q][u] \in {"waiting"} \cup Writing /\ body'[q][u] = body[q][u]
        BY <3>0, <3>2, <2>1 DEF IInv, TypeOK
      <4>2. \A i \in DOMAIN file : file[i].body # body[q][u]
        BY <4>1 DEF IInv, Fresh
      <4>3. \A v \in Procs, w \in Threads : body'[v][w] = body'[q][u] => v = q /\ w = u
        BY <4>1, <3>0, <2>1 DEF IInv, Fresh
      <4>4. QED
        BY <4>1, <4>2, <4>3, <2>1
    <3>3. QED
      BY <3>1, <3>2
  <2>4. QED
    BY <1>0, <2>1, <2>2, <2>3 DEF IInv, Quiet, ChainIntact, AckedRecorded
<1>6. ASSUME NEW p \in Procs, NEW t \in Threads, Acquire(p, t)
      PROVE Quiet' /\ ChainIntact' /\ Agrees' /\ Fresh' /\ AckedRecorded'
  <2>1. /\ UNCHANGED <<file, unended, exists, up, prev, body, acked, doctor, crashes>>
        /\ pc[p][t] = "waiting"
        /\ pc' = [pc EXCEPT ![p][t] = "locked"]
    BY <1>6 DEF Acquire, fileVars
  <2>2. \A q \in Procs, u \in Threads :
          /\ (pc'[q][u] = "appended") <=> (pc[q][u] = "appended")
          /\ pc'[q][u] \in {"waiting"} \cup Writing => pc[q][u] \in {"waiting"} \cup Writing
    BY <2>1 DEF IInv, TypeOK
  <2>3. Agrees'
    BY <2>1, <2>2 DEF IInv, TypeOK, Agrees
  <2>4. Fresh'
    BY <2>1, <2>2 DEF IInv, Fresh
  <2>5. QED
    BY <1>0, <2>1, <2>3, <2>4 DEF IInv, Quiet, ChainIntact, AckedRecorded
<1>15. ASSUME NEW p \in Procs, NEW t \in Threads, OpenLog(p, t)
      PROVE Quiet' /\ ChainIntact' /\ Agrees' /\ Fresh' /\ AckedRecorded'
  <2>1. /\ UNCHANGED <<file, unended, up, prev, lock, body, acked, doctor, crashes>>
        /\ pc[p][t] = "locked"
        /\ pc' = [pc EXCEPT ![p][t] = "opened"]
    BY <1>15 DEF OpenLog
  <2>2. \A q \in Procs, u \in Threads :
          /\ (pc'[q][u] = "appended") <=> (pc[q][u] = "appended")
          /\ pc'[q][u] \in {"waiting"} \cup Writing => pc[q][u] \in {"waiting"} \cup Writing
    BY <2>1 DEF IInv, TypeOK
  <2>3. Agrees'
    BY <2>1, <2>2 DEF IInv, TypeOK, Agrees
  <2>4. Fresh'
    BY <2>1, <2>2 DEF IInv, Fresh
  <2>5. QED
    BY <1>0, <2>1, <2>3, <2>4 DEF IInv, Quiet, ChainIntact, AckedRecorded
<1>7. ASSUME NEW p \in Procs, NEW t \in Threads, AppendLine(p, t)
      PROVE Quiet' /\ ChainIntact' /\ Agrees' /\ Fresh' /\ AckedRecorded'
  BY <1>7, AppendIInv DEF IInv
<1>8. ASSUME NEW p \in Procs, NEW t \in Threads, Commit(p, t)
      PROVE Quiet' /\ ChainIntact' /\ Agrees' /\ Fresh' /\ AckedRecorded'
  <2>1. /\ UNCHANGED <<file, unended, exists, up, body, doctor, crashes>>
        /\ pc[p][t] = "appended"
        /\ pc' = [pc EXCEPT ![p][t] = "idle"]
        /\ prev' = [prev EXCEPT ![p] = Hash(body[p][t], prev[p])]
        /\ acked' = acked \cup {body[p][t]}
    BY <1>8 DEF Commit, Leave, fileVars
  <2>2. /\ p \in up /\ lock[p] = t /\ body[p][t] \in Bodies /\ prev[p] \in Seq(Bodies)
        /\ file \in Seq(Record \cup {Junk})
    BY <2>1 DEF IInv, TypeOK
  <2>3. file # <<>> /\ file[Len(file)] = Rec(body[p][t], prev[p])
    BY <2>1, <2>2 DEF IInv, Agrees
  <2>4. /\ Len(file) \in DOMAIN file /\ file[Len(file)] # Junk
        /\ file[Len(file)].body = body[p][t]
        /\ file[Len(file)].hash = Hash(body[p][t], prev[p])
    BY <2>2, <2>3, RecType, AuditValues
  <2>5. Agrees'
    <3>1. \A q \in up' : q = p
      BY <2>1 DEF SoleLogger, IInv, TypeOK
    <3>2. \A u \in Threads : pc'[p][u] # "appended"
      BY <2>1, <2>2 DEF IInv, TypeOK
    <3>3. prev'[p] = LoadLastHash(file)
      BY <2>1, <2>3, <2>4 DEF LoadLastHash, IInv, TypeOK
    <3>4. QED
      BY <2>1, <3>1, <3>2, <3>3 DEF Agrees
  <2>6. \A q \in Procs, u \in Threads : pc'[q][u] = pc[q][u] \/ pc'[q][u] = "idle"
    BY <2>1 DEF IInv, TypeOK
  <2>7. Fresh'
    BY <2>1, <2>6 DEF IInv, Fresh
  <2>8. AckedRecorded'
    BY <2>1, <2>4 DEF IInv, AckedRecorded
  <2>9. QED
    BY <1>0, <2>1, <2>5, <2>7, <2>8 DEF IInv, Quiet, ChainIntact
<1>9. ASSUME NEW p \in Procs, NEW t \in Threads, WriteFails(p, t)
      PROVE Quiet' /\ ChainIntact' /\ Agrees' /\ Fresh' /\ AckedRecorded'
  <2>1. /\ UNCHANGED <<file, unended, up, prev, body, acked, doctor, crashes>>
        /\ pc[p][t] \in Writing
        /\ pc' = [pc EXCEPT ![p][t] = "idle"]
    BY <1>9 DEF WriteFails, Leave, fileVars
  <2>2. \A q \in Procs, u \in Threads :
          /\ (pc'[q][u] = "appended") <=> (pc[q][u] = "appended")
          /\ pc'[q][u] = pc[q][u] \/ pc'[q][u] = "idle"
    BY <2>1 DEF IInv, TypeOK
  <2>3. Agrees'
    BY <2>1, <2>2 DEF IInv, TypeOK, Agrees
  <2>4. Fresh'
    BY <2>1, <2>2 DEF IInv, Fresh
  <2>5. QED
    BY <1>0, <2>1, <2>3, <2>4 DEF IInv, Quiet, ChainIntact, AckedRecorded
<1>10. ~DoctorCheck /\ ~DoctorUnlink
  BY DEF DoctorCheck, DoctorUnlink, SoleLogger, IInv, Quiet
<1>11. \A p \in Procs, t \in Threads : ~WriteTorn(p, t)
  BY DEF WriteTorn, SoleLogger
<1>12. \A i \in DOMAIN file : ~Edit(i)
  BY DEF Edit, SoleLogger
<1>13. CASE UNCHANGED vars
  BY <1>0, <1>13 DEF vars, IInv, Quiet, ChainIntact, Agrees, Fresh, AckedRecorded
<1>14. QED
  BY <1>15, <1>3, <1>4, <1>5, <1>6, <1>7, <1>8, <1>9, <1>10, <1>11, <1>12, <1>13 DEF Next

\* The invariant holds of the empty log.
LEMMA InitIInv == Init => IInv
<1> SUFFICES ASSUME Init PROVE IInv
  OBVIOUS
<1>1. <<>> \in Seq(Record \cup {Junk}) /\ <<>> \in Seq(Bodies) /\ DOMAIN <<>> = {}
  OBVIOUS
<1>2. TypeOK
  BY InitTypeOK
<1>3. Quiet /\ Agrees /\ Fresh /\ AckedRecorded
  BY DEF Init, Quiet, Agrees, Fresh, AckedRecorded
<1>4. ChainIntact
  BY <1>1 DEF Init, ChainIntact, VerifyChain
<1>5. QED
  BY <1>2, <1>3, <1>4 DEF IInv

\* A sole AuditLogger's log verifies in every state, across crashes, restarts
\* and failed writes (AuditLogger.write, _load_last_hash and verify_chain).
THEOREM SoleLoggerChainIntact ==
  ASSUME SoleLogger
  PROVE  Spec => []ChainIntact
<1>1. IInv /\ [Next]_vars => IInv'
  BY NextIInv
<1>2. IInv => ChainIntact
  BY DEF IInv
<1>3. QED
  BY <1>1, <1>2, InitIInv, PTL DEF Spec

\* An event whose write() returned stays in a sole logger's log.
THEOREM SoleLoggerAckedRecorded ==
  ASSUME SoleLogger
  PROVE  Spec => []AckedRecorded
<1>1. IInv /\ [Next]_vars => IInv'
  BY NextIInv
<1>2. IInv => AckedRecorded
  BY DEF IInv
<1>3. QED
  BY <1>1, <1>2, InitIInv, PTL DEF Spec

\* The bodies of a log with one more line are the bodies and one more.
LEMMA BodiesAppend ==
  ASSUME NEW f \in Seq(Record \cup {Junk}), NEW r \in Record
  PROVE  [i \in DOMAIN Append(f, r) |-> Append(f, r)[i].body]
           = Append([i \in DOMAIN f |-> f[i].body], r.body)
<1> DEFINE g == Append(f, r)
           m == [i \in DOMAIN f |-> f[i].body]
<1>1. /\ DOMAIN f = 1 .. Len(f) /\ Len(f) \in Nat
      /\ DOMAIN g = 1 .. Len(f) + 1
      /\ \A i \in 1 .. Len(f) : g[i] = f[i]
      /\ g[Len(f) + 1] = r
  OBVIOUS
<1>2. m \in Seq({f[i].body : i \in DOMAIN f}) /\ Len(m) = Len(f)
  BY <1>1
<1>3. /\ DOMAIN Append(m, r.body) = 1 .. Len(f) + 1
      /\ \A i \in 1 .. Len(f) : Append(m, r.body)[i] = m[i]
      /\ Append(m, r.body)[Len(f) + 1] = r.body
  <2> HIDE DEF m
  <2> QED
    BY <1>2, <1>1
<1>4. Append(m, r.body) = [i \in 1 .. Len(f) + 1 |-> Append(m, r.body)[i]]
  <2> HIDE DEF m
  <2> QED
    BY <1>2, <1>1, <1>3
<1>5. \A i \in 1 .. Len(f) + 1 : g[i].body = Append(m, r.body)[i]
  BY <1>1, <1>3
<1>6. QED
  BY <1>1, <1>3, <1>4, <1>5

\* A step of the sole logger is a step of the ledger or leaves it alone.
LEMMA StepRefines ==
  SoleLogger /\ IInv /\ [Next]_vars => [Ledger!LedgerNext]_(Ledger!ledgerVars)
<1> SUFFICES ASSUME SoleLogger, IInv, [Next]_vars
             PROVE  Ledger!LedgerNext \/ UNCHANGED Ledger!ledgerVars
  OBVIOUS
<1> DEFINE m == [i \in DOMAIN file |-> file[i].body]
<1>0. (UNCHANGED <<file, acked>>) => UNCHANGED Ledger!ledgerVars
  BY DEF Ledger!ledgerVars
<1>1. ASSUME NEW p \in Procs, NEW t \in Threads, AppendLine(p, t)
      PROVE  Ledger!LedgerNext
  <2> DEFINE b == body[p][t]
             r == Rec(b, prev[p])
  <2>1. /\ file' = Append(file, r) /\ file \in Seq(Record \cup {Junk})
        /\ r \in Record /\ r.body = b /\ b \in Bodies
    BY <1>1, AppendFacts
  <2>2. [i \in DOMAIN file' |-> file'[i].body] = Append(m, b)
    <3> HIDE DEF r, b
    <3>1. [i \in DOMAIN Append(file, r) |-> Append(file, r)[i].body] = Append(m, r.body)
      BY <2>1, BodiesAppend
    <3> QED
      BY <2>1, <3>1
  <2>3. \A i \in DOMAIN file : file[i].body # b
    BY <1>1 DEF AppendLine, IInv, Fresh, Quiet
  <2>4. UNCHANGED acked
    BY <1>1 DEF AppendLine
  <2>5. b \notin Ledger!Recorded
    BY <2>3 DEF Ledger!Recorded
  <2>6. b \in Bodies
    BY <2>1
  <2>7. QED
    BY <2>2, <2>4, <2>5, <2>6 DEF Ledger!LedgerNext, Ledger!Enter
<1>2. ASSUME NEW p \in Procs, NEW t \in Threads, Commit(p, t)
      PROVE  Ledger!LedgerNext
  <2> DEFINE b == body[p][t]
  <2>1. /\ pc[p][t] = "appended" /\ UNCHANGED file /\ acked' = acked \cup {b}
    BY <1>2 DEF Commit, fileVars
  <2>2. /\ p \in up /\ b \in Bodies /\ prev[p] \in Seq(Bodies)
        /\ file \in Seq(Record \cup {Junk})
    BY <2>1 DEF IInv, TypeOK
  <2>3. file # <<>> /\ file[Len(file)] = Rec(b, prev[p])
    BY <2>1, <2>2 DEF IInv, Agrees
  <2>4. Len(file) \in DOMAIN file /\ file[Len(file)].body = b
    BY <2>2, <2>3, RecType
  <2>5. b \in Ledger!Recorded
    BY <2>4 DEF Ledger!Recorded
  <2>6. Ledger!Acknowledge(b)
    BY <2>1, <2>5 DEF Ledger!Acknowledge
  <2>7. QED
    BY <2>2, <2>6 DEF Ledger!LedgerNext
<1>3. ASSUME NEW p \in Procs, Start(p) \/ Stop(p) PROVE UNCHANGED <<file, acked>>
  BY <1>3 DEF Start, Stop, fileVars
<1>4. ASSUME NEW p \in Procs, NEW t \in Threads,
             \/ \E b \in Bodies : CallWrite(p, t, b)
             \/ Acquire(p, t) \/ OpenLog(p, t) \/ WriteFails(p, t)
      PROVE  UNCHANGED <<file, acked>>
  BY <1>4 DEF CallWrite, Acquire, OpenLog, WriteFails, fileVars
<1>5. ~DoctorCheck /\ ~DoctorUnlink
  BY DEF DoctorCheck, DoctorUnlink, SoleLogger, IInv, Quiet
<1>6. \A p \in Procs, t \in Threads : ~WriteTorn(p, t)
  BY DEF WriteTorn, SoleLogger
<1>7. \A i \in DOMAIN file : ~Edit(i)
  BY DEF Edit, SoleLogger
<1>8. CASE UNCHANGED vars
  BY <1>0, <1>8 DEF vars
<1>9. QED
  BY <1>0, <1>1, <1>2, <1>3, <1>4, <1>5, <1>6, <1>7, <1>8 DEF Next

\* A sole AuditLogger implements the append-only ledger of AuditLedger.
THEOREM SoleLoggerRefinesLedger ==
  ASSUME SoleLogger
  PROVE  Spec => RefinesLedger
<1>1. Init => Ledger!LedgerInit
  <2>1. ASSUME Init PROVE [i \in DOMAIN file |-> file[i].body] = <<>>
    <3>1. DOMAIN <<>> = 1 .. 0 /\ file = <<>>
      BY <2>1 DEF Init
    <3>2. [i \in 1 .. 0 |-> file[i].body] = <<>>
      OBVIOUS
    <3>3. QED
      BY <3>1, <3>2
  <2>2. QED
    BY <2>1 DEF Init, Ledger!LedgerInit
<1>2. IInv /\ [Next]_vars => IInv'
  BY NextIInv
<1>3. IInv /\ [Next]_vars => [Ledger!LedgerNext]_(Ledger!ledgerVars)
  BY StepRefines
<1>4. QED
  BY <1>1, <1>2, <1>3, InitIInv, PTL DEF Spec, RefinesLedger, Ledger!LedgerSpec
-------------------------------------------------------------------------------
\* Some line is not a record as write() made it.
Damaged(f) ==
  \E i \in DOMAIN f : f[i] = Junk \/ f[i].hash # Hash(f[i].body, f[i].prev)

\* Some line is a record of event b.
Holds(f, b) == \E i \in DOMAIN f : f[i] # Junk /\ f[i].body = b

\* Events that were acknowledged or are about to be.
Promised ==
  acked \cup {b \in Bodies : \E p \in Procs, t \in Threads :
                               pc[p][t] = "appended" /\ body[p][t] = b}

\* Whatever happens to the file, it holds what was promised or shows the damage,
\* unless doctor removed it with lines in it or while it was open for writing.
DamageShows ==
  doctor = "destroyed" \/ Damaged(file) \/ \A b \in Promised : Holds(file, b)

\* A write() into an unlinked file is the work of doctor.
DetachedTold ==
  \A p \in Procs, t \in Threads : pc[p][t] = "detached" => doctor = "destroyed"

\* Only doctor's unlink takes the file away from a write() that has it open.
LEMMA DetachedStep == TypeOK /\ DetachedTold /\ [Next]_vars => DetachedTold'
<1> SUFFICES ASSUME TypeOK, DetachedTold, [Next]_vars,
                    NEW p \in Procs, NEW t \in Threads, pc'[p][t] = "detached"
             PROVE  doctor' = "destroyed"
  BY DEF DetachedTold
<1>0. pc \in [Procs -> [Threads -> Place]]
  BY DEF TypeOK
<1>1. ASSUME doctor' = doctor, pc[p][t] = "detached" PROVE doctor' = "destroyed"
  BY <1>1 DEF DetachedTold
<1>2. ASSUME NEW q \in Procs, Start(q) \/ Stop(q) PROVE doctor' = "destroyed"
  BY <1>0, <1>1, <1>2 DEF Start, Stop
<1>3. ASSUME NEW q \in Procs, NEW u \in Threads,
             \/ \E b \in Bodies : CallWrite(q, u, b)
             \/ Acquire(q, u) \/ OpenLog(q, u) \/ AppendLine(q, u)
             \/ Commit(q, u) \/ WriteFails(q, u) \/ WriteTorn(q, u)
      PROVE  doctor' = "destroyed"
  <2>1. PICK where \in Place \ {"detached"} : pc' = [pc EXCEPT ![q][u] = where]
    BY <1>3 DEF CallWrite, Acquire, OpenLog, AppendLine, Commit, WriteFails, WriteTorn, Leave
  <2>2. doctor' = doctor
    BY <1>3 DEF CallWrite, Acquire, OpenLog, AppendLine, Commit, WriteFails, WriteTorn, fileVars
  <2> QED
    BY <1>0, <1>1, <2>1, <2>2
<1>4. CASE DoctorCheck
  BY <1>4, <1>1 DEF DoctorCheck, DetachedTold
<1>5. CASE DoctorUnlink
  <2>1. pc[p][t] \in {"opened", "detached"} /\ doctor = "touched"
    BY <1>5 DEF DoctorUnlink
  <2>2. pc[p][t] = "opened"
    BY <2>1 DEF DetachedTold
  <2> QED
    BY <1>5, <2>2 DEF DoctorUnlink, OpenForWriting
<1>6. ASSUME NEW i \in DOMAIN file, Edit(i) PROVE doctor' = "destroyed"
  BY <1>1, <1>6 DEF Edit
<1>7. CASE UNCHANGED vars
  BY <1>1, <1>7 DEF vars
<1> QED
  BY <1>2, <1>3, <1>4, <1>5, <1>6, <1>7 DEF Next

\* A file that verify_chain accepts is not damaged.
LEMMA VerifiedNotDamaged ==
  ASSUME NEW f, VerifyChain(f)
  PROVE  ~Damaged(f)
BY DEF VerifyChain, Damaged

\* Writing a line loses no record that was terminated, and hides no damage.
LEMMA WithLineKeeps ==
  ASSUME file \in Seq(Record \cup {Junk}), unended => file # <<>>,
         NEW line \in Record \cup {Junk}
  PROVE  LET f == WithLine(file, line) IN
         \/ Damaged(f)
         \/ /\ ~Damaged(file)
            /\ line \in Record /\ line # Junk
            /\ \A b : Holds(file, b) \/ line.body = b => Holds(f, b)
<1>1. CASE unended
  <2>1. Len(file) \in DOMAIN file
    BY <1>1
  <2>2. WithLine(file, line) = [file EXCEPT ![Len(file)] = Junk]
    BY <1>1 DEF WithLine
  <2>3. DOMAIN WithLine(file, line) = DOMAIN file /\ WithLine(file, line)[Len(file)] = Junk
    BY <2>1, <2>2
  <2> QED
    BY <2>1, <2>3 DEF Damaged
<1>2. CASE ~unended
  <2> DEFINE f == Append(file, line)
  <2>1. /\ WithLine(file, line) = f
        /\ \A i \in DOMAIN file : i \in DOMAIN f /\ f[i] = file[i]
        /\ Len(file) + 1 \in DOMAIN f /\ f[Len(file) + 1] = line
    BY <1>2 DEF WithLine
  <2> HIDE DEF f
  <2>2. Damaged(file) \/ line = Junk => Damaged(f)
    BY <2>1 DEF Damaged
  <2>3. \A b : line # Junk /\ (Holds(file, b) \/ line.body = b) => Holds(f, b)
    BY <2>1 DEF Holds
  <2> QED
    BY <2>1, <2>2, <2>3
<1> QED
  BY <1>1, <1>2

\* A line write() puts into the file, whole or torn, with the thread then past its
\* append or out of write() altogether.
LEMMA WriteShows ==
  ASSUME TypeOK, DamageShows, NEW p \in Procs, NEW t \in Threads, NEW line \in Record \cup {Junk},
         file' = WithLine(file, line), acked' = acked, doctor' = doctor, body' = body,
         \/ pc' = [pc EXCEPT ![p][t] = "idle"]
         \/ line # Junk /\ line.body = body[p][t] /\ pc' = [pc EXCEPT ![p][t] = "appended"]
  PROVE  DamageShows'
<1>1. file \in Seq(Record \cup {Junk}) /\ (unended => file # <<>>)
  BY DEF TypeOK
<1>2. \/ Damaged(file')
      \/ /\ ~Damaged(file)
         /\ \A b : Holds(file, b) \/ line.body = b => Holds(file', b)
  BY <1>1, WithLineKeeps
<1>3. \A b \in Promised' : b \in Promised \/ (line # Junk /\ line.body = b)
  <2>1. ASSUME NEW q \in Procs, NEW u \in Threads, pc'[q][u] = "appended"
        PROVE  \/ pc[q][u] = "appended"
               \/ line # Junk /\ line.body = body[q][u]
    <3>1. CASE pc' = [pc EXCEPT ![p][t] = "idle"]
      BY <2>1, <3>1 DEF TypeOK
    <3>2. CASE /\ line # Junk /\ line.body = body[p][t]
               /\ pc' = [pc EXCEPT ![p][t] = "appended"]
      BY <2>1, <3>2 DEF TypeOK
    <3> QED
      BY <3>1, <3>2
  <2> QED
    BY <2>1 DEF Promised
<1> QED
  BY <1>2, <1>3 DEF DamageShows

\* Every step of any process and any fault keeps it.
LEMMA DamageStep == TypeOK /\ DetachedTold /\ DamageShows /\ [Next]_vars => DamageShows'
<1> SUFFICES ASSUME TypeOK, DetachedTold, DamageShows, [Next]_vars PROVE DamageShows'
  OBVIOUS
<1>0. ASSUME UNCHANGED <<file, doctor>>, Promised' \subseteq Promised PROVE DamageShows'
  BY <1>0 DEF DamageShows
<1>1. ASSUME NEW p \in Procs, Start(p) PROVE DamageShows'
  BY <1>0, <1>1 DEF Start, fileVars, Promised
<1>2. ASSUME NEW p \in Procs, Stop(p) PROVE DamageShows'
  <2>1. \A q \in Procs, u \in Threads : pc'[q][u] = "appended" => pc[q][u] = "appended"
    BY <1>2 DEF Stop, TypeOK
  <2>2. Promised' \subseteq Promised
    BY <1>2, <2>1 DEF Stop, Promised
  <2> QED
    BY <1>0, <1>2, <2>2 DEF Stop, fileVars
<1>3. ASSUME NEW p \in Procs, NEW t \in Threads, NEW b \in Bodies, CallWrite(p, t, b)
      PROVE DamageShows'
  <2>1. \A q \in Procs, u \in Threads :
          pc'[q][u] = "appended" => pc[q][u] = "appended" /\ body'[q][u] = body[q][u]
    BY <1>3 DEF CallWrite, TypeOK
  <2>2. Promised' \subseteq Promised
    BY <1>3, <2>1 DEF CallWrite, Promised
  <2> QED
    BY <1>0, <1>3, <2>2 DEF CallWrite, fileVars
<1>4. ASSUME NEW p \in Procs, NEW t \in Threads,
             Acquire(p, t) \/ OpenLog(p, t) \/ WriteFails(p, t)
      PROVE DamageShows'
  <2>1. \A q \in Procs, u \in Threads : pc'[q][u] = "appended" => pc[q][u] = "appended"
    <3>1. PICK where \in {"locked", "opened", "idle"} : pc' = [pc EXCEPT ![p][t] = where]
      BY <1>4 DEF Acquire, OpenLog, WriteFails, Leave
    <3> QED
      BY <3>1 DEF TypeOK
  <2>2. Promised' \subseteq Promised
    BY <1>4, <2>1 DEF Acquire, OpenLog, WriteFails, Promised
  <2> QED
    BY <1>0, <1>4, <2>2 DEF Acquire, OpenLog, WriteFails, fileVars
<1>5. ASSUME NEW p \in Procs, NEW t \in Threads, AppendLine(p, t) PROVE DamageShows'
  <2>1. CASE pc[p][t] = "detached"
    <3>1. doctor' = "destroyed"
      BY <1>5, <2>1 DEF AppendLine, DetachedTold
    <3> QED
      BY <3>1 DEF DamageShows
  <2>2. CASE pc[p][t] = "opened"
    <3>1. Rec(body[p][t], prev[p]) \in Record /\ Rec(body[p][t], prev[p]).body = body[p][t]
      BY <2>2, ChainedRecord
    <3>2. Rec(body[p][t], prev[p]) # Junk
      BY <3>1, AuditValues
    <3>3. /\ file' = WithLine(file, Rec(body[p][t], prev[p]))
          /\ pc' = [pc EXCEPT ![p][t] = "appended"] /\ UNCHANGED <<acked, doctor, body>>
      BY <1>5, <2>2 DEF AppendLine
    <3> QED
      BY <3>1, <3>2, <3>3, WriteShows
  <2> QED
    BY <1>5, <2>1, <2>2 DEF AppendLine
<1>6. ASSUME NEW p \in Procs, NEW t \in Threads, WriteTorn(p, t) PROVE DamageShows'
  <2>0. pc[p][t] = "opened"
    BY <1>6 DEF WriteTorn
  <2>1. Rec(body[p][t], prev[p]) \in Record
    BY <2>0, ChainedRecord
  <2>2. PICK line \in {Junk, Rec(body[p][t], prev[p])} : file' = WithLine(file, line)
    BY <1>6 DEF WriteTorn
  <2> QED
    BY <1>6, <2>1, <2>2, WriteShows DEF WriteTorn, Leave
<1>7. ASSUME NEW p \in Procs, NEW t \in Threads, Commit(p, t) PROVE DamageShows'
  <2>1. body[p][t] \in Bodies
    BY <1>7 DEF Commit, TypeOK
  <2>2. \A q \in Procs, u \in Threads : pc'[q][u] = "appended" => pc[q][u] = "appended"
    BY <1>7 DEF Commit, Leave, TypeOK
  <2>3. Promised' \subseteq Promised
    BY <1>7, <2>1, <2>2 DEF Commit, Promised
  <2> QED
    BY <1>0, <1>7, <2>3 DEF Commit, fileVars
<1>8. ASSUME NEW i \in DOMAIN file, Edit(i) PROVE DamageShows'
  <2>1. file[i] \in Record /\ i \in DOMAIN file'
    BY <1>8 DEF Edit, TypeOK
  <2>2. /\ file'[i] = [file[i] EXCEPT !.body = Forged]
        /\ file'[i].body = Forged /\ file'[i].hash = file[i].hash
        /\ file'[i].prev = file[i].prev
    BY <1>8, <2>1 DEF Edit, TypeOK, Record
  <2>3. file[i].hash \in Seq(Bodies) /\ file[i].prev \in Seq(Bodies)
    BY <2>1 DEF Record
  <2>4. file[i].hash # Append(file[i].prev, Forged)
    <3>1. /\ Len(Append(file[i].prev, Forged)) = Len(file[i].prev) + 1
          /\ Append(file[i].prev, Forged)[Len(file[i].prev) + 1] = Forged
      BY <2>3
    <3>2. \A h \in Seq(Bodies) : \A n \in 1 .. Len(h) : h[n] \in Bodies
      OBVIOUS
    <3> QED
      BY <2>3, <3>1, <3>2, AuditValues
  <2>5. Damaged(file')
    BY <2>1, <2>2, <2>4 DEF Damaged, Hash
  <2> QED
    BY <2>5 DEF DamageShows
<1>9. CASE DoctorCheck
  <2>1. Promised' = Promised /\ UNCHANGED file /\ doctor # "destroyed"
    BY <1>9 DEF DoctorCheck, Promised
  <2> QED
    BY <2>1 DEF DamageShows
<1>10. CASE DoctorUnlink
  <2>0. \A p \in Procs, t \in Threads : pc'[p][t] = "appended" <=> pc[p][t] = "appended"
    BY <1>10 DEF DoctorUnlink
  <2>1. Promised' = Promised /\ doctor # "destroyed"
    BY <1>10, <2>0 DEF DoctorUnlink, Promised
  <2>2. file # <<>> => doctor' = "destroyed"
    BY <1>10 DEF DoctorUnlink
  <2>3. file = <<>> => file' = file
    BY <1>10 DEF DoctorUnlink
  <2> QED
    BY <2>1, <2>2, <2>3 DEF DamageShows
<1>11. CASE UNCHANGED vars
  BY <1>0, <1>11 DEF vars, Promised
<1> QED
  BY <1>1, <1>2, <1>3, <1>4, <1>5, <1>6, <1>7, <1>8, <1>9, <1>10, <1>11 DEF Next

\* A log that verify_chain accepts holds every event whose write() returned,
\* unaltered, with any number of processes, torn writes, edits and crashes and
\* whatever doctor does short of unlinking a log that has lines or is open for
\* writing.
THEOREM AuditVerifiedMeansComplete == Spec => []VerifiedMeansComplete
<1>1. Init => DamageShows
  BY DEF Init, DamageShows, Promised
<1>2. DamageShows => VerifiedMeansComplete
  BY VerifiedNotDamaged
  DEF DamageShows, Promised, Holds, VerifiedMeansComplete, AckedRecorded
<1>3. Init => DetachedTold
  BY DEF Init, DetachedTold
<1> QED
  BY <1>1, <1>2, <1>3, DetachedStep, DamageStep, AuditTypeOK, PTL DEF Spec
===============================================================================
