------------------------------- MODULE AuditLog -------------------------------
(***************************************************************************)
(* The hash-chained audit log of audit/logger.py: AuditLogger objects, one *)
(* per process, appending to one JSONL file; verify_chain; and the         *)
(* `mq-sentinel doctor` command, which touches and unlinks the same path.  *)
(*                                                                         *)
(* A SHA-256 hash is modelled by what it commits to: the hash of a record  *)
(* is the sequence of the bodies of the whole history that leads to it, so *)
(* two hashes are equal exactly when record and previous hash are.         *)
(* A line of the file is a record or Junk, a line orjson cannot parse.     *)
(***************************************************************************)
EXTENDS Integers, Sequences

CONSTANTS
  Procs,        \* processes with an AuditLogger on the file
  Threads,      \* threads of each process that write events
  Bodies,       \* events; each is written once (bounds the number of writes)
  Forged,       \* what an edit leaves in a record's body
  Junk,         \* a line that is not JSON
  NoThread, NoBody,
  TornWrites,   \* may a write stop half-way (disk full)?
  Edits,        \* may somebody edit a record in the file?
  Doctor,       \* may `mq-sentinel doctor` run beside the server?
  MaxCrashes    \* bound: how often processes stop

ASSUME AuditSwitches ==
  {TornWrites, Edits, Doctor} \subseteq BOOLEAN /\ MaxCrashes \in Nat

\* A line of the log that parses.
Record == [body : Bodies \cup {Forged}, prev : Seq(Bodies), hash : Seq(Bodies)]

ASSUME AuditValues ==
  /\ NoThread \notin Threads /\ NoBody \notin Bodies /\ Forged \notin Bodies
  /\ Junk \notin Record

VARIABLES
  file,       \* the lines of the log
  unended,    \* the last line has no newline
  exists,     \* the file is there
  up,         \* processes with a live AuditLogger
  prev,       \* AuditLogger._prev_hash, per process
  lock,       \* AuditLogger._lock, per process
  pc,         \* where each thread is in write()
  body,       \* write()'s parameter
  acked,      \* auxiliary: events whose write() returned
  doctor,     \* where `doctor` is in its audit path check; "destroyed": it
              \* unlinked a log that had lines or was open for writing
  crashes     \* auxiliary: how many times a process stopped

vars == <<file, unended, exists, up, prev, lock, pc, body, acked, doctor, crashes>>
fileVars == <<file, unended, exists>>
-----------------------------------------------------------------------------
Genesis == <<>>

Hash(b, p) == Append(p, b)

Rec(b, p) == [body |-> b, prev |-> p, hash |-> Hash(b, p)]

PrevOf(f, i) == IF i = 1 THEN Genesis ELSE f[i - 1].hash

\* A mutation of verify_chain: stored hashes are believed.
VerifyLinksOnly(f) ==
  \A i \in DOMAIN f : f[i] # Junk /\ f[i].prev = PrevOf(f, i)

\* verify_chain returns True; otherwise it raises (a line that does not parse,
\* a prev_hash mismatch, a record hash mismatch).
VerifyChain(f) ==
  \A i \in DOMAIN f :
    /\ f[i] # Junk
    /\ f[i].prev = PrevOf(f, i)
    /\ f[i].hash = Hash(f[i].body, f[i].prev)

LoadLastHash(f) ==
  IF f = <<>> \/ f[Len(f)] = Junk THEN Genesis ELSE f[Len(f)].hash

\* Writing a line: onto an unterminated last line it makes one line of both.
WithLine(f, line) ==
  IF unended THEN [f EXCEPT ![Len(f)] = Junk] ELSE Append(f, line)
-----------------------------------------------------------------------------
Init ==
  /\ file = <<>> /\ unended = FALSE /\ exists = FALSE
  /\ up = {}
  /\ prev = [p \in Procs |-> Genesis]
  /\ lock = [p \in Procs |-> NoThread]
  /\ pc = [p \in Procs |-> [t \in Threads |-> "idle"]]
  /\ body = [p \in Procs |-> [t \in Threads |-> NoBody]]
  /\ acked = {}
  /\ doctor = "idle"
  /\ crashes = 0

\* AuditLogger(log_path) in a new process.
Start(p) ==
  /\ p \notin up
  /\ up' = up \cup {p}
  /\ prev' = [prev EXCEPT ![p] = LoadLastHash(file)]
  /\ UNCHANGED <<fileVars, lock, pc, body, acked, doctor, crashes>>

\* The process exits or is killed; its memory is gone.
Stop(p) ==
  /\ p \in up
  /\ crashes < MaxCrashes
  /\ crashes' = crashes + 1
  /\ up' = up \ {p}
  /\ lock' = [lock EXCEPT ![p] = NoThread]
  /\ pc' = [pc EXCEPT ![p] = [t \in Threads |-> "idle"]]
  /\ UNCHANGED <<fileVars, prev, body, acked, doctor>>

\* write(event): the record is built, then the lock is requested.
CallWrite(p, t, b) ==
  /\ p \in up /\ pc[p][t] = "idle"
  /\ \A q \in Procs, u \in Threads : body[q][u] # b
  /\ \A i \in DOMAIN file : file[i] # Junk => file[i].body # b
  /\ b \notin acked
  /\ pc' = [pc EXCEPT ![p][t] = "waiting"]
  /\ body' = [body EXCEPT ![p][t] = b]
  /\ UNCHANGED <<fileVars, up, prev, lock, acked, doctor, crashes>>

\* A mutation of Acquire: no lock around the chaining.
AcquireUnlocked(p, t) ==
  /\ pc[p][t] = "waiting"
  /\ lock' = [lock EXCEPT ![p] = t]
  /\ pc' = [pc EXCEPT ![p][t] = "locked"]
  /\ UNCHANGED <<fileVars, up, prev, body, acked, doctor, crashes>>

Acquire(p, t) ==
  /\ pc[p][t] = "waiting"
  /\ lock[p] = NoThread
  /\ lock' = [lock EXCEPT ![p] = t]
  /\ pc' = [pc EXCEPT ![p][t] = "locked"]
  /\ UNCHANGED <<fileVars, up, prev, body, acked, doctor, crashes>>

\* A mutation of OpenLog: open("wb").
OpenTruncates(p, t) ==
  /\ pc[p][t] = "locked"
  /\ pc' = [pc EXCEPT ![p][t] = "opened"]
  /\ file' = <<>> /\ unended' = FALSE /\ exists' = TRUE
  /\ UNCHANGED <<up, prev, lock, body, acked, doctor, crashes>>

\* open("ab"): the log is created if it is not there.
OpenLog(p, t) ==
  /\ pc[p][t] = "locked"
  /\ pc' = [pc EXCEPT ![p][t] = "opened"]
  /\ exists' = TRUE
  /\ UNCHANGED <<file, unended, up, prev, lock, body, acked, doctor, crashes>>

\* write and close: one O_APPEND write of the whole line, into a file that may
\* have been unlinked since it was opened; the line is then nowhere.
AppendLine(p, t) ==
  /\ \/ /\ pc[p][t] = "opened"
        /\ file' = WithLine(file, Rec(body[p][t], prev[p]))
        /\ unended' = FALSE
     \/ /\ pc[p][t] = "detached"
        /\ UNCHANGED <<file, unended>>
  /\ pc' = [pc EXCEPT ![p][t] = "appended"]
  /\ UNCHANGED <<exists, up, prev, lock, body, acked, doctor, crashes>>

Leave(p, t) ==
  /\ lock' = [lock EXCEPT ![p] = NoThread]
  /\ pc' = [pc EXCEPT ![p][t] = "idle"]

\* self._prev_hash = record_hash; write() returns the hash.
Commit(p, t) ==
  /\ pc[p][t] = "appended"
  /\ prev' = [prev EXCEPT ![p] = Hash(body[p][t], @)]
  /\ acked' = acked \cup {body[p][t]}
  /\ Leave(p, t)
  /\ UNCHANGED <<fileVars, up, body, doctor, crashes>>

\* Where write() stands inside its `with` block before the line is out.
Writing == {"locked", "opened", "detached"}

\* A mutation of WriteFails: the error is swallowed and write() returns.
WriteFailsSilently(p, t) ==
  /\ pc[p][t] \in Writing
  /\ acked' = acked \cup {body[p][t]}
  /\ Leave(p, t)
  /\ UNCHANGED <<fileVars, up, prev, body, doctor, crashes>>

\* A mutation of WriteFails: an error leaves the lock held.
WriteFailsLocked(p, t) ==
  /\ pc[p][t] \in Writing
  /\ pc' = [pc EXCEPT ![p][t] = "idle"]
  /\ UNCHANGED <<fileVars, up, prev, lock, body, acked, doctor, crashes>>

\* mkdir, open or write fails before anything reaches the file; write() raises
\* and _prev_hash stays.
WriteFails(p, t) ==
  /\ pc[p][t] \in Writing
  /\ Leave(p, t)
  /\ UNCHANGED <<fileVars, up, prev, body, acked, doctor, crashes>>

\* The write fails after part of the line is in the file: a fragment that does
\* not parse, or the whole record without its newline.  write() raises and
\* _prev_hash stays.
WriteTorn(p, t) ==
  /\ TornWrites
  /\ pc[p][t] = "opened"
  /\ \E line \in {Junk, Rec(body[p][t], prev[p])} : file' = WithLine(file, line)
  /\ unended' = TRUE
  /\ Leave(p, t)
  /\ UNCHANGED <<exists, up, prev, body, acked, doctor, crashes>>

\* Somebody changes a field of a record in the file and leaves its hash.
Edit(i) ==
  /\ Edits
  /\ file[i] # Junk
  /\ file' = [file EXCEPT ![i].body = Forged]
  /\ UNCHANGED <<unended, exists, up, prev, lock, pc, body, acked, doctor, crashes>>

\* doctor: if the log exists, done; otherwise audit_path.touch().
DoctorCheck ==
  /\ Doctor /\ doctor = "idle"
  /\ doctor' = IF exists THEN "done" ELSE "touched"
  /\ exists' = TRUE
  /\ UNCHANGED <<file, unended, up, prev, lock, pc, body, acked, crashes>>

\* Some write() has the log open.
OpenForWriting == \E p \in Procs, t \in Threads : pc[p][t] = "opened"

\* doctor: audit_path.unlink(missing_ok=True).  Who has the log open keeps the
\* unlinked file.
DoctorUnlink ==
  /\ doctor = "touched"
  /\ doctor' = IF file = <<>> /\ ~OpenForWriting THEN "done" ELSE "destroyed"
  /\ file' = <<>> /\ unended' = FALSE /\ exists' = FALSE
  /\ pc' = [p \in Procs |-> [t \in Threads |->
              IF pc[p][t] = "opened" THEN "detached" ELSE pc[p][t]]]
  /\ UNCHANGED <<up, prev, lock, body, acked, crashes>>

Next ==
  \/ \E p \in Procs :
       \/ Start(p)
       \/ Stop(p)
       \/ \E t \in Threads :
            \/ \E b \in Bodies : CallWrite(p, t, b)
            \/ Acquire(p, t)
            \/ OpenLog(p, t)
            \/ AppendLine(p, t)
            \/ Commit(p, t)
            \/ WriteFails(p, t)
            \/ WriteTorn(p, t)
  \/ \E i \in DOMAIN file : Edit(i)
  \/ DoctorCheck
  \/ DoctorUnlink

Spec == Init /\ [][Next]_vars

\* A thread that finds the lock free again and again gets it; inside, the
\* write either succeeds or fails.
FairSpec ==
  /\ Spec
  /\ \A p \in Procs, t \in Threads :
       /\ SF_vars(Acquire(p, t))
       /\ WF_vars(OpenLog(p, t) \/ AppendLine(p, t) \/ WriteFails(p, t) \/ WriteTorn(p, t))
       /\ WF_vars(Commit(p, t))
-----------------------------------------------------------------------------
\* Types of the logger's state; a thread past line 70 is the lock's holder.
TypeOK ==
  /\ file \in Seq(Record \cup {Junk})
  /\ unended \in BOOLEAN /\ exists \in BOOLEAN
  /\ (unended => file # <<>>) /\ (file # <<>> => exists)
  /\ up \subseteq Procs
  /\ prev \in [Procs -> Seq(Bodies)]
  /\ lock \in [Procs -> Threads \cup {NoThread}]
  /\ pc \in [Procs -> [Threads ->
               {"idle", "waiting", "locked", "opened", "detached", "appended"}]]
  /\ \A p \in Procs, t \in Threads :
       /\ pc[p][t] \in Writing \cup {"appended"} => lock[p] = t
       /\ pc[p][t] = "opened" => exists
       /\ pc[p][t] # "idle" => p \in up /\ body[p][t] \in Bodies
  /\ body \in [Procs -> [Threads -> Bodies \cup {NoBody}]]
  /\ acked \subseteq Bodies
  /\ doctor \in {"idle", "touched", "done", "destroyed"}
  /\ crashes \in 0 .. MaxCrashes

\* With one logger on the file and no torn write, verify_chain accepts the log
\* in every state: between append and commit, after failed writes, after the
\* process was killed at any point and a new logger resumed the chain.
ChainIntact == VerifyChain(file)

\* An event whose write() returned is a readable record of the log.
AckedRecorded ==
  \A b \in acked : \E i \in DOMAIN file : file[i] # Junk /\ file[i].body = b

\* Whatever goes wrong with the file - torn writes, a second process with its
\* own idea of the last hash, edits in place, crashes - verify_chain does not
\* accept a log in which an acknowledged event is missing or altered.  The one
\* thing it cannot see is a log that is gone: doctor must not have unlinked it
\* with lines in it, nor while a write() stood between open() and write(), whose
\* event is acknowledged and in no file.
VerifiedMeansComplete ==
  (VerifyChain(file) /\ doctor # "destroyed") => AckedRecorded

\* Every write() returns or raises, unless its process stops.
EveryWriteReturns ==
  \A p \in Procs, t \in Threads : pc[p][t] = "waiting" ~> pc[p][t] = "idle"

Ledger == INSTANCE AuditLedger WITH
            Events <- Bodies,
            ledger <- [i \in DOMAIN file |-> file[i].body]

\* One AuditLogger implements the append-only ledger: only appends change the
\* log, each event enters it once, and an acknowledgement follows its record.
RefinesLedger == Ledger!LedgerSpec
=============================================================================
