------------------------------- MODULE Engine -------------------------------
(***************************************************************************)
(* The storage engine of lsmkv (class Engine): one writer at a time, the   *)
(* flush and compaction jobs that creation_mutex_ serialises, close, crash *)
(* and restart.  A step is what one thread does under one lock, or up to   *)
(* the next durable effect; a crash may fall between any two steps.        *)
(*                                                                         *)
(* Built on DurableLog, so wal_fsync_every_n = 1 and the log is reliable.  *)
(* Simplifications:                                                        *)
(*  - a memtable is full at MemMax entries (memtable_max_bytes);           *)
(*  - a table carries its contents; `files' says which exist on disk.      *)
(*    The rename of x.sst.tmp is what makes a file exist: a leftover .tmp  *)
(*    is never read and open() removes it;                                 *)
(*  - a compaction may take any window of adjacent tables, what            *)
(*    compaction-run --files allows; the picker only chooses among them;   *)
(*  - whether a table is older than tombstone_grace_seconds is a choice;   *)
(*  - a put that throws before it changes anything is no step.             *)
(***************************************************************************)
EXTENDS Integers, Sequences, FiniteSets, SequencesExt

CONSTANTS Keys, Values,
          NotFound,       \* a delete marker, and what a miss returns
          MemMax,         \* entries at which a memtable is full
          MaxImm,         \* max_immutable_tables
          L0Stop,         \* l0_stop_writes
          RollRecords,    \* records per WAL segment
          GraceElapses    \* may a table get older than the grace period?

(* Bounds of the state space: no part of the system.                       *)
CONSTANTS MaxSeqno,       \* highest seqNo assigned
          MaxCompactId,   \* a compaction starts only while next id <= this
          MaxCrashes, MaxCloses, MaxFailures

ASSUME EngineAssumption ==
    /\ NotFound \notin Values
    /\ MemMax \in Nat \ {0} /\ MaxImm \in Nat \ {0}
    /\ L0Stop \in Nat /\ RollRecords \in Nat \ {0}
    /\ GraceElapses \in BOOLEAN
    /\ {MaxSeqno, MaxCompactId, MaxCrashes, MaxCloses, MaxFailures} \subseteq Nat

Mutation == [key : Keys, val : Values \cup {NotFound}]

VARIABLES
    recs, segs, activeSeg, lastSeqno, isOpen,   \* the log: see DurableLog
    dman, dnextId,    \* manifest.json: tables in the order saved, next id
    files,            \* ids of the .sst files on disk
    phase,            \* life of the process and of the engine in it
    man, nextId,      \* manifest_: tables newest first, next_sst_id_
    readers,          \* readers_: what a get searches, newest first
    active, imms,     \* active_, immutables_ (newest first)
    todo,             \* WAL records open() has still to replay
    writer,           \* the holder of write_mutex_
    job,              \* the holder of creation_mutex_
    cancel,           \* cancel_compaction_
    crashes, closes, failures  \* spent of the bounds

walVars == <<recs, segs, activeSeg, lastSeqno, isOpen>>
diskVars == <<dman, dnextId, files>>
tableVars == <<man, nextId, readers>>
memVars == <<active, imms>>
boundVars == <<crashes, closes, failures>>
vars == <<walVars, diskVars, tableVars, memVars,
          phase, todo, writer, job, cancel, boundVars>>

Log == INSTANCE DurableLog WITH Op <- Mutation

-----------------------------------------------------------------------------
(* Memtables and tables.                                                   *)

Entry == [val : Values \cup {NotFound}, seq : Nat]
EmptyMemtable == [k \in {} |-> NotFound]

(* Memtable::apply overwrites whatever the key had.                        *)
Apply(m, r) ==
    [k \in DOMAIN m \cup {r.op.key} |->
        IF k = r.op.key THEN [val |-> r.op.val, seq |-> r.seq] ELSE m[k]]

IsFull(m) == Cardinality(DOMAIN m) >= MemMax

Seqnos(m) == {m[k].seq : k \in DOMAIN m}

(* write_sstable: the table made of m, with the metadata that goes to the  *)
(* manifest; none if m is empty.                                           *)
TablesSwapped(id, m) ==                                          \* mistake
    {t \in [id : {id}, data : {m}, lo : Seqnos(m), hi : Seqnos(m)] :
        \A n \in Seqnos(m) : t.hi <= n /\ n <= t.lo}
TablesOf(id, m) ==
    {t \in [id : {id}, data : {m}, lo : Seqnos(m), hi : Seqnos(m)] :
        \A n \in Seqnos(m) : t.lo <= n /\ n <= t.hi}

Ids(tables) == {t.id : t \in Range(tables)}

Greatest(S) == {n \in S : \A m \in S : m <= n}

(* Manifest::max_seqno, as a set of one.                                   *)
Watermark(tables) == Greatest({0} \cup {t.hi : t \in Range(tables)})

(* The orders std::sort may leave a set of tables in: by max_seqno         *)
(* descending, tables with equal max_seqno either way.                     *)
SortedByMaxSeqno(S) ==
    {s \in [1 .. Cardinality(S) -> S] :
        /\ \A t \in S : \E i \in DOMAIN s : s[i] = t
        /\ \A i, j \in DOMAIN s : i < j => s[i].hi >= s[j].hi}

(* Position of the first of a sequence of maps that holds the key.         *)
FirstHolder(ms, k) == Min({i \in DOMAIN ms : k \in DOMAIN ms[i]})

Data(tables) == [i \in DOMAIN tables |-> tables[i].data]

(* First hit wins, and a delete marker ends the search (Engine::get).      *)
Lookup(ms, k) ==
    IF \E i \in DOMAIN ms : k \in DOMAIN ms[i]
    THEN ms[FirstHolder(ms, k)][k].val
    ELSE NotFound

-----------------------------------------------------------------------------
(* The process is down, replays its log, runs, drains its flush queue, or  *)
(* stops its workers.                                                      *)
Phases == {"down", "replay", "running", "draining", "stopping", "closed"}
Live == {"running", "draining", "stopping"}

NoRecord == [seg |-> 0, seq |-> 0, op |-> NotFound]
Idle == [pc |-> "idle", rec |-> NoRecord]
NoJob == [pc |-> "idle", out |-> {}, ins |-> {}]

Init ==
    /\ Log!Init
    /\ dman = <<>> /\ dnextId = 1 /\ files = {}
    /\ phase = "down"
    /\ man = <<>> /\ nextId = 1 /\ readers = <<>>
    /\ active = EmptyMemtable /\ imms = <<>> /\ todo = {}
    /\ writer = Idle /\ job = NoJob /\ cancel = FALSE
    /\ crashes = 0 /\ closes = 0 /\ failures = 0

(* Everything in memory is gone.                                           *)
ForgetMemory ==
    /\ phase' = "down"
    /\ man' = <<>> /\ nextId' = 1 /\ readers' = <<>>
    /\ active' = EmptyMemtable /\ imms' = <<>> /\ todo' = {}
    /\ writer' = Idle /\ job' = NoJob /\ cancel' = FALSE

-----------------------------------------------------------------------------
(* open()                                                                  *)

(* Load and sort the manifest, delete the tables it does not name, refuse  *)
(* a store whose manifest names a missing table, then start the replay.    *)
LoadManifest ==
    /\ phase = "down"
    /\ Ids(dman) \subseteq files
    /\ files' = files \cap Ids(dman)
    /\ \E order \in SortedByMaxSeqno(Range(dman)) :
          man' = order /\ readers' = order
    /\ nextId' \in Greatest({dnextId} \cup {id + 1 : id \in Ids(dman)})
    /\ todo' = recs
    /\ phase' = "replay"
    /\ UNCHANGED <<walVars, dman, dnextId, memVars, writer, job, cancel, boundVars>>

(* A full memtable moves to the queue if there is room.                    *)
AnyRecord(r) == TRUE                 \* mistake: segments listed in any order
OldestRecord(r) ==
    \A q \in todo : r.seg < q.seg \/ (r.seg = q.seg /\ r.seq <= q.seq)

ReplayOne ==
    /\ phase = "replay"
    /\ \E r \in todo :
          /\ OldestRecord(r)
          /\ todo' = todo \ {r}
          /\ LET m == Apply(active, r) IN
             IF IsFull(m) /\ Len(imms) < MaxImm
             THEN active' = EmptyMemtable /\ imms' = <<m>> \o imms
             ELSE active' = m /\ UNCHANGED imms
    /\ UNCHANGED <<walVars, diskVars, tableVars, phase, writer, job, cancel, boundVars>>

FinishOpen ==
    /\ phase = "replay" /\ todo = {}
    /\ \E w \in Watermark(man) : Log!Open(w)
    /\ phase' = "running"
    /\ UNCHANGED <<diskVars, tableVars, memVars, todo, writer, job, cancel, boundVars>>

-----------------------------------------------------------------------------
(* put() and remove().  write_mutex_ is held from "admitted" or "stalled"  *)
(* to "idle".                                                              *)

QueueHasRoom == Len(imms) < MaxImm
HasCapacity == ~IsFull(active) \/ QueueHasRoom

(* A stalled writer holds state_mutex_ from the moment it has found no     *)
(* room until it blocks on state_cv_, when it goes from "stalled" to       *)
(* "waiting".                                                              *)
StateMutexFree == writer.pc # "stalled"

(* state_cv_.notify_all() wakes who is blocked, and nobody else.  (A       *)
(* spurious wakeup may happen but cannot be relied on: left out.)          *)
NobodyNotified == writer                      \* mistake: no notify_all()
WriterNotified ==
    IF writer.pc = "waiting" THEN [Idle EXCEPT !.pc = "woken"] ELSE writer

(* ensure_write_capacity: too many tables refuse the write, a full queue   *)
(* stalls it.                                                              *)
BeginWrite ==
    /\ phase = "running" /\ writer.pc = "idle"
    /\ lastSeqno < MaxSeqno
    /\ Len(man) <= L0Stop
    /\ writer' = [Idle EXCEPT !.pc = IF HasCapacity THEN "admitted" ELSE "stalled"]
    /\ UNCHANGED <<walVars, diskVars, tableVars, memVars, phase, todo, job,
                   cancel, boundVars>>

BlockWriter ==
    /\ writer.pc = "stalled"
    /\ writer' = [Idle EXCEPT !.pc = "waiting"]
    /\ UNCHANGED <<walVars, diskVars, tableVars, memVars, phase, todo, job,
                   cancel, boundVars>>

(* The store is closing and the write fails, a slot is free, or neither.   *)
WakeWriter ==
    /\ writer.pc = "woken"
    /\ \/ phase # "running" /\ writer' = Idle
       \/ phase = "running" /\ QueueHasRoom /\ writer' = [Idle EXCEPT !.pc = "admitted"]
       \/ phase = "running" /\ ~QueueHasRoom /\ writer' = [Idle EXCEPT !.pc = "stalled"]
    /\ UNCHANGED <<walVars, diskVars, tableVars, memVars, phase, todo, job,
                   cancel, boundVars>>

(* Durable first: the record is in the log before anyone can read it.      *)
LogWrite(o) ==
    /\ writer.pc = "admitted"
    /\ Log!Append(o)
    /\ writer' = [pc |-> "logged", rec |-> Log!NextRecord(o)]
    /\ UNCHANGED <<diskVars, tableVars, memVars, phase, todo, job, cancel, boundVars>>

(* close() got to the log first.                                           *)
RefuseWrite ==
    /\ writer.pc = "admitted" /\ ~isOpen
    /\ writer' = Idle
    /\ UNCHANGED <<walVars, diskVars, tableVars, memVars, phase, todo, job,
                   cancel, boundVars>>

ApplyWrite ==
    /\ writer.pc = "logged"
    /\ active' = Apply(active, writer.rec)
    /\ writer' = [pc |-> "applied", rec |-> writer.rec]
    /\ UNCHANGED <<walVars, diskVars, tableVars, imms, phase, todo, job, cancel,
                   boundVars>>

(* maybe_rotate has nothing to do, defers, or throws because the log was   *)
(* closed meanwhile: the put returns.                                      *)
ReturnFromWrite ==
    /\ writer.pc = "applied"
    /\ ~IsFull(active) \/ Len(imms) >= MaxImm \/ ~isOpen
    /\ writer' = Idle
    /\ UNCHANGED <<walVars, diskVars, tableVars, memVars, phase, todo, job,
                   cancel, boundVars>>

(* maybe_rotate: the log rolls first, then the memtable joins the queue.   *)
Rotate ==
    /\ writer.pc = "applied"
    /\ IsFull(active) /\ Len(imms) < MaxImm
    /\ Log!Roll
    /\ imms' = <<active>> \o imms
    /\ active' = EmptyMemtable
    /\ writer' = Idle
    /\ UNCHANGED <<diskVars, tableVars, phase, todo, job, cancel, boundVars>>

-----------------------------------------------------------------------------
(* flush_one().  The oldest immutable is written to a table, which is then *)
(* published, and the log is cleaned up; all under creation_mutex_.        *)

WorkersWhileRunning == phase = "running"      \* mistake: they stop at close()
WorkersUp == phase \in Live

IdFromCount == Len(man) + 1                   \* mistake: ids come back
OutputId == nextId

FlushWrite ==
    /\ WorkersUp /\ job.pc = "idle" /\ imms # <<>> /\ StateMutexFree
    /\ files' = files \cup {OutputId}
    /\ job' = [pc |-> "flush", out |-> TablesOf(OutputId, Last(imms)), ins |-> {}]
    /\ UNCHANGED <<walVars, dman, dnextId, tableVars, memVars, phase, todo, writer,
                   cancel, boundVars>>

(* Manifest::add_table and the publish, under state_mutex_, then the       *)
(* notification that frees a stalled writer.                               *)
FlushPublish ==
    /\ job.pc = "flush" /\ StateMutexFree
    /\ \E t \in job.out :
          /\ man' = <<t>> \o man
          /\ readers' = <<t>> \o readers
          /\ nextId' = Max({nextId, t.id + 1})
    /\ dman' = man' /\ dnextId' = nextId'
    /\ imms' = Front(imms)
    /\ job' = [NoJob EXCEPT !.pc = "clean"]
    /\ writer' = WriterNotified
    /\ UNCHANGED <<walVars, files, active, phase, todo, cancel, boundVars>>

(* write_sstable throws: nothing has changed.  If the flush was close()'s  *)
(* own, close() throws: the drain is over and the destructors stop the     *)
(* workers and close the log.                                              *)
DrainAbandoned ==
    /\ phase = "draining" /\ phase' = "stopping"
    /\ writer' = WriterNotified

FlushWriteFails ==
    /\ WorkersUp /\ job.pc = "idle" /\ imms # <<>> /\ StateMutexFree
    /\ failures < MaxFailures
    /\ DrainAbandoned \/ UNCHANGED <<phase, writer>>
    /\ failures' = failures + 1
    /\ UNCHANGED <<walVars, diskVars, tableVars, memVars, todo, job, cancel,
                   crashes, closes>>

CleanAnyway == [NoJob EXCEPT !.pc = "clean"]  \* mistake: the log is cleaned up
GiveUp == NoJob

(* Manifest::save throws after add_table has edited the tables in memory;  *)
(* the immutable stays queued and is flushed again.                        *)
FlushSaveFails ==
    /\ job.pc = "flush" /\ StateMutexFree /\ failures < MaxFailures
    /\ \E t \in job.out :
          /\ man' = <<t>> \o man
          /\ nextId' = Max({nextId, t.id + 1})
    /\ imms' = imms
    /\ job' = GiveUp
    /\ DrainAbandoned \/ UNCHANGED <<phase, writer>>
    /\ failures' = failures + 1
    /\ UNCHANGED <<walVars, diskVars, readers, active, todo, cancel,
                   crashes, closes>>

FlushClean ==
    /\ job.pc = "clean" /\ StateMutexFree
    /\ \E w \in Watermark(man) : Log!RemoveSegments(Log!Covered(w))
    /\ job' = NoJob
    /\ UNCHANGED <<diskVars, tableVars, memVars, phase, todo, writer, cancel, boundVars>>

-----------------------------------------------------------------------------
(* run_compaction() over the tables at positions i .. j of the manifest.   *)

Window(i, j) == SubSeq(man, i, j)

(* Applied oldest table to newest, so the first holder in the window wins. *)
Merged(w) ==
    [k \in UNION {DOMAIN w[i].data : i \in DOMAIN w} |->
        w[FirstHolder(Data(w), k)].data[k]]

(* source_created_at: the first input whose seqNo range covers the marker  *)
(* tells its age; with none it counts as brand new.                        *)
IsAged(seqno, w, aged) ==
    \E i \in DOMAIN w :
        /\ w[i].lo <= seqno /\ seqno <= w[i].hi
        /\ \A h \in 1 .. i - 1 : ~(w[h].lo <= seqno /\ seqno <= w[h].hi)
        /\ w[i].id \in aged

AnythingOutside(seqno, w) == TRUE     \* mistake: rule (b) is not checked

NothingOlderOutside(seqno, w) ==
    \A t \in Range(man) \ Range(w) : t.lo > seqno

(* What the output keeps: all but the delete markers that hide nothing.    *)
Kept(w, aged) ==
    LET m == Merged(w) IN
    [k \in {d \in DOMAIN m : ~ /\ m[d].val = NotFound
                               /\ IsAged(m[d].seq, w, aged)
                               /\ NothingOlderOutside(m[d].seq, w)} |-> m[k]]

(* Merge the window and write the output, if anything is left of it.  An   *)
(* inputs list that names one table twice passes the two-inputs check, so  *)
(* a window may be a single table.                                         *)
CompactWrite(i, j, aged) ==
    /\ WorkersUp /\ job.pc = "idle" /\ ~cancel /\ StateMutexFree
    /\ nextId <= MaxCompactId
    /\ Ids(Window(i, j)) \subseteq files
    /\ LET out == TablesOf(OutputId, Kept(Window(i, j), aged)) IN
          /\ files' = files \cup {t.id : t \in out}
          /\ job' = [pc |-> "compact", out |-> out, ins |-> Ids(Window(i, j))]
    /\ UNCHANGED <<walVars, dman, dnextId, tableVars, memVars, phase, todo, writer,
                   cancel, boundVars>>

Compact == \E j \in DOMAIN man : \E i \in 1 .. j :
           \E aged \in IF GraceElapses THEN SUBSET Ids(Window(i, j)) ELSE {{}} :
              CompactWrite(i, j, aged)

Unpublished == {t.id : t \in job.out}

(* The last cancel checkpoint: the output was never visible.               *)
CompactCancel ==
    /\ job.pc = "compact" /\ cancel
    /\ files' = files \ Unpublished
    /\ job' = NoJob
    /\ UNCHANGED <<walVars, dman, dnextId, tableVars, memVars, phase, todo, writer,
                   cancel, boundVars>>

(* Manifest::apply_compaction, in memory.                                  *)
EditForCompaction ==
    /\ man' \in SortedByMaxSeqno({t \in Range(man) : t.id \notin job.ins}
                                      \cup job.out)
    /\ nextId' \in Greatest({nextId} \cup {t.id + 1 : t \in job.out})

OutputFirst(order) ==                         \* mistake: newest by creation
    SetToSeq(job.out) \o SelectSeq(readers, LAMBDA t : t.id \notin job.ins)
Rebuilt(order) == order

(* The edit is saved and the readers rebuilt from it; the handles of the   *)
(* inputs that had one are what is left to delete.                         *)
CompactPublish ==
    /\ job.pc = "compact" /\ ~cancel /\ StateMutexFree
    /\ EditForCompaction
    /\ dman' = man' /\ dnextId' = nextId'
    /\ readers' = Rebuilt(man')
    /\ job' = [pc |-> "delete", out |-> {}, ins |-> job.ins \cap Ids(readers)]
    /\ UNCHANGED <<walVars, files, memVars, phase, todo, writer, cancel, boundVars>>

CompactSaveFails ==
    /\ job.pc = "compact" /\ ~cancel /\ StateMutexFree /\ failures < MaxFailures
    /\ EditForCompaction
    /\ job' = NoJob
    /\ failures' = failures + 1
    /\ UNCHANGED <<walVars, diskVars, readers, memVars, phase, todo, writer, cancel,
                   crashes, closes>>

(* A file some old Version still holds open is left for the next start.    *)
CompactDelete ==
    /\ job.pc = "delete"
    /\ \E deferred \in SUBSET job.ins : files' = files \ (job.ins \ deferred)
    /\ job' = NoJob
    /\ UNCHANGED <<walVars, dman, dnextId, tableVars, memVars, phase, todo, writer,
                   cancel, boundVars>>

-----------------------------------------------------------------------------
(* close(), with background workers running.  It sets shutting_down_ and   *)
(* stop_workers_ and notifies without taking state_mutex_.                 *)

CloseGracefully ==
    /\ phase = "running" /\ closes < MaxCloses
    /\ phase' = "draining"
    /\ writer' = WriterNotified
    /\ closes' = closes + 1
    /\ UNCHANGED <<walVars, diskVars, tableVars, memVars, todo, job, cancel,
                   crashes, failures>>

CloseFast ==
    /\ phase = "running" /\ closes < MaxCloses
    /\ phase' = "stopping"
    /\ cancel' = TRUE
    /\ writer' = WriterNotified
    /\ closes' = closes + 1
    /\ UNCHANGED <<walVars, diskVars, tableVars, memVars, todo, job,
                   crashes, failures>>

(* flush_one() took creation_mutex_ and found the queue empty.             *)
Drained ==
    /\ phase = "draining" /\ job.pc = "idle" /\ imms = <<>> /\ StateMutexFree
    /\ phase' = "stopping"
    /\ writer' = WriterNotified
    /\ UNCHANGED <<walVars, diskVars, tableVars, memVars, todo, job, cancel, boundVars>>

(* The workers have been joined.  A put may still be under way: close()    *)
(* does not take write_mutex_.                                             *)
CloseLog ==
    /\ phase = "stopping" /\ job.pc = "idle"
    /\ Log!Close
    /\ phase' = "closed"
    /\ UNCHANGED <<diskVars, tableVars, memVars, todo, writer, job, cancel, boundVars>>

Exit ==
    /\ phase = "closed"
    /\ ForgetMemory
    /\ UNCHANGED <<walVars, diskVars, boundVars>>

(* The process dies, possibly in the middle of the segment removal.        *)
Crash ==
    /\ phase # "down" /\ crashes < MaxCrashes
    /\ crashes' = crashes + 1
    /\ ForgetMemory
    /\ Log!Crash
    /\ UNCHANGED <<diskVars, closes, failures>>

(* The log has rolled, the memtable has not joined the queue.              *)
CrashInRotate ==
    /\ writer.pc = "applied" /\ crashes < MaxCrashes
    /\ IsFull(active) /\ Len(imms) < MaxImm
    /\ Log!CrashInRoll
    /\ crashes' = crashes + 1
    /\ ForgetMemory
    /\ UNCHANGED <<diskVars, closes, failures>>

CrashInCleanup ==
    /\ job.pc = "clean" /\ crashes < MaxCrashes
    /\ crashes' = crashes + 1
    /\ ForgetMemory
    /\ \E w \in Watermark(man) : \E last \in Log!Covered(w) :
          LET gone == {s \in Log!Covered(w) : s <= last} IN
          /\ segs' = segs \ gone
          /\ recs' = {r \in recs : r.seg \notin gone}
    /\ isOpen' = FALSE
    /\ UNCHANGED <<activeSeg, lastSeqno, diskVars, closes, failures>>

-----------------------------------------------------------------------------
Open == LoadManifest \/ ReplayOne \/ FinishOpen
Write == \/ BeginWrite \/ BlockWriter \/ WakeWriter \/ RefuseWrite
         \/ \E o \in Mutation : LogWrite(o)
         \/ ApplyWrite \/ ReturnFromWrite \/ Rotate
Flush == \/ FlushWrite \/ FlushWriteFails \/ FlushPublish
         \/ FlushSaveFails \/ FlushClean
Compaction == \/ Compact \/ CompactCancel \/ CompactPublish
              \/ CompactSaveFails \/ CompactDelete
Stop == \/ CloseGracefully \/ CloseFast \/ Drained \/ CloseLog \/ Exit
        \/ Crash \/ CrashInRotate \/ CrashInCleanup

Next == Open \/ Write \/ Flush \/ Compaction \/ Stop

Spec == Init /\ [][Next]_vars

(* The workers keep working until they are told to stop, a lock that is    *)
(* free is taken, and open and close get to run; nobody has to write,      *)
(* close or crash.                                                         *)
Fairness ==
    /\ WF_vars(Open)
    /\ WF_vars(BlockWriter) /\ WF_vars(WakeWriter) /\ WF_vars(RefuseWrite)
    /\ WF_vars(ApplyWrite) /\ WF_vars(ReturnFromWrite) /\ WF_vars(Rotate)
    /\ WF_vars(phase # "stopping" /\ FlushWrite)
    /\ WF_vars(FlushPublish) /\ WF_vars(FlushClean)
    /\ WF_vars(CompactCancel \/ CompactPublish) /\ WF_vars(CompactDelete)
    /\ WF_vars(Drained) /\ WF_vars(CloseLog)

FairSpec == Spec /\ Fairness

-----------------------------------------------------------------------------
(* What a read finds, now and after a restart.                             *)

(* Engine::get through the current Version.                                *)
LiveView == [k \in Keys |-> Lookup(<<active>> \o imms \o Data(readers), k)]

(* What recovery would rebuild from the disk: the replayed log shadows the *)
(* tables, which are searched by max_seqno.                                *)
LoggedAt(k) == {r \in recs : r.op.key = k}
SavedAt(k) == {t \in Range(dman) : k \in DOMAIN t.data}

DurableView ==
    [k \in Keys |->
        IF LoggedAt(k) # {}
        THEN (CHOOSE r \in LoggedAt(k) : \A q \in LoggedAt(k) : q.seq <= r.seq).op.val
        ELSE IF SavedAt(k) # {}
        THEN (CHOOSE t \in SavedAt(k) : \A q \in SavedAt(k) : q.hi <= t.hi).data[k].val
        ELSE NotFound]

Store == INSTANCE KvStore WITH store <- DurableView, version <- lastSeqno

-----------------------------------------------------------------------------
(* Properties.                                                             *)

IsMemtable(m) == DOMAIN m \subseteq Keys /\ m \in [DOMAIN m -> Entry]

IsTable(t) == /\ {t.id, t.lo, t.hi} \subseteq Nat /\ t.lo <= t.hi
              /\ IsMemtable(t.data) /\ DOMAIN t.data # {}

IsRecord(r) == {r.seg, r.seq} \subseteq Nat /\ r.op \in Mutation

AreTables(s) == s \in Seq(Range(s)) /\ \A t \in Range(s) : IsTable(t)
AreMemtables(s) == s \in Seq(Range(s)) /\ \A m \in Range(s) : IsMemtable(m)

(* Every variable holds a value of its kind.                               *)
TypeOK ==
    /\ \A r \in recs : IsRecord(r)
    /\ segs \subseteq Nat /\ activeSeg \in Nat /\ lastSeqno \in Nat
    /\ isOpen \in BOOLEAN
    /\ AreTables(dman) /\ AreTables(man) /\ AreTables(readers)
    /\ files \subseteq Nat /\ dnextId \in Nat /\ nextId \in Nat
    /\ phase \in Phases
    /\ IsMemtable(active) /\ AreMemtables(imms)
    /\ todo \subseteq recs
    /\ writer.pc \in {"idle", "stalled", "waiting", "woken", "admitted",
                     "logged", "applied"}
    /\ writer.pc \in {"logged", "applied"} => IsRecord(writer.rec)
    /\ job.pc \in {"idle", "flush", "clean", "compact", "delete"}
    /\ \A t \in job.out : IsTable(t)
    /\ job.ins \subseteq Nat
    /\ cancel \in BOOLEAN
    /\ {crashes, closes, failures} \subseteq Nat

(* "Memtables are strictly seqNo-ordered" (README): all that is in the     *)
(* active memtable is newer than all that is queued, the queue is newest   *)
(* first, and the records still to be replayed are newer than both -       *)
(* whatever the crash left in the log and wherever rotation was deferred.  *)
MemtablesOrdered ==
    /\ \A i, j \in DOMAIN imms : i < j =>
          \A m \in Seqnos(imms[i]), n \in Seqnos(imms[j]) : m > n
    /\ \A i \in DOMAIN imms :
          \A m \in Seqnos(active), n \in Seqnos(imms[i]) : m > n
    /\ \A r \in todo :
          /\ \A n \in Seqnos(active) : r.seq > n
          /\ \A i \in DOMAIN imms : \A n \in Seqnos(imms[i]) : r.seq > n

(* No table that the manifest names, on disk or in memory, and no table a  *)
(* reader is open on, is ever missing - open() would refuse the store with *)
(* CorruptionDetected - through deferred deletions, cancelled jobs, failed *)
(* saves, orphan removal and crashes.                                      *)
LiveTablesExist == Ids(dman) \cup Ids(man) \cup Ids(readers) \subseteq files

(* A get sees exactly what a restart would recover (once the write under   *)
(* way has reached the memtable): what was read cannot be lost by a crash, *)
(* and what is durable is visible.                                         *)
ReadsAreDurable ==
    phase \in Live /\ writer.pc # "logged" => LiveView = DurableView

(* Only the append of a record changes what recovery finds: no flush,      *)
(* compaction, segment removal, crash, replay or close does.               *)
OnlyWritesChangeTheStore ==
    [][DurableView' # DurableView =>
          writer.pc = "admitted" /\ writer'.pc = "logged"]_vars

(* The engine implements the key-value store, its durable state being the  *)
(* store and the seqNo counter the number of writes.                       *)
ImplementsKvStore == Store!Spec

Stalled == writer.pc \in {"stalled", "waiting", "woken"}

(* A writer stalled on a full queue gets its slot or its StoreClosed.      *)
(* close() "release[s] any stalled writer" (engine.cpp).                   *)
StalledWriterReleased == Stalled ~> ~Stalled

(* So it is as long as nobody closes fast: the flush that makes room, the  *)
(* drain of a graceful close or the end of a close that failed wakes the   *)
(* writer, although the flags are set outside state_mutex_.                *)
ReleasedUnlessClosedFast == (Stalled /\ ~cancel) ~> (~Stalled \/ cancel)

(* close() gets to the end of its drain, whatever job or write is under way. *)
CloseTerminates == phase \in {"draining", "stopping"} ~> phase \in {"closed", "down"}
=============================================================================
