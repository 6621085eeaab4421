--------------------------- MODULE StoreInvariant ---------------------------
(***************************************************************************)
(* Why flushing, compaction, log cleanup, crashes and recovery leave the   *)
(* store of module Engine alone: the inductive invariant behind            *)
(* ReadsAreDurable, OnlyWritesChangeTheStore and ImplementsKvStore, and    *)
(* the condition on compactions it holds under.  TLC checks it here on     *)
(* small instances, EngineProofs proves it.                                *)
(***************************************************************************)
EXTENDS Engine

-----------------------------------------------------------------------------
(* The engine as the sets of entries that its parts hold.  An entry is a   *)
(* key with its value (or the delete marker) and its seqNo.                *)

Entries(m) == {[key |-> k, val |-> m[k].val, seq |-> m[k].seq] : k \in DOMAIN m}
EntryOf(r) == [key |-> r.op.key, val |-> r.op.val, seq |-> r.seq]
In(tables) == UNION {Entries(t.data) : t \in tables}

Logged == {EntryOf(r) : r \in recs}

Memory == {active} \cup Range(imms)
InMemory == UNION {Entries(m) : m \in Memory}

Saved == Range(dman)
Tables == Range(man)
Readable == Range(readers)

Known == Logged \cup InMemory \cup In(Saved \cup Tables \cup Readable)
Recent == Logged \cup InMemory

(* Logged, but not in the memtable yet: still to be replayed, or about to  *)
(* be applied by the writer.                                               *)
UnderWay == IF writer.pc = "logged" THEN {EntryOf(writer.rec)} ELSE {}
Pending == {EntryOf(r) : r \in todo} \cup UnderWay

(* E holds e or something newer of its key.                                *)
Later(E, e) == \E f \in E : f.key = e.key /\ f.seq >= e.seq

HasKey(E, k) == \E f \in E : f.key = k

Newest(e) == e \in Known /\ \A f \in Known : f.key = e.key => f.seq <= e.seq

(* Memtable m has got as far as seqNo n.                                   *)
Reaches(m, n) == \E f \in Entries(m) : f.seq >= n

-----------------------------------------------------------------------------
(* The condition.  As long as nothing has failed and the store has not     *)
(* been closed or reopened, there is none.  After that, while a compaction *)
(* is under way, the manifest is ordered by seqNo (README.md:208-211 says  *)
(* it always is; it is not when a restart has flushed a record again), and *)
(* either no delete marker is dropped or all of the log and of memory is   *)
(* newer than all tables (the rule in run_compaction looks at the tables   *)
(* only).                                                                  *)

FirstSession == crashes = 0 /\ closes = 0 /\ failures = 0

InOrder == \A p, q \in DOMAIN man : p < q => man[p].hi > man[q].hi

Inputs == {t \in Tables : t.id \in job.ins}
NothingDropped == \A e \in In(Inputs) : HasKey(In(job.out), e.key)
LogIsNewer == \A e \in Recent, t \in Tables : e.seq > t.hi

SafeToCompact == job.pc = "compact" => InOrder /\ (NothingDropped \/ LogIsNewer)

CompactsSafely == FirstSession \/ SafeToCompact

(* Spec /\ []CompactsSafely, in the form that TLC explores.                *)
SafeSpec == Init /\ [][Next /\ CompactsSafely']_vars

(* The seqNo counter needs one thing more: the delete marker that was the  *)
(* very last write is not dropped (recovery would give its seqNo again).   *)
KeepsLastWrite ==
    job.pc = "compact" =>
        \A e \in In(Inputs) : e.seq = lastSeqno => HasKey(In(job.out), e.key)

-----------------------------------------------------------------------------
(* The log.  A seqNo stands for one entry, the counter is ahead of all of  *)
(* them, and the log is the newest part of what is known.                  *)

OneEntryPerSeqno == \A e, f \in Known : e.seq = f.seq => e = f
AllCounted == \A e \in Known : e.seq <= lastSeqno
LogIsNewestPart == \A f \in Logged, e \in Known : e.seq >= f.seq => e \in Logged
WriterIsLogged ==
    writer.pc = "logged" => writer.rec \in recs /\ writer.rec.seg = activeSeg
LogIsOpen == phase \in Live => isOpen

LogInv == /\ OneEntryPerSeqno /\ AllCounted /\ LogIsNewestPart
          /\ WriterIsLogged /\ LogIsOpen

-----------------------------------------------------------------------------
(* The tables.                                                             *)

IsRight(t) == /\ \E e \in Entries(t.data) : e.seq = t.hi
              /\ \A e \in Entries(t.data) : t.lo <= e.seq /\ e.seq <= t.hi
UniqueIds(tables) == \A t, u \in tables : t.id = u.id => t = u

(* A table with the higher max_seqno has the newer entry of a key that     *)
(* both hold.                                                              *)
NewerHides(tables) ==
    \A t, u \in tables : t.hi >= u.hi =>
        \A e \in Entries(t.data), f \in Entries(u.data) : e.key = f.key => e.seq >= f.seq

(* What is in the log or in memory at or below a table's max_seqno is in   *)
(* the tables up to that one: so the watermark may delete it.              *)
FlushedBelow(tables) ==
    \A u \in tables, e \in Recent : e.seq <= u.hi =>
        \E y \in tables : y.hi <= u.hi /\ Later(Entries(y.data), e)

CoverInv ==
    /\ \A t \in Saved \cup Tables \cup Readable \cup job.out : IsRight(t)
    /\ UniqueIds(Saved) /\ UniqueIds(Tables)
    /\ NewerHides(Saved) /\ NewerHides(Tables)
    /\ FlushedBelow(Saved) /\ FlushedBelow(Tables)

-----------------------------------------------------------------------------
(* Nothing is lost: the newest entry of a key that the log does not hold   *)
(* is in a table, or it was a delete marker and no table has the key.      *)

Keeps(tables) ==
    \A e \in Known : Newest(e) /\ ~HasKey(Logged, e.key) =>
        \/ e \in In(tables)
        \/ e.val = NotFound /\ ~HasKey(In(tables), e.key)

MemoryIsSafe == \A e \in InMemory : e \in Logged \/ Later(In(Tables), e)

KeepInv == Keeps(Saved) /\ (phase # "down" => Keeps(Tables) /\ MemoryIsSafe)

-----------------------------------------------------------------------------
(* Where the log's entries are.  Each one that is not pending is in the    *)
(* memtable it was applied to, which may hold a newer entry of its key by  *)
(* now, or in a table that no memtable is behind.                          *)

InPlace(e) ==
    \E f \in InMemory :
        /\ f.key = e.key /\ f.seq >= e.seq
        /\ \A m \in Memory : Reaches(m, e.seq) => Reaches(m, f.seq)

BehindMemory(t) == \A m \in Memory : Entries(m) # {} => Reaches(m, t.hi)

Placed(e) ==
    InPlace(e) \/ \E y \in Tables : Later(Entries(y.data), e) /\ BehindMemory(y)

PlaceInv ==
    phase # "down" =>
        /\ \A e \in Logged \ Pending : Placed(e)
        /\ \/ \A e \in Logged \ Pending : InPlace(e)
           \/ \E t \in Tables : t = man[1] /\ BehindMemory(t)

(* Recovery: what has been replayed is all of memory.                      *)
ReplayInv ==
    phase = "replay" =>
        /\ Tables = Saved /\ Readable = Saved
        /\ \A i, j \in DOMAIN readers : i < j => readers[i].hi >= readers[j].hi
        /\ InMemory \subseteq Logged
        /\ \A e \in Logged \ Pending : InPlace(e)

-----------------------------------------------------------------------------
(* What a get finds first is the newest.                                   *)

Up == phase \notin {"down", "replay"}

MemoryFirst == \A e \in Known \ Pending : HasKey(InMemory, e.key) => Later(InMemory, e)

ReadersFirst ==
    \A e \in Known \ Pending : ~HasKey(InMemory, e.key) =>
        \E i \in DOMAIN readers :
            /\ Later(Entries(readers[i].data), e)
            /\ \A h \in 1 .. i - 1 : ~HasKey(Entries(readers[h].data), e.key)

(* No table and no log record has anything for a memtable's key between    *)
(* its entry and the memtable's newest one.                                *)
MemtablesCurrent ==
    \A m \in Memory : \A f \in Entries(m), e \in Known :
        e.key = f.key /\ Reaches(m, e.seq) => e.seq <= f.seq

ReadInv == (Up => MemoryFirst /\ ReadersFirst) /\ MemtablesCurrent

-----------------------------------------------------------------------------
(* The jobs.                                                               *)

FlushesOldest ==
    job.pc = "flush" => imms # <<>> /\ \A t \in job.out : t.data = Last(imms)
CleansAfterSave == job.pc = "clean" => Saved = Tables /\ Tables # {}
CompactsWindow ==
    job.pc = "compact" =>
        \E j \in DOMAIN man : \E i \in 1 .. j : \E aged \in SUBSET Ids(Window(i, j)) :
            /\ job.ins = Ids(Window(i, j))
            /\ job.out = TablesOf(nextId, Kept(Window(i, j), aged))

JobInv == FlushesOldest /\ CleansAfterSave /\ CompactsWindow

StoreInv == /\ LogInv /\ CoverInv /\ KeepInv /\ PlaceInv
            /\ ReplayInv /\ ReadInv /\ JobInv

-----------------------------------------------------------------------------
(* The seqNo counter survives: the last seqNo given out is in the log or   *)
(* is a table's max_seqno, and it is what recovery starts from.            *)
Counts(tables) ==
    \/ lastSeqno = 0
    \/ \E r \in recs : r.seq = lastSeqno
    \/ \E t \in tables : t.hi = lastSeqno

CounterInv == Counts(Saved) /\ (phase # "down" => Counts(Tables))

-----------------------------------------------------------------------------
(* The first session.  Rotation rolls the log, so the records of a flushed *)
(* memtable fill whole segments and all of them are removed: the manifest  *)
(* stays in order, and what is left of the log is newer than all tables.   *)

(* No segment has records on both sides of n, the active one none up to n. *)
RolledAfter(n) ==
    \A r \in recs : r.seq <= n =>
        r.seg < activeSeg /\ \A q \in recs : q.seq > n => q.seg # r.seg

StartsEmpty ==
    /\ phase \in {"down", "replay", "running"}
    /\ phase # "running" =>
          recs = {} /\ lastSeqno = 0 /\ Saved = {} /\ Tables = {}

MemoryIsNewer == \A e \in InMemory \cup UnderWay, t \in Tables : e.seq > t.hi

SegmentsMatch ==
    /\ job.pc # "clean" => \A e \in Logged, t \in Tables : e.seq > t.hi
    /\ job.pc = "clean" => \A n \in Watermark(man) : RolledAfter(n)
    /\ \A m \in Range(imms) : \A n \in Greatest(Seqnos(m)) : RolledAfter(n)

SessionInv == StartsEmpty /\ InOrder /\ MemoryIsNewer /\ SegmentsMatch

(* Whatever is flushed, compacted, cleaned up, lost in a crash or          *)
(* replayed, the newest entry of every key stays where a get and a restart *)
(* look for it first; and what a session leaves behind is in order.        *)
SafeInv == StoreInv /\ (FirstSession => SessionInv)
=============================================================================
