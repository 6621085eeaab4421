-------------------------------- MODULE Wal --------------------------------
(***************************************************************************)
(* The write-ahead log of lsmkv (class Wal) at the level of its segment    *)
(* files: the header, the records, the torn bytes a failed write or a      *)
(* power cut leaves, what has been synced, and the bookkeeping the class   *)
(* keeps in memory.  Wal::mutex_ makes each operation atomic towards the   *)
(* others, so the only thing that can fall between two steps of one        *)
(* operation is a crash.                                                   *)
(*                                                                         *)
(* Simplifications:                                                        *)
(*  - sizes are counted in records (RollRecords for the roll size);        *)
(*  - what is in stdio's buffer may reach the OS, and what the OS has may  *)
(*    reach the disk, at any time: after a crash a prefix of it is there,  *)
(*    the next record possibly torn;                                       *)
(*  - a torn record fails the length, CRC or self-description check.       *)
(***************************************************************************)
EXTENDS Integers, Sequences, FiniteSets, SequencesExt

CONSTANTS Op,             \* the mutations a record can carry
          FsyncEveryN,    \* wal_fsync_every_n
          RollRecords,    \* records that fill a segment
          Faults          \* which I/O calls may fail: a subset of
                          \* {"write", "sync", "header", "open"}

(* Bounds of the state space.                                              *)
CONSTANTS MaxSeqno, MaxSegment, MaxCrashes, MaxPowerCuts, MaxFaults

ASSUME WalAssumption ==
    /\ FsyncEveryN \in Nat \ {0} /\ RollRecords \in Nat \ {0}
    /\ Faults \subseteq {"write", "sync", "header", "open"}
    /\ {MaxSeqno, MaxSegment, MaxCrashes, MaxPowerCuts, MaxFaults} \subseteq Nat

VARIABLES
    disk,        \* segment id -> [hdr : does it have its header, items]
    flushed,     \* how many items of the newest segment the OS surely has,
    synced,      \* and how many are surely on disk
    isOpen,      \* file_ # nullptr
    activeId, activeRecs,      \* active_id_; active_bytes_, in records
    segMax,      \* segment_max_seqno_
    lastSeqno,   \* last_seqno_
    sinceSync,   \* appends_since_sync_
    pc, op,      \* where the append under way is, and what it appends
    floor,       \* the highest watermark the engine's manifest has reached
    crashes, powerCuts, faults   \* spent of the bounds

memoryVars == <<activeId, activeRecs, segMax, lastSeqno, sinceSync>>
boundVars == <<crashes, powerCuts, faults>>
vars == <<disk, flushed, synced, isOpen, memoryVars, pc, op, floor, boundVars>>

(* acked tells whether append() returned: the code does not store it.      *)
Item(seq, o) == [good |-> TRUE, seq |-> seq, op |-> o, acked |-> FALSE]
Torn == [good |-> FALSE, seq |-> 0, op |-> 0, acked |-> FALSE]

NewSegment(hdr) == [hdr |-> hdr, items |-> <<>>]

(* f with v at x, whether it had a value there or not.                     *)
Put(f, x, v) == [y \in DOMAIN f \cup {x} |-> IF y = x THEN v ELSE f[y]]

Newest == Max(DOMAIN disk)
Items == disk[Newest].items

(* scan_segment: nothing without a header, else up to the first bad record. *)
Readable(segment) ==
    LET bad == {i \in DOMAIN segment.items : ~segment.items[i].good}
    IN IF ~segment.hdr THEN <<>>
       ELSE IF bad = {} THEN segment.items
       ELSE SubSeq(segment.items, 1, Min(bad) - 1)

(* What open() leaves of a segment file.                                   *)
CutTailSkipped(segment) == segment.items              \* mistake: no truncation
CutTail(segment) == Readable(segment)

SeqnosOf(items) == {items[i].seq : i \in DOMAIN items}
MaxSeqnoOf(items) == Max({0} \cup SeqnosOf(items))

(* last_seqno_ after open and bump_seqno.                                  *)
SeedFromNewest(kept) == Max({floor, MaxSeqnoOf(kept[Newest])})  \* mistake
SeedSeqno(kept) == Max({floor} \cup {MaxSeqnoOf(kept[s]) : s \in DOMAIN disk})

SyncDueLate == sinceSync + 1 > FsyncEveryN                      \* mistake
SyncDue == sinceSync + 1 >= FsyncEveryN

Init == /\ disk = <<>> /\ flushed = 0 /\ synced = 0
        /\ isOpen = FALSE
        /\ activeId = 0 /\ activeRecs = 0 /\ segMax = <<>>
        /\ lastSeqno = 0 /\ sinceSync = 0
        /\ pc = "idle" /\ op \in Op
        /\ floor = 0
        /\ crashes = 0 /\ powerCuts = 0 /\ faults = 0

-----------------------------------------------------------------------------
(* The segment open() appends to.                                          *)
OldestSegment == IF DOMAIN disk = {} THEN 1 ELSE Min(DOMAIN disk)   \* mistake
ActiveAtOpen == IF DOMAIN disk = {} THEN 1 ELSE Newest

(* open() and the bump_seqno(manifest max) that follows it: every segment  *)
(* is cut after its last good record; the newest becomes the active one    *)
(* and gets a header if it has none.                                       *)
Open ==
    /\ ~isOpen
    /\ LET kept == [s \in DOMAIN disk |-> CutTail(disk[s])]
           first == DOMAIN disk = {}
           last == ActiveAtOpen
       IN /\ disk' = [s \in DOMAIN disk \cup {last} |->
                        IF first THEN NewSegment(TRUE)
                        ELSE [hdr |-> disk[s].hdr \/ s = last, items |-> kept[s]]]
          /\ segMax' = [s \in DOMAIN disk |-> MaxSeqnoOf(kept[s])]
          /\ lastSeqno' = IF first THEN floor ELSE SeedSeqno(kept)
          /\ activeId' = last
          /\ activeRecs' = Len(disk'[last].items)
          /\ flushed' = Len(disk'[last].items)
          /\ synced' = Min({synced, flushed'})
    /\ sinceSync' = 0
    /\ isOpen' = TRUE
    /\ UNCHANGED <<pc, op, floor, boundVars>>

(* roll_segment: sync and close the old file, then start the next.         *)
RollSegment ==
    /\ activeId < MaxSegment
    /\ disk' = Put(disk, activeId + 1, NewSegment(TRUE))
    /\ activeId' = activeId + 1
    /\ activeRecs' = 0 /\ flushed' = 0 /\ synced' = 0 /\ sinceSync' = 0
    /\ UNCHANGED <<isOpen, segMax, lastSeqno, op, floor, boundVars>>

Roll == isOpen /\ pc = "idle" /\ RollSegment /\ UNCHANGED pc

(* append(): roll if the record does not fit, write, sync if it is the     *)
(* N-th since the last sync, and only then count the record and return.    *)
BeginAppend(o) ==
    /\ isOpen /\ pc = "idle" /\ lastSeqno < MaxSeqno
    /\ pc' = IF activeRecs >= RollRecords THEN "roll" ELSE "write"
    /\ op' = o
    /\ UNCHANGED <<disk, flushed, synced, isOpen, memoryVars, floor, boundVars>>

RollForSize == pc = "roll" /\ RollSegment /\ pc' = "write"

WriteRecord ==
    /\ pc = "write"
    /\ disk' = [disk EXCEPT ![activeId].items = Append(@, Item(lastSeqno + 1, op))]
    /\ activeRecs' = activeRecs + 1
    /\ sinceSync' = sinceSync + 1
    /\ pc' = IF SyncDue THEN "sync" ELSE "return"
    /\ UNCHANGED <<flushed, synced, isOpen, activeId, segMax, lastSeqno, op, floor,
                   boundVars>>

SyncRecord ==
    /\ pc = "sync"
    /\ flushed' = Len(Items) /\ synced' = Len(Items)
    /\ sinceSync' = 0
    /\ pc' = "return"
    /\ UNCHANGED <<disk, isOpen, activeId, activeRecs, segMax, lastSeqno, op,
                   floor, boundVars>>

(* segment_max_seqno_[active_id_] = seqno                                  *)
FirstCounted(seqno) ==                                          \* mistake
    IF activeId \in DOMAIN segMax THEN segMax ELSE Put(segMax, activeId, seqno)
Counted(seqno) == Put(segMax, activeId, seqno)

Acknowledge ==
    /\ pc = "return"
    /\ disk' = [disk EXCEPT ![activeId].items[Len(Items)].acked = TRUE]
    /\ lastSeqno' = lastSeqno + 1
    /\ segMax' = Counted(lastSeqno + 1)
    /\ pc' = "idle"
    /\ UNCHANGED <<flushed, synced, isOpen, activeId, activeRecs, sinceSync, op, floor,
                   boundVars>>

(* sync()                                                                  *)
Sync == /\ isOpen /\ pc = "idle"
        /\ flushed' = Len(Items) /\ synced' = Len(Items) /\ sinceSync' = 0
        /\ UNCHANGED <<disk, isOpen, activeId, activeRecs, segMax, lastSeqno,
                       pc, op, floor, boundVars>>

Close == /\ isOpen /\ pc = "idle"
         /\ flushed' = Len(Items) /\ synced' = Len(Items) /\ sinceSync' = 0
         /\ isOpen' = FALSE
         /\ UNCHANGED <<disk, activeId, activeRecs, segMax, lastSeqno,
                        pc, op, floor, boundVars>>

(* remove_segments_covered: a closed segment whose highest seqNo is known  *)
(* and not above the watermark goes.                                       *)
RemoveSegmentsCovered(watermark) ==
    /\ isOpen /\ pc = "idle"
    /\ LET gone == {s \in DOMAIN disk \ {activeId} :
                       s \in DOMAIN segMax /\ segMax[s] <= watermark}
       IN /\ disk' = Restrict(disk, DOMAIN disk \ gone)
          /\ segMax' = Restrict(segMax, DOMAIN segMax \ gone)
    /\ floor' = Max({floor, watermark})
    /\ UNCHANGED <<flushed, synced, isOpen, activeId, activeRecs, lastSeqno, sinceSync,
                   pc, op, boundVars>>

-----------------------------------------------------------------------------
(* I/O errors: the call throws IOFailure and what was done so far stays.   *)

Throw == /\ faults < MaxFaults
         /\ pc' = "idle"
         /\ faults' = faults + 1
         /\ UNCHANGED <<segMax, lastSeqno, op, floor, crashes, powerCuts>>

(* A short fwrite: part of the record may be in the file.                  *)
WriteFails ==
    /\ pc = "write" /\ "write" \in Faults
    /\ disk' \in {disk, [disk EXCEPT ![activeId].items = Append(@, Torn)]}
    /\ Throw
    /\ UNCHANGED <<isOpen, flushed, synced, activeId, activeRecs, sinceSync>>

(* The record is in the file, but not counted; or the segment to be rolled *)
(* stays the active one, and there is no record.                           *)
SyncFails ==
    /\ pc \in {"sync", "roll"} /\ "sync" \in Faults
    /\ Throw
    /\ UNCHANGED <<isOpen, disk, flushed, synced, activeId, activeRecs, sinceSync>>

(* The new file is the active one but its header was not written, or not   *)
(* synced.                                                                 *)
HeaderFails ==
    /\ isOpen /\ pc \in {"idle", "roll"} /\ "header" \in Faults
    /\ activeId < MaxSegment
    /\ \E hdr \in BOOLEAN : disk' = Put(disk, activeId + 1, NewSegment(hdr))
    /\ activeId' = activeId + 1
    /\ flushed' = 0 /\ synced' = 0
    /\ Throw
    /\ UNCHANGED <<isOpen, activeRecs, sinceSync>>

(* The old segment is synced and closed, and there is no new file: the     *)
(* log refuses everything from now on.                                     *)
NoNextFile ==
    /\ isOpen /\ pc \in {"idle", "roll"} /\ "open" \in Faults
    /\ flushed' = Len(Items) /\ synced' = Len(Items)
    /\ isOpen' = FALSE
    /\ Throw
    /\ UNCHANGED <<disk, activeId, activeRecs, sinceSync>>

-----------------------------------------------------------------------------
(* Crashes.  Of what was not synced a prefix survives, the next piece of   *)
(* it possibly torn.                                                       *)

Survivors(n) ==
    {SubSeq(Items, 1, n)} \cup
        IF n < Len(Items) THEN {Append(SubSeq(Items, 1, n), Torn)} ELSE {}

Die == /\ isOpen' = FALSE /\ pc' = "idle"
       /\ UNCHANGED <<memoryVars, op, floor, faults>>

(* The process dies: survivors are in the page cache, still not synced.    *)
ProcessCrash ==
    /\ isOpen /\ crashes < MaxCrashes
    /\ \E n \in flushed .. Len(Items) : \E items \in Survivors(n) :
          disk' = [disk EXCEPT ![Newest].items = items]
    /\ Die
    /\ crashes' = crashes + 1
    /\ UNCHANGED <<flushed, synced, powerCuts>>

(* The machine dies, the process with it if it was up: what survives is on *)
(* the disk.                                                               *)
PowerCut ==
    /\ disk # <<>> /\ powerCuts < MaxPowerCuts
    /\ \E n \in Min({synced, Len(Items)}) .. Len(Items) : \E items \in Survivors(n) :
          /\ disk' = [disk EXCEPT ![Newest].items = items]
          /\ flushed' = Len(items) /\ synced' = Len(items)
    /\ Die
    /\ powerCuts' = powerCuts + 1
    /\ UNCHANGED crashes

(* ... after roll_segment created the file and before its header was there. *)
CrashInRoll ==
    /\ isOpen /\ pc \in {"idle", "roll"} /\ crashes < MaxCrashes
    /\ activeId < MaxSegment
    /\ disk' = Put(disk, activeId + 1, NewSegment(FALSE))
    /\ flushed' = 0 /\ synced' = 0
    /\ Die
    /\ crashes' = crashes + 1
    /\ UNCHANGED powerCuts

-----------------------------------------------------------------------------
Next ==
    \/ Open \/ Roll \/ Sync \/ Close
    \/ \E o \in Op : BeginAppend(o)
    \/ RollForSize \/ WriteRecord \/ SyncRecord \/ Acknowledge
    \/ \E w \in 0 .. lastSeqno : RemoveSegmentsCovered(w)
    \/ WriteFails \/ SyncFails \/ HeaderFails \/ NoNextFile
    \/ ProcessCrash \/ PowerCut \/ CrashInRoll

Spec == Init /\ [][Next]_vars

-----------------------------------------------------------------------------
(* Properties.                                                             *)

IsItem(i) == i.good => i.seq \in Nat \ {0} /\ i.op \in Op /\ i.acked \in BOOLEAN

(* Every variable holds a value of its kind, and the open file exists.     *)
TypeOK ==
    /\ \A s \in DOMAIN disk :
          /\ s \in Nat \ {0} /\ disk[s].hdr \in BOOLEAN
          /\ \A i \in DOMAIN disk[s].items : IsItem(disk[s].items[i])
    /\ isOpen => activeId = Newest
    /\ {flushed, synced, activeId, activeRecs, lastSeqno, sinceSync, floor} \subseteq Nat
    /\ \A s \in DOMAIN segMax : segMax[s] \in Nat
    /\ isOpen \in BOOLEAN /\ op \in Op
    /\ pc \in {"idle", "roll", "write", "sync", "return"}

(* What a restart would replay, oldest first: (segment, position) pairs.   *)
Replayed == UNION {{s} \X DOMAIN Readable(disk[s]) : s \in DOMAIN disk}
ItemAt(p) == disk[p[1]].items[p[2]]
Before(p, q) == p[1] < q[1] \/ (p[1] = q[1] /\ p[2] < q[2])

(* Replay order is write order: seqNos increase strictly through a segment *)
(* and from one to the next, so the newest write of a key is replayed last *)
(* and no seqNo is given to two records.                                   *)
ReplayInWriteOrder ==
    \A p, q \in Replayed : Before(p, q) => ItemAt(p).seq < ItemAt(q).seq

(* Whatever call fails, and wherever a crash falls, a restart never        *)
(* replays an older write over a newer one.                                *)
ReplayNeverGoesBack ==
    \A p, q \in Replayed : Before(p, q) => ItemAt(p).seq <= ItemAt(q).seq

(* While the log is open nothing but cleanup removes an acknowledged       *)
(* record, and cleanup only at or below the watermark it was given, even   *)
(* after calls that failed half way.                                       *)
AcknowledgedSeqnos(d) ==
    UNION {{i.seq : i \in {j \in Range(d[s].items) : j.acked}} : s \in DOMAIN d}
CleanupKeepsUncovered ==
    [][isOpen /\ isOpen' =>
          \A n \in AcknowledgedSeqnos(disk) \ AcknowledgedSeqnos(disk') : n <= floor']_vars

(* Every record whose append returned, and that no watermark has covered,  *)
(* is read back by a restart.  (api.md: "a write is only acknowledged      *)
(* after it is durable".)                                                  *)
AcknowledgedIsReplayed ==
    \A s \in DOMAIN disk : \A i \in DOMAIN disk[s].items :
        disk[s].items[i].acked => <<s, i>> \in Replayed

(* "a hard crash may lose up to the last N-1 acknowledged-but-unsynced     *)
(* records" (README).                                                      *)
AcknowledgedAtRisk ==
    IF disk = <<>> THEN {}
    ELSE {i \in DOMAIN Items : i > synced /\ Items[i].acked}
LossIsBounded == Cardinality(AcknowledgedAtRisk) <= FsyncEveryN - 1

(* The record under way is not in the log before append() returns.         *)
UnderWay(s, i) == /\ pc = "return" \/ pc = "sync"
                  /\ s = activeId /\ i = Len(disk[s].items)

LoggedRecords ==
    {[seg |-> p[1], seq |-> ItemAt(p).seq, op |-> ItemAt(p).op] :
        p \in {q \in Replayed : ~UnderWay(q[1], q[2])}}

(* With N = 1 and no I/O errors the log keeps every record whose append    *)
(* returned, in order, until a watermark covers its segment.               *)
DL == INSTANCE DurableLog WITH recs <- LoggedRecords, segs <- DOMAIN disk,
                               activeSeg <- activeId
ImplementsDurableLog == DL!Spec
=============================================================================
