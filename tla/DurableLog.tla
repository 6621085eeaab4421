----------------------------- MODULE DurableLog -----------------------------
(***************************************************************************)
(* What the write-ahead log of lsmkv promises to the engine when every     *)
(* record is synced before it is acknowledged (wal_fsync_every_n = 1): a   *)
(* mutation whose append returned stays in the log, through crashes and    *)
(* restarts, until its whole segment is removed below a watermark.         *)
(*                                                                         *)
(* One action per public operation of class Wal.  The bytes, the stdio     *)
(* buffer, the sync policy and the I/O errors are the business of module   *)
(* Wal, which implements this one; module Engine is built on this one.     *)
(***************************************************************************)
EXTENDS Naturals, FiniteSets

CONSTANTS Op,            \* the mutations a record can carry
          RollRecords    \* records after which append() starts a segment
                         \* (wal_segment_roll_bytes, counted in records)

VARIABLES recs,          \* the valid records on disk: [seg, seq, op]
          segs,          \* ids of the .wal files on disk
          activeSeg,     \* Wal::active_id_
          lastSeqno,     \* Wal::last_seqno_; keeps its value while the
                         \* process is down, when nobody can read it
          isOpen         \* Wal::file_ # nullptr

logVars == <<recs, segs, activeSeg, lastSeqno, isOpen>>

Record == [seg : Nat, seq : Nat, op : Op]

Init == /\ recs = {}
        /\ segs = {}
        /\ activeSeg = 0
        /\ lastSeqno = 0
        /\ isOpen = FALSE

(* The segment the next append writes to: the active one, or a new one     *)
(* when the record would take it past the roll size.                       *)
AppendSeg ==
    IF Cardinality({r \in recs : r.seg = activeSeg}) >= RollRecords
    THEN activeSeg + 1 ELSE activeSeg

NextRecord(o) == [seg |-> AppendSeg, seq |-> lastSeqno + 1, op |-> o]

(* Wal::append                                                             *)
Append(o) ==
    /\ isOpen
    /\ recs' = recs \cup {NextRecord(o)}
    /\ activeSeg' = AppendSeg
    /\ segs' = segs \cup {AppendSeg}
    /\ lastSeqno' = lastSeqno + 1
    /\ UNCHANGED isOpen

(* Wal::roll                                                               *)
Roll ==
    /\ isOpen
    /\ activeSeg' = activeSeg + 1
    /\ segs' = segs \cup {activeSeg + 1}
    /\ UNCHANGED <<recs, lastSeqno, isOpen>>

CoveredInPart(watermark) ==      \* mistake: one covered record is enough
    {s \in segs \ {activeSeg} : \E r \in recs : r.seg = s /\ r.seq <= watermark}

(* The closed segments that hold nothing above the watermark.              *)
Covered(watermark) ==
    {s \in segs \ {activeSeg} :
        \A r \in recs : r.seg = s => r.seq <= watermark}

(* Wal::remove_segments_covered: oldest file first, so what is gone when   *)
(* the process dies half way is everything up to some segment.             *)
RemoveSegments(gone) ==
    /\ segs' = segs \ gone
    /\ recs' = {r \in recs : r.seg \notin gone}
    /\ UNCHANGED <<activeSeg, lastSeqno, isOpen>>

(* Wal::close                                                              *)
Close == /\ isOpen
         /\ isOpen' = FALSE
         /\ UNCHANGED <<recs, segs, activeSeg, lastSeqno>>

(* The process dies: the file handle is gone, the records are not.  An     *)
(* append that had not returned may have made it to the disk all the same, *)
(* and so may the file a roll was about to start.                          *)
Crash == /\ isOpen' = FALSE
         /\ UNCHANGED <<recs, segs, activeSeg, lastSeqno>>

CrashInAppend(o) == /\ isOpen /\ isOpen' = FALSE
                    /\ recs' = recs \cup {NextRecord(o)}
                    /\ segs' = segs \cup {AppendSeg}
                    /\ UNCHANGED <<activeSeg, lastSeqno>>

CrashInRoll == /\ isOpen /\ isOpen' = FALSE
               /\ segs' = segs \cup {activeSeg + 1}
               /\ UNCHANGED <<recs, activeSeg, lastSeqno>>

(* Wal::open followed by bump_seqno(floor): the counter is the highest     *)
(* seqNo found, at least floor; the newest segment becomes the active one. *)
Open(floor) ==
    /\ ~isOpen
    /\ \E n \in {floor} \cup {r.seq : r \in recs} :
          /\ \A m \in {floor} \cup {r.seq : r \in recs} : m <= n
          /\ lastSeqno' = n
    /\ \E s \in segs \cup {1} :
          /\ IF segs = {} THEN s = 1 ELSE s \in segs /\ \A q \in segs : q <= s
          /\ activeSeg' = s
          /\ segs' = segs \cup {s}
    /\ isOpen' = TRUE
    /\ UNCHANGED recs

Next == \/ \E o \in Op : Append(o)
        \/ Roll
        \/ Close
        \/ Crash
        \/ \E o \in Op : CrashInAppend(o)
        \/ CrashInRoll
        \/ \E w \in 0 .. lastSeqno : \E gone \in SUBSET Covered(w) :
              RemoveSegments(gone)
        \/ \E floor \in 0 .. lastSeqno' : Open(floor)

Spec == Init /\ [][Next]_logVars
=============================================================================
