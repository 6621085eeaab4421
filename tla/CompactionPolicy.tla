--------------------------- MODULE CompactionPolicy ---------------------------
(***************************************************************************)
(* What keeps the number of SSTables in bounds: the picker                 *)
(* (pick_compaction), the compaction worker that yields to queued flushes, *)
(* and the writer, stalled while there are more than l0_stop_writes tables *)
(* or the flush queue is full.  The engine runs with its workers started.  *)
(*                                                                         *)
(* Simplifications:                                                        *)
(*  - a table is its file_size; a merge may shrink it by any amount, and   *)
(*    drop it when nothing is left;                                        *)
(*  - a flush or a compaction is one step: creation_mutex_ keeps others    *)
(*    out from its pick to its publish, and nothing else shrinks the set;  *)
(*  - whether an entry fills the active memtable is a choice.              *)
(***************************************************************************)
EXTENDS Integers, Sequences, FiniteSets, FiniteSetsExt

CONSTANTS FanIn,          \* size_tiered_fan_in
          Ratio,          \* size_tiered_size_ratio
          Trigger,        \* l0_compaction_trigger
          Stop,           \* l0_stop_writes
          MaxImm          \* max_immutable_tables

(* Bounds of the state space.                                              *)
CONSTANTS MaxSize, MaxFailures

ASSUME PolicyAssumption ==
    /\ {FanIn, Ratio, Trigger, Stop, MaxFailures} \subseteq Nat
    /\ MaxImm \in Nat \ {0} /\ MaxSize \in Nat \ {0}

WindowSize == Max({2, FanIn})

(* The code checks none of this, and a store that breaks it can stall for  *)
(* ever: at the first count that stalls writes a compaction must be        *)
(* triggered and there must be a window to compact.                        *)
ASSUME StallCanClear == Trigger <= Stop + 1 /\ WindowSize <= Stop + 1

VARIABLES tables,         \* file_size of the live tables, newest first
          queue,          \* number of immutable memtables
          full,           \* active_ is at memtable_max_bytes
          writer,         \* holder of write_mutex_
          worker,         \* compaction_worker_loop
          paused,         \* the file compaction.paused exists
          failures        \* jobs that have thrown

vars == <<tables, queue, full, writer, worker, paused, failures>>

Init ==
    /\ tables = <<>> /\ queue = 0 /\ full = FALSE
    /\ writer = "idle" /\ worker = "asleep"
    /\ paused = FALSE /\ failures = 0

-----------------------------------------------------------------------------
(* pick_compaction: windows of WindowSize adjacent tables, left to right.  *)

Window(s, i) == {s[j] : j \in i .. i + WindowSize - 1}
TotalBytes(s, i) ==
    LET sum[j \in 0 .. WindowSize] == IF j = 0 THEN 0 ELSE s[i + j - 1] + sum[j - 1]
    IN sum[WindowSize]
SizeSimilar(s, i) == Max(Window(s, i)) <= Ratio * Min(Window(s, i))
Windows(s) == 1 .. Len(s) - WindowSize + 1

(* Window i against the best so far, 0 if there is none.                   *)
KeepsFirst(s, i, best) == IF best = 0 THEN i ELSE best           \* mistake
Better(s, i, best) ==
    IF best = 0 \/ TotalBytes(s, i) < TotalBytes(s, best) THEN i ELSE best

(* The best size-similar window and the best of all, after i windows.      *)
Scan(s) ==
    LET scan[i \in 0 .. Len(s)] ==
            IF i = 0 THEN [best |-> 0, fallback |-> 0]
            ELSE LET found == scan[i - 1] IN
                 [best |-> IF SizeSimilar(s, i) THEN Better(s, i, found.best)
                                                ELSE found.best,
                  fallback |-> Better(s, i, found.fallback)]
    IN scan[Cardinality(Windows(s))]

(* Where the chosen window begins, 0 for nullopt.                          *)
Pick(s) == LET found == Scan(s) IN IF found.best # 0 THEN found.best ELSE found.fallback

-----------------------------------------------------------------------------
(* The writer and the flush worker.                                        *)

HasRoom(q) == q < MaxImm
StopsLate == Len(tables) > Stop + 1                              \* mistake
WriteStall == Len(tables) > Stop

(* ensure_write_capacity: a write is refused, admitted, or blocks until    *)
(* the queue has room; what it checked of the tables it does not recheck.  *)
StartPut ==
    /\ writer = "idle" /\ ~WriteStall
    /\ writer' = IF full /\ ~HasRoom(queue) THEN "waiting" ELSE "admitted"
    /\ UNCHANGED <<tables, queue, full, worker, paused, failures>>

Unblock ==
    /\ writer = "waiting" /\ HasRoom(queue)
    /\ writer' = "admitted"
    /\ UNCHANGED <<tables, queue, full, worker, paused, failures>>

(* apply, and maybe_rotate if the memtable has become full: with no room   *)
(* in the queue the rotation is deferred.                                  *)
RotatesAlways == TRUE                                            \* mistake
MayRotate == HasRoom(queue)

ApplyPut ==
    /\ writer = "admitted"
    /\ writer' = "idle"
    /\ \E fills \in {full, TRUE} :
          IF fills /\ MayRotate
          THEN queue' = queue + 1 /\ full' = FALSE
          ELSE full' = fills /\ UNCHANGED queue
    /\ UNCHANGED <<tables, worker, paused, failures>>

Flush ==
    /\ queue > 0
    /\ queue' = queue - 1
    /\ \E size \in 1 .. MaxSize : tables' = <<size>> \o tables
    /\ UNCHANGED <<full, writer, worker, paused, failures>>

-----------------------------------------------------------------------------
(* Compaction.                                                             *)

Outputs(s, i) ==
    {<<>>} \cup {<<size>> : size \in 1 .. Min({MaxSize, TotalBytes(s, i)})}

(* run_compaction(nullopt): the picked window makes way for the output.    *)
CompactWindow(i) ==
    /\ i # 0
    /\ \E out \in Outputs(tables, i) :
          tables' = SubSeq(tables, 1, i - 1) \o out
                       \o SubSeq(tables, i + WindowSize, Len(tables))

TriggeredLate == Len(tables) > Trigger                           \* mistake
Triggered == Len(tables) >= Trigger

(* A tick of the worker: flush beats compaction, and what is not           *)
(* size-similar waits for the trigger.                                     *)
WorkerTick ==
    /\ worker = "asleep" /\ ~paused /\ queue = 0
    /\ LET i == Pick(tables) IN i # 0 /\ (Triggered \/ SizeSimilar(tables, i))
    /\ worker' = "going"
    /\ UNCHANGED <<tables, queue, full, writer, paused, failures>>

(* It picks again, from the tables there are by then.                      *)
WorkerCompact ==
    /\ worker = "going"
    /\ worker' = "asleep"
    /\ LET i == Pick(tables) IN
          CompactWindow(i) \/ (i = 0 /\ UNCHANGED tables)
    /\ UNCHANGED <<queue, full, writer, paused, failures>>

(* The job is abandoned with its inputs live, and retried at the next tick.*)
WorkerFails ==
    /\ worker = "going" /\ failures < MaxFailures
    /\ worker' = "asleep" /\ failures' = failures + 1
    /\ UNCHANGED <<tables, queue, full, writer, paused>>

(* compaction-run, and a turn of maybe_auto_compact after a flush-now.     *)
UserCompact ==
    /\ LET i == Pick(tables) IN CompactWindow(i)
    /\ UNCHANGED <<queue, full, writer, worker, paused, failures>>

SetPaused ==
    /\ paused' = ~paused
    /\ UNCHANGED <<tables, queue, full, writer, worker, failures>>

Next ==
    \/ StartPut \/ Unblock \/ ApplyPut \/ Flush
    \/ WorkerTick \/ WorkerCompact \/ WorkerFails \/ UserCompact \/ SetPaused

(* The workers' threads are scheduled.                                     *)
Spec ==
    /\ Init /\ [][Next]_vars
    /\ WF_vars(Flush) /\ WF_vars(WorkerTick) /\ WF_vars(WorkerCompact)

-----------------------------------------------------------------------------
(* Properties.                                                             *)

(* The queue never gets longer than max_immutable_tables.                  *)
TypeOK ==
    /\ tables \in Seq(1 .. MaxSize)
    /\ queue \in 0 .. MaxImm /\ full \in BOOLEAN
    /\ writer \in {"idle", "waiting", "admitted"}
    /\ worker \in {"asleep", "going"} /\ paused \in BOOLEAN

(* What the picker promises: the size-similar window with the fewest bytes *)
(* if there is one, else the window with the fewest bytes of all; a window *)
(* whenever there are enough tables.                                       *)
PickIsTheReference ==
    LET similar == {i \in Windows(tables) : SizeSimilar(tables, i)}
        from == IF similar # {} THEN similar ELSE Windows(tables)
        pick == Pick(tables)
    IN IF from = {} THEN pick = 0
       ELSE /\ pick \in from
            /\ \A i \in from : TotalBytes(tables, pick) <= TotalBytes(tables, i)

(* The stall bounds what piles up: the count is checked once, before the   *)
(* queue drains and the admitted write rotates one more memtable into it,  *)
(* yet at most max_immutable_tables + 1 tables appear past the limit.      *)
BacklogIsBounded == Len(tables) + queue <= Stop + MaxImm + 1

(* Writes do not stall for ever: "writes stalled until compaction runs" is *)
(* followed by a compaction that brings the count down, although it yields *)
(* to every queued flush, unless compaction stays paused.                  *)
StallClears == <>[]~paused => (WriteStall ~> ~WriteStall)
=============================================================================
