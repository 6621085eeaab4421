-------------------------------- MODULE Shell --------------------------------
(***************************************************************************)
(* What happens to one data directory under the commands of lsmkv: short   *)
(* processes that open the engine, run one command with the workers off    *)
(* and exit, and sessions (repl, serve) whose main thread runs commands    *)
(* beside the flush worker, the compaction worker and the HTTP thread.     *)
(*                                                                         *)
(* Simplifications:                                                        *)
(*  - every write is to a key of its own, so that a memtable is as full as *)
(*    it has entries, and what a memtable holds is a range of seqNos;      *)
(*  - a compaction is one step that turns FanIn tables into one: which     *)
(*    ones is in CompactionPolicy, the steps and crashes are in Engine;    *)
(*  - wal_segment_roll_bytes is above memtable_max_bytes, as in the        *)
(*    defaults: segments are rolled by rotations only;                     *)
(*  - commands that only read print nothing a later one depends on; of     *)
(*    what is printed only the advice that comes with a refusal is kept.   *)
(***************************************************************************)
EXTENDS Integers, Sequences, FiniteSets, FiniteSetsExt

CONSTANTS MemtableMax,     \* entries that fill a memtable
          MaxImmutables,   \* max_immutable_tables
          StopWrites,      \* l0_stop_writes
          Trigger,         \* l0_compaction_trigger
          FanIn            \* size_tiered_fan_in

(* Bounds of the state space.                                              *)
CONSTANTS MaxWrites, MaxFailures

ASSUME ShellAssumption ==
    /\ {MemtableMax, MaxImmutables} \subseteq Nat \ {0}
    /\ FanIn \in Nat /\ FanIn >= 2 /\ {StopWrites, Trigger} \subseteq Nat
    /\ FanIn <= StopWrites + 1              \* or a stall has no cure
    /\ {MaxWrites, MaxFailures} \subseteq Nat

VARIABLES
    starts,     \* first seqNo of each WAL segment
    last,       \* last seqNo given
    flushed,    \* manifest_.max_seqno()
    tables,     \* how many the manifest lists
    paused,     \* compaction.paused exists
    mode,       \* "none", "session" or the one-shot command
    imms,       \* immutables_, newest first: the last seqNo of each
    active,     \* entries of the active memtable
    main,       \* the main thread
    previous,   \* maybe_auto_compact: tables before its last compaction
    graceful,   \* how the session is to end
    flusher, compactor,     \* the workers
    creator,    \* who holds creation_mutex_
    published,  \* its flush is in the manifest, the log not cleaned yet
    http, listening,        \* the server's thread; listen_socket_ is open
    said,       \* what a refused user was told to run
    late,       \* compactions of the worker since the pause
    failures

disk == <<starts, last, flushed, tables, paused>>
memory == <<imms, active>>
mains == <<main, previous, graceful>>
workers == <<flusher, compactor, creator, published, late>>
server == <<http, listening>>
vars == <<disk, mode, memory, mains, workers, server, said, failures>>

OneShots == {"put", "flush-now", "compaction-run", "compaction-pause", "compaction-resume"}

Init ==
    /\ starts = {1} /\ last = 0 /\ flushed = 0 /\ tables = 0 /\ paused = FALSE
    /\ mode = "none" /\ imms = <<>> /\ active = 0
    /\ main = "off" /\ previous = 0 /\ graceful = TRUE
    /\ flusher = "off" /\ compactor = "off" /\ creator = "nobody" /\ published = FALSE
    /\ http = "off" /\ listening = FALSE
    /\ said = "nothing" /\ late = 0 /\ failures = 0

-----------------------------------------------------------------------------
(* The log.                                                                *)

ActiveSegment == Max(starts)

(* The last seqNo of a segment that is not the active one.                 *)
EndOf(s) == Min({x \in starts : x > s}) - 1

(* remove_segments_covered                                                 *)
Uncovered(w) == {s \in starts : s = ActiveSegment \/ EndOf(s) > w}

(* Replay fills memtables one after the other as far as the queue goes;    *)
(* the active one takes the rest.                                          *)
First == Min(starts)
Replayed == last - First + 1
AllRotations == Replayed \div MemtableMax           \* mistake: the queue has no limit
Rotations == Min({Replayed \div MemtableMax, MaxImmutables})
Rebuilt == [j \in 1 .. Rotations |-> First - 1 + (Rotations + 1 - j) * MemtableMax]

-----------------------------------------------------------------------------
(* Processes.                                                              *)

(* A user who has been refused does as told, then tries again.             *)
MayRun(cmd) == CASE said = "nothing" -> TRUE
                 [] said = "retry"   -> cmd = "put"
                 [] OTHER            -> cmd = said

(* Bounds: writes, and the tables a user makes for no reason.              *)
WorthRunning(cmd) == /\ cmd = "put" => last < MaxWrites
                     /\ said = "nothing" => tables <= StopWrites + 1

(* Engine::open                                                            *)
Open(m) ==
    /\ mode = "none" /\ MayRun(m) /\ WorthRunning(m)
    /\ mode' = m
    /\ imms' = Rebuilt /\ active' = Replayed - Rotations * MemtableMax
    /\ main' = "ready"
    /\ UNCHANGED <<disk, previous, graceful, creator, published, late, said, failures>>

OneShot == /\ \E cmd \in OneShots : Open(cmd)
           /\ UNCHANGED <<flusher, compactor, server>>

(* start_background(), and for serve the HttpServer.                       *)
Session == /\ Open("session")
           /\ flusher' = "idle" /\ compactor' = "idle"
           /\ http' \in {"off", "loop"} /\ listening' = (http' # "off")

(* The end of a command; a one-shot process then closes the engine, which  *)
(* leaves the queue to the next replay.                                    *)
Done == IF mode = "session" THEN "ready" ELSE "exit"

Exit ==
    /\ main = "exit"
    /\ mode' = "none" /\ main' = "off" /\ imms' = <<>> /\ active' = 0
    /\ graceful' = TRUE /\ late' = 0 /\ http' = "off"
    /\ UNCHANGED <<disk, previous, flusher, compactor, creator, published, listening, said,
                   failures>>

Command(cmd) == main = "ready" /\ mode \in {cmd, "session"}

(* Only one-shot users are followed until they get their write through.    *)
Told(advice) == IF mode = "session" \/ (said = "nothing" /\ mode # "put")
                THEN said ELSE advice

-----------------------------------------------------------------------------
(* put                                                                     *)

WriteStall == tables > StopWrites
Full == active >= MemtableMax /\ Len(imms) >= MaxImmutables

(* ensure_write_capacity throws Backpressure.                              *)
PutRefused ==
    /\ Command("put") /\ last < MaxWrites
    /\ WriteStall \/ (Full /\ mode # "session")
    /\ said' = Told(IF WriteStall THEN "compaction-run" ELSE "flush-now")
    /\ main' = Done
    /\ UNCHANGED <<disk, mode, memory, previous, graceful, workers, server, failures>>

(* A session waits for the flush worker.                                   *)
PutStalls ==
    /\ Command("put") /\ last < MaxWrites /\ mode = "session"
    /\ ~WriteStall /\ Full
    /\ main' = "stalled"
    /\ UNCHANGED <<disk, mode, memory, previous, graceful, workers, server, said, failures>>

(* A live rotation rolls the log, unless it is deferred.                   *)
Rolled(n) == starts \cup {n + 1}

Put ==
    /\ last < MaxWrites
    /\ \/ Command("put") /\ ~WriteStall /\ ~Full
       \/ main = "stalled" /\ Len(imms) < MaxImmutables
    /\ last' = last + 1
    /\ IF active + 1 >= MemtableMax /\ Len(imms) < MaxImmutables
       THEN /\ starts' = Rolled(last + 1)
            /\ imms' = <<last + 1>> \o imms
            /\ active' = 0
       ELSE active' = active + 1 /\ UNCHANGED <<starts, imms>>
    /\ said' = Told("nothing")
    /\ main' = Done
    /\ UNCHANGED <<flushed, tables, paused, mode, previous, graceful, workers, server, failures>>

-----------------------------------------------------------------------------
(* flush_one, by the main thread or the flush worker.                      *)

(* stop_workers_, shutting_down_ and cancel_compaction_.                   *)
StoppedIfGraceful == main = "join" /\ graceful     \* mistake: the fast close forgets
Stopping == main = "join"
ShuttingDown == main \in {"draining", "join"}
Cancelled == Stopping /\ ~graceful

Waiting(who) == IF who = "main" THEN main \in {"flushing", "draining"} ELSE flusher = "flushing"

WorkerGoesOn == flusher' = IF Stopping THEN "off" ELSE "idle"

(* Where it returns to: flush_pending, or close, or the worker's loop.     *)
Return(who, wrote) ==
    IF who = "main"
    THEN /\ main' = CASE main = "draining" -> IF wrote THEN "draining" ELSE "join"
                      [] OTHER             -> IF wrote THEN "flush" ELSE "auto"
         /\ UNCHANGED flusher
    ELSE WorkerGoesOn /\ UNCHANGED main

NothingToFlush(who) ==
    /\ Waiting(who) /\ creator = "nobody" /\ imms = <<>>
    /\ Return(who, FALSE)
    /\ UNCHANGED <<disk, mode, memory, previous, graceful, compactor, creator, published,
                   late, server, said, failures>>

TakeOldest(who) ==
    /\ Waiting(who) /\ creator = "nobody" /\ imms # <<>>
    /\ creator' = who
    /\ UNCHANGED <<disk, mode, memory, mains, flusher, compactor, published, late,
                   server, said, failures>>

(* The worker tries again; a command fails with its process or goes back   *)
(* to the prompt; close() is left halfway, and the destructor stops the    *)
(* workers.                                                                *)
Throw(who) ==
    /\ failures < MaxFailures /\ failures' = failures + 1
    /\ creator' = "nobody"
    /\ IF who = "main"
       THEN /\ main' = IF main = "draining" THEN "join" ELSE Done
            /\ said' = Told("retry")
            /\ UNCHANGED flusher
       ELSE WorkerGoesOn /\ UNCHANGED <<main, said>>
    /\ UNCHANGED <<mode, memory, previous, graceful, compactor, late, server>>

(* The memtable stays queued.                                              *)
FlushFails(who) ==
    /\ creator = who /\ ~published
    /\ Throw(who)
    /\ UNCHANGED <<disk, published>>

Publish(who) ==
    /\ creator = who /\ ~published
    /\ flushed' = Max({flushed, imms[Len(imms)]})
    /\ tables' = tables + 1
    /\ imms' = SubSeq(imms, 1, Len(imms) - 1)
    /\ published' = TRUE
    /\ UNCHANGED <<starts, last, paused, mode, active, mains, flusher, compactor, creator,
                   late, server, said, failures>>

CleanUp(who) ==
    /\ creator = who /\ published
    /\ starts' = Uncovered(flushed)
    /\ creator' = "nobody" /\ published' = FALSE
    /\ Return(who, TRUE)
    /\ UNCHANGED <<last, flushed, tables, paused, mode, memory, previous, graceful,
                   compactor, late, server, said, failures>>

(* Segment s cannot be deleted; those before it are.                       *)
CleanUpFails(who) ==
    /\ creator = who /\ published
    /\ Throw(who)
    /\ \E s \in starts \ Uncovered(flushed) : starts' = {x \in starts : x >= s}
    /\ published' = FALSE
    /\ UNCHANGED <<last, flushed, tables, paused>>

FlushOne(who) == \/ NothingToFlush(who) \/ TakeOldest(who) \/ FlushFails(who)
                 \/ Publish(who) \/ CleanUp(who) \/ CleanUpFails(who)

-----------------------------------------------------------------------------
(* flush_pending and the compactions after it, by the main thread.         *)

StartFlush ==
    /\ Command("flush-now")
    /\ main' = "flush"
    /\ UNCHANGED <<disk, mode, memory, previous, graceful, workers, server, said, failures>>

NextMemtable ==
    /\ main = "flush"
    /\ main' = IF imms = <<>> THEN "auto" ELSE "flushing"
    /\ UNCHANGED <<disk, mode, memory, previous, graceful, workers, server, said, failures>>

(* run_compaction: its one manifest edit.                                  *)
CanCompact == tables >= FanIn
Compaction ==
    /\ creator = "nobody"
    /\ tables' = tables - FanIn + 1

(* maybe_auto_compact: previous = 0 stands for SIZE_MAX.                   *)
WantsAuto == /\ tables >= Trigger
             /\ previous # 0 => tables < previous

AutoCompact ==
    /\ main = "auto" /\ ~paused /\ WantsAuto /\ CanCompact
    /\ Compaction
    /\ previous' = tables
    /\ UNCHANGED <<starts, last, flushed, paused, mode, memory, main, graceful, workers,
                   server, said, failures>>

EndOfFlush ==
    /\ main = "auto" /\ ~(~paused /\ WantsAuto /\ CanCompact)
    /\ previous' = 0
    /\ said' = Told("retry")
    /\ main' = Done
    /\ UNCHANGED <<disk, mode, memory, graceful, workers, server, failures>>

-----------------------------------------------------------------------------
(* The other commands.  The prompt's "compact" does not look at the pause. *)

CompactionRun ==
    /\ Command("compaction-run")
    /\ IF ~CanCompact \/ (mode # "session" /\ paused)
       THEN UNCHANGED tables
       ELSE Compaction
    /\ said' = Told(IF paused THEN "compaction-resume" ELSE "retry")
    /\ main' = Done
    /\ UNCHANGED <<starts, last, flushed, paused, mode, memory, previous, graceful, workers,
                   server, failures>>

FlagStays(p) == TRUE                               \* mistake: never removed
Flag(p) == p                                       \* the file exists

SetCompactionPaused(p) ==
    /\ Command(IF p THEN "compaction-pause" ELSE "compaction-resume")
    /\ paused' = Flag(p)
    /\ late' = 0
    /\ said' = Told("retry")
    /\ main' = Done
    /\ UNCHANGED <<starts, last, flushed, tables, mode, memory, previous, graceful, flusher,
                   compactor, creator, published, server, failures>>

(* quit, quit --fast or the end of the input: HttpServer::stop() closes    *)
(* the listening socket and joins the thread, then Engine::close().        *)
Quit ==
    /\ main = "ready" /\ mode = "session"
    /\ graceful' \in BOOLEAN
    /\ listening' = FALSE
    /\ main' = "stop"
    /\ UNCHANGED <<disk, mode, memory, previous, workers, http, said, failures>>

NotJoined == TRUE                                  \* mistake: close before stop
HttpJoined == http \in {"off", "done"}

Close ==
    /\ main = "stop" /\ HttpJoined
    /\ main' = IF graceful THEN "draining" ELSE "join"
    /\ UNCHANGED <<disk, mode, memory, previous, graceful, workers, server, said, failures>>

WorkersJoined ==
    /\ main = "join" /\ flusher = "off" /\ compactor = "off"
    /\ main' = "exit"
    /\ UNCHANGED <<disk, mode, memory, previous, graceful, workers, server, said, failures>>

-----------------------------------------------------------------------------
(* The threads of a session.                                               *)

TooFew == Len(imms) > MaxImmutables                \* mistake: waits for one too many
HasWork == imms # <<>>

FlusherWakes ==
    /\ flusher = "idle" /\ HasWork
    /\ flusher' = "flushing"
    /\ UNCHANGED <<disk, mode, memory, mains, compactor, creator, published, late, server,
                   said, failures>>

Stop ==
    /\ Stopping
    /\ \/ flusher = "idle" /\ flusher' = "off" /\ UNCHANGED compactor
       \/ compactor = "idle" /\ compactor' = "off" /\ UNCHANGED flusher
    /\ UNCHANGED <<disk, mode, memory, mains, creator, published, late, server, said, failures>>

(* A tick that finds a set, and no flush to give way to.                   *)
TickBlind == imms = <<>> /\ CanCompact             \* mistake: the pause is not looked at
Tick == ~paused /\ imms = <<>> /\ CanCompact

Decide ==
    /\ compactor = "idle" /\ ~Stopping /\ Tick
    /\ compactor' = "decided"
    /\ UNCHANGED <<disk, mode, memory, mains, flusher, creator, published, late, server, said,
                   failures>>

(* ensure_open()                                                           *)
Begin ==
    /\ compactor = "decided"
    /\ compactor' = IF ShuttingDown THEN "idle" ELSE "running"
    /\ UNCHANGED <<disk, mode, memory, mains, flusher, creator, published, late, server, said,
                   failures>>

(* It picks again, and may find nothing, or be cancelled.                  *)
CompactorRuns ==
    /\ compactor = "running"
    /\ creator = "nobody"
    /\ IF CanCompact /\ ~Cancelled
       THEN Compaction /\ late' = IF paused THEN late + 1 ELSE late
       ELSE UNCHANGED <<tables, late>>
    /\ compactor' = "idle"
    /\ UNCHANGED <<starts, last, flushed, paused, mode, memory, mains, flusher, creator,
                   published, server, said, failures>>

(* serve_loop.  The thread waits for its client in accept, recv and send,  *)
(* none with a timeout, and on POSIX close() of the listening socket does  *)
(* not wake an accept() that already waits.                                *)
CallAccept ==
    /\ http = "loop"
    /\ http' = IF listening THEN "accept" ELSE "done"
    /\ UNCHANGED <<disk, mode, memory, mains, workers, listening, said, failures>>

(* A client connects, or accept() fails, which also ends the loop while    *)
(* the socket is open.                                                     *)
Connect ==
    /\ http = "accept" /\ http' \in {"receive", "done"}
    /\ UNCHANGED <<disk, mode, memory, mains, workers, listening, said, failures>>

(* It sends its request, or goes.                                          *)
Receive ==
    /\ http = "receive" /\ http' \in {"serve", "loop"}
    /\ UNCHANGED <<disk, mode, memory, mains, workers, listening, said, failures>>

(* handler_(path)                                                          *)
Handle ==
    /\ http = "serve" /\ http' = "send"
    /\ UNCHANGED <<disk, mode, memory, mains, workers, listening, said, failures>>

(* The client takes the response, or goes.                                 *)
Respond ==
    /\ http = "send" /\ http' = "loop"
    /\ UNCHANGED <<disk, mode, memory, mains, workers, listening, said, failures>>

-----------------------------------------------------------------------------
Main == \/ PutRefused \/ PutStalls \/ Put
        \/ StartFlush \/ NextMemtable \/ FlushOne("main")
        \/ AutoCompact \/ EndOfFlush
        \/ CompactionRun \/ \E p \in BOOLEAN : SetCompactionPaused(p)
        \/ Quit \/ Close \/ WorkersJoined \/ Exit

FlushWorker == FlusherWakes \/ FlushOne("flusher")
Server == CallAccept \/ Handle
Client == Connect \/ Receive \/ Respond

Next == \/ OneShot \/ Session \/ Main
        \/ FlushWorker \/ Decide \/ Begin \/ CompactorRuns \/ Stop
        \/ Server \/ Client

(* Every thread goes on when it can, and a refused user does as told.  No  *)
(* one has to type at a prompt or to start a session, no client has to     *)
(* connect, to send or to read; whether the compactor finds a set similar  *)
(* enough is up to the sizes.                                              *)
AtPrompt == mode = "session" /\ main = "ready"
Spec == Init /\ [][Next]_vars
FairSpec ==
    /\ Spec
    /\ WF_vars(~AtPrompt /\ Main) /\ WF_vars(FlushWorker) /\ WF_vars(Stop)
    /\ WF_vars(Begin \/ CompactorRuns) /\ WF_vars(Server)
    /\ WF_vars(said # "nothing" /\ OneShot)

-----------------------------------------------------------------------------
(* Properties.                                                             *)

(* Among other things: neither rotation nor replay overfills the queue.    *)
TypeOK ==
    /\ starts \subseteq 1 .. MaxWrites + 1 /\ starts # {}
    /\ last \in 0 .. MaxWrites /\ flushed \in 0 .. last
    /\ tables \in Nat /\ paused \in BOOLEAN
    /\ mode \in OneShots \cup {"none", "session"}
    /\ imms \in Seq(1 .. MaxWrites) /\ Len(imms) <= MaxImmutables /\ active \in Nat
    /\ main \in {"off", "ready", "stalled", "flush", "flushing", "auto", "stop",
                 "draining", "join", "exit"}
    /\ previous \in Nat /\ graceful \in BOOLEAN
    /\ flusher \in {"off", "idle", "flushing"}
    /\ compactor \in {"off", "idle", "decided", "running"}
    /\ creator \in {"nobody", "main", "flusher"} /\ published \in BOOLEAN
    /\ http \in {"off", "loop", "accept", "receive", "serve", "send", "done"}
    /\ listening \in BOOLEAN
    /\ said \in {"nothing", "retry", "flush-now", "compaction-run", "compaction-resume"}
    /\ late \in Nat /\ failures \in 0 .. MaxFailures

(* A handler runs on an engine that is not being closed.                   *)
HandlersSeeOpenEngine == http = "serve" => ~ShuttingDown /\ mode = "session"

(* The oldest segment holds more than the queue of immutables can take, so *)
(* flushing the queue never covers it, and the next process is as full.    *)
SegmentTooLong ==
    /\ Replayed >= (MaxImmutables + 1) * MemtableMax
    /\ First = ActiveSegment \/ EndOf(First) >= First + MaxImmutables * MemtableMax

(* "run flush-now", "run compaction-run" and "run compaction-resume first" *)
(* are followed to an accepted write, except in that state.                *)
AdviceHelps == said # "nothing" ~> (said = "nothing" \/ SegmentTooLong)

(* A compaction the worker had decided on may run after pause: one at most. *)
PauseStopsSoon == late <= 1

(* A writer stalled in a session is released by the flush worker.          *)
StallEnds == main = "stalled" ~> main # "stalled"

(* A session that was told to quit ends, whatever the workers were doing,  *)
(* unless its server thread waits for a client for ever.                   *)
WaitsForClient == http \in {"accept", "receive", "send"}
QuitEnds == []<>~WaitsForClient => (main = "stop" ~> mode = "none")
=============================================================================
