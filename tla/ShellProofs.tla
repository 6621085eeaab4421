----------------------------- MODULE ShellProofs -----------------------------
(***************************************************************************)
(* Proofs about module Shell: however many commands, sessions, writes and  *)
(* failures there are, requests are answered from an engine that is not    *)
(* being closed, at most one compaction of the worker follows a pause, and *)
(* every queue and counter keeps its type.                                 *)
(***************************************************************************)
EXTENDS Shell, CommonLemmas, TLAPS

(* While the server's thread is in its loop, a session is up and not yet   *)
(* closing.                                                                *)
ServerInv ==
    http \in {"loop", "accept", "receive", "serve", "send"} =>
        mode = "session" /\ ~ShuttingDown

(* After the compaction that was late the worker looks at the flag again.  *)
PauseInv ==
    /\ late \in {0, 1}
    /\ late = 1 => paused /\ compactor \notin {"decided", "running"}

LEMMA ServerStep == ServerInv /\ [Next]_vars => ServerInv'
<1> SUFFICES ASSUME ServerInv, [Next]_vars PROVE ServerInv'
  OBVIOUS
<1> USE DEF ServerInv, ShuttingDown
<1>1. CASE OneShot
  BY <1>1 DEF OneShot, Open, server
<1>2. CASE Session
  BY <1>2 DEF Session, Open
<1>3. CASE PutRefused \/ PutStalls \/ Put
  <2>1. mode' = mode /\ http' = http /\ main' \notin {"draining", "join"}
    BY <1>3 DEF PutRefused, PutStalls, Put, Done, server
  <2> QED BY <2>1
<1>4. CASE StartFlush \/ NextMemtable \/ EndOfFlush \/ CompactionRun \/ Quit
           \/ \E p \in BOOLEAN : SetCompactionPaused(p)
  <2>1. mode' = mode /\ http' = http /\ main' \notin {"draining", "join"}
    BY <1>4 DEF StartFlush, NextMemtable, EndOfFlush, CompactionRun, SetCompactionPaused, Quit,
                Done, server
  <2> QED BY <2>1
<1>5. ASSUME NEW who \in {"main", "flusher"}, FlushOne(who) PROVE ServerInv'
  <2>1. mode' = mode /\ http' = http
    BY <1>5 DEF FlushOne, NothingToFlush, TakeOldest, FlushFails, Publish, CleanUp, CleanUpFails, Throw, server
  <2>2. main' \in {"draining", "join"} => main \in {"draining", "join"}
    BY <1>5 DEF FlushOne, NothingToFlush, TakeOldest, FlushFails, Publish, CleanUp, CleanUpFails, Throw, Return, Waiting,
                Done, mains
  <2> QED BY <2>1, <2>2
<1>6. CASE AutoCompact
  BY <1>6 DEF AutoCompact, server
<1>7. CASE Close
  BY <1>7 DEF Close, HttpJoined, server
<1>8. CASE WorkersJoined \/ Exit
  BY <1>8 DEF WorkersJoined, Exit, server
<1>9. CASE FlusherWakes \/ Decide \/ Begin \/ CompactorRuns \/ Stop
  BY <1>9 DEF FlusherWakes, Decide, Begin, CompactorRuns, Stop, mains, server
<1>10. CASE Server \/ Client
  BY <1>10 DEF Server, Client, CallAccept, Connect, Receive, Handle, Respond, mains
<1>11. CASE UNCHANGED vars
  BY <1>11 DEF vars, mains, server
<1> QED BY <1>1, <1>2, <1>3, <1>4, <1>5, <1>6, <1>7, <1>8, <1>9, <1>10, <1>11
        DEF Next, Main, FlushWorker

LEMMA PauseStep == PauseInv /\ [Next]_vars => PauseInv'
<1> SUFFICES ASSUME PauseInv, [Next]_vars PROVE PauseInv'
  OBVIOUS
<1> USE DEF PauseInv
<1>1. CASE OneShot \/ Session
  BY <1>1 DEF OneShot, Session, Open, disk
<1>2. CASE PutRefused \/ PutStalls \/ Put
  BY <1>2 DEF PutRefused, PutStalls, Put, disk, workers
<1>3. CASE StartFlush \/ NextMemtable \/ EndOfFlush \/ CompactionRun \/ Quit \/ Close
           \/ WorkersJoined \/ AutoCompact
  BY <1>3 DEF StartFlush, NextMemtable, EndOfFlush, CompactionRun, Quit, Close, WorkersJoined,
              AutoCompact, disk, workers
<1>4. ASSUME NEW p \in BOOLEAN, SetCompactionPaused(p) PROVE PauseInv'
  BY <1>4 DEF SetCompactionPaused
<1>5. ASSUME NEW who \in {"main", "flusher"}, FlushOne(who) PROVE PauseInv'
  BY <1>5 DEF FlushOne, NothingToFlush, TakeOldest, FlushFails, Publish, CleanUp, CleanUpFails, Throw, disk
<1>6. CASE Exit
  BY <1>6 DEF Exit
<1>7. CASE FlusherWakes \/ Stop
  BY <1>7 DEF FlusherWakes, Stop, disk
<1>8. CASE Decide \/ Begin
  BY <1>8 DEF Decide, Tick, Begin, disk
<1>9. CASE CompactorRuns
  <2>1. late = 0 /\ compactor' = "idle" /\ paused' = paused
    BY <1>9 DEF CompactorRuns
  <2>2. late' = late \/ (paused /\ late' = late + 1)
    BY <1>9 DEF CompactorRuns
  <2> QED BY <2>1, <2>2
<1>10. CASE Server \/ Client
  BY <1>10 DEF Server, Client, CallAccept, Connect, Receive, Handle, Respond, disk, workers
<1>11. CASE UNCHANGED vars
  BY <1>11 DEF vars, disk, workers
<1> QED BY <1>1, <1>2, <1>3, <1>4, <1>5, <1>6, <1>7, <1>8, <1>9, <1>10, <1>11
        DEF Next, Main, FlushWorker

(* main stops the HttpServer before it closes the engine (run_repl), and   *)
(* the server's destructor joins its thread: no handler sees an engine     *)
(* that is shutting down.                                                  *)
THEOREM HandlersSeeOpenEngineHolds == Spec => []HandlersSeeOpenEngine
<1>1. Init => ServerInv
  BY DEF Init, ServerInv
<1>2. ServerInv => HandlersSeeOpenEngine
  BY DEF ServerInv, HandlersSeeOpenEngine
<1> QED BY <1>1, <1>2, ServerStep, PTL DEF Spec

(* compaction_worker_loop looks at the pause before each compaction, not   *)
(* during one: one it has decided on still runs, a second one does not.    *)
THEOREM PauseStopsSoonHolds == Spec => []PauseStopsSoon
<1>1. Init => PauseInv
  BY DEF Init, PauseInv
<1>2. PauseInv => PauseStopsSoon
  BY DEF PauseInv, PauseStopsSoon
<1> QED BY <1>1, <1>2, PauseStep, PTL DEF Spec
-----------------------------------------------------------------------------
(* The types.  A memtable that a flush has taken is still queued when it   *)
(* is published: no one else takes from the queue meanwhile, and no        *)
(* process goes on to its end with a flush under way.                      *)

(* Products of naturals are monotone in their first factor.                *)
LEMMA ProductsGrow ==
    ASSUME NEW k \in Nat, NEW n \in Nat, k <= n, NEW m \in Nat
    PROVE  /\ k * m \in Nat /\ n * m \in Nat /\ k * m <= n * m
           /\ k >= 1 /\ m >= 1 => k * m >= 1
<1>1. n * m = k * m + (n - k) * m /\ n - k \in Nat
  OBVIOUS
<1>2. \A a, b \in Nat : a * b \in Nat
  OBVIOUS
<1>3. k * m \in Nat /\ n * m \in Nat /\ (n - k) * m \in Nat
  BY <1>1, <1>2
<1>4. k >= 1 /\ m >= 1 => k * m >= 1
  OBVIOUS
<1> QED BY <1>1, <1>3, <1>4

(* A queue of seqNos with one more at its front, or the last one taken.    *)
IsQueue(q, N, n) == q \in Seq(1 .. N) /\ \A i \in DOMAIN q : q[i] <= n

LEMMA PushedQueue ==
    ASSUME NEW N \in Nat, NEW n \in Nat, n < N, NEW q, IsQueue(q, N, n)
    PROVE  /\ IsQueue(q, N, n + 1) /\ Len(q) \in Nat
           /\ IsQueue(<<n + 1>> \o q, N, n + 1) /\ Len(<<n + 1>> \o q) = Len(q) + 1
           /\ <<n + 1>> \o q # <<>>
<1> DEFINE x == n + 1
           l == <<x>> \o q
<1>1. /\ q \in Seq(1 .. N) /\ Len(q) \in Nat /\ DOMAIN q = 1 .. Len(q)
      /\ \A i \in 1 .. Len(q) : q[i] \in Nat /\ q[i] <= n
  BY DEF IsQueue
<1>2. x \in 1 .. N /\ x \in Nat /\ n <= x
  OBVIOUS
<1>3. \A i \in 1 .. Len(q) : q[i] <= x
  BY <1>1, <1>2
<1> HIDE DEF x
<1>4. /\ l \in Seq(1 .. N) /\ Len(l) = Len(q) + 1 /\ DOMAIN l = 1 .. Len(q) + 1
      /\ l[1] = x /\ \A i \in 2 .. Len(q) + 1 : l[i] = q[i - 1]
  BY <1>1, <1>2
<1>5. l # <<>>
  BY <1>1, <1>4
<1> HIDE DEF l
<1>6. ASSUME NEW i \in 1 .. Len(q) + 1
      PROVE  l[i] <= x
  <2>1. CASE i = 1
    BY <2>1, <1>2, <1>4
  <2>2. CASE i # 1
    <3>1. i \in 2 .. Len(q) + 1 /\ i - 1 \in 1 .. Len(q)
      BY <2>2, <1>1
    <3> QED BY <3>1, <1>3, <1>4
  <2> QED BY <2>1, <2>2
<1>7. IsQueue(q, N, x) /\ IsQueue(l, N, x)
  BY <1>1, <1>3, <1>4, <1>6 DEF IsQueue
<1> QED BY <1>1, <1>4, <1>5, <1>7 DEF x, l

LEMMA PoppedQueue ==
    ASSUME NEW N \in Nat, NEW n \in Nat, NEW q, IsQueue(q, N, n), q # <<>>
    PROVE  /\ q[Len(q)] \in 0 .. n /\ Len(q) \in Nat
           /\ IsQueue(SubSeq(q, 1, Len(q) - 1), N, n)
           /\ Len(SubSeq(q, 1, Len(q) - 1)) \in Nat
           /\ Len(SubSeq(q, 1, Len(q) - 1)) <= Len(q)
<1> DEFINE l == SubSeq(q, 1, Len(q) - 1)
<1>1. /\ q \in Seq(1 .. N) /\ Len(q) \in Nat /\ DOMAIN q = 1 .. Len(q)
      /\ \A i \in 1 .. Len(q) : q[i] \in Nat /\ q[i] <= n
  BY DEF IsQueue
<1>2. Len(q) >= 1
  BY <1>1
<1>3. l \in Seq(1 .. N) /\ Len(l) = Len(q) - 1 /\ DOMAIN l = 1 .. Len(q) - 1
  BY <1>1, <1>2
<1>4. \A i \in 1 .. Len(q) - 1 : l[i] = q[i]
  BY <1>1, <1>2
<1> HIDE DEF l
<1>5. ASSUME NEW i \in DOMAIN l
      PROVE  l[i] <= n
  <2>1. i \in 1 .. Len(q) - 1 /\ i \in 1 .. Len(q)
    BY <1>1, <1>3
  <2> QED BY <2>1, <1>1, <1>4
<1> QED BY <1>1, <1>2, <1>3, <1>5 DEF IsQueue, l

(* What a directory and a process hold.                                    *)
DataInv ==
    /\ starts \subseteq 1 .. MaxWrites + 1 /\ starts # {}
    /\ last \in 0 .. MaxWrites /\ flushed \in 0 .. last
    /\ tables \in Nat
    /\ imms \in Seq(1 .. MaxWrites) /\ Len(imms) <= MaxImmutables /\ active \in Nat
    /\ \A s \in starts : s <= last + 1
    /\ \A i \in DOMAIN imms : imms[i] <= last

(* Where its threads are.                                                  *)
ControlTypes ==
    /\ paused \in BOOLEAN /\ mode \in OneShots \cup {"none", "session"}
    /\ main \in {"off", "ready", "stalled", "flush", "flushing", "auto", "stop",
                 "draining", "join", "exit"}
    /\ previous \in Nat /\ graceful \in BOOLEAN
    /\ flusher \in {"off", "idle", "flushing"}
    /\ compactor \in {"off", "idle", "decided", "running"}
    /\ creator \in {"nobody", "main", "flusher"} /\ published \in BOOLEAN
    /\ http \in {"off", "loop", "accept", "receive", "serve", "send", "done"}
    /\ listening \in BOOLEAN
    /\ said \in {"nothing", "retry", "flush-now", "compaction-run", "compaction-resume"}
    /\ late \in Nat /\ failures \in 0 .. MaxFailures

FlushInv ==
    /\ creator = "main" => main \in {"flushing", "draining"}
    /\ creator = "flusher" => flusher = "flushing"
    /\ creator # "nobody" /\ ~published => imms # <<>>
    /\ mode # "session" => flusher = "off"
    /\ main = "exit" => flusher = "off"
    /\ mode = "none" => main = "off"

TypeInv == DataInv /\ ControlTypes /\ FlushInv

(* The queue that replay fills ends before the last seqNo.                 *)
LEMMA RebuiltFits ==
    ASSUME DataInv, ShellAssumption
    PROVE  /\ Rebuilt \in Seq(1 .. MaxWrites) /\ Len(Rebuilt) <= MaxImmutables
           /\ \A i \in DOMAIN Rebuilt : Rebuilt[i] <= last
           /\ Replayed - Rotations * MemtableMax \in Nat
<1> DEFINE m == MemtableMax
           q == Replayed \div MemtableMax
           r == Rotations
<1>1. /\ m \in Nat /\ m >= 1 /\ MaxImmutables \in Nat /\ MaxWrites \in Nat /\ last \in Nat
      /\ last <= MaxWrites
  BY DEF DataInv, ShellAssumption
<1>2. First \in Nat /\ First >= 1 /\ First <= last + 1
  <2>1. starts \in SUBSET Nat /\ starts # {}
    BY <1>1 DEF DataInv
  <2>2. First \in starts
    BY <2>1, LeastOfNaturals DEF First
  <2> QED BY <1>1, <2>2 DEF DataInv
<1>3. Replayed \in Nat /\ First - 1 + Replayed = last
  BY <1>1, <1>2 DEF Replayed
<1>4. q \in Nat /\ q * m <= Replayed
  <2> DEFINE n == Replayed
  <2>1. n \in Nat
    BY <1>3
  <2> HIDE DEF n, m
  <2>2. n \div m \in Nat /\ (n \div m) * m <= n
    BY ONLY <2>1, <1>1
  <2> QED BY <2>2 DEF n, m
<1> HIDE DEF q
<1>5. r \in Nat /\ r <= q /\ r <= MaxImmutables
  <2>1. r = Min({q, MaxImmutables})
    BY DEF Rotations, q
  <2> HIDE DEF r
  <2> QED BY ONLY <2>1, <1>1, <1>4, LesserOfTwo
<1>6. Rebuilt = [j \in 1 .. r |-> First - 1 + (r + 1 - j) * m]
  BY DEF Rebuilt
<1> HIDE DEF r, m
<1>7. \A k \in Nat : k <= r => k * m \in Nat /\ k * m <= Replayed
  <2> SUFFICES ASSUME NEW k \in Nat, k <= r PROVE k * m \in Nat /\ k * m <= Replayed
    OBVIOUS
  <2>1. k * m \in Nat /\ k * m <= q * m /\ q * m \in Nat
    <3>1. k <= q
      BY <1>4, <1>5
    <3> QED BY ONLY <3>1, <1>1, <1>4, ProductsGrow
  <2> QED BY <2>1, <1>3, <1>4
<1>8. ASSUME NEW j \in 1 .. r
      PROVE  Rebuilt[j] \in 1 .. MaxWrites /\ Rebuilt[j] <= last
  <2>1. r + 1 - j \in Nat /\ r + 1 - j >= 1 /\ r + 1 - j <= r
    BY <1>5
  <2>2. (r + 1 - j) * m \in Nat /\ (r + 1 - j) * m <= Replayed
    BY <2>1, <1>7
  <2>3. (r + 1 - j) * m >= 1
    BY ONLY <2>1, <1>1, ProductsGrow
  <2> DEFINE x == (r + 1 - j) * m
  <2>4. Rebuilt[j] = First - 1 + x
    BY <1>6
  <2> HIDE DEF x
  <2>5. x \in Nat /\ x <= Replayed /\ x >= 1
    BY <2>2, <2>3 DEF x
  <2> QED BY ONLY <2>4, <2>5, <1>1, <1>2, <1>3
<1>9. DOMAIN Rebuilt = 1 .. r /\ Rebuilt \in [1 .. r -> 1 .. MaxWrites]
  BY <1>6, <1>8
<1>10. Rebuilt \in Seq(1 .. MaxWrites) /\ Len(Rebuilt) = r
  <2>1. Seq(1 .. MaxWrites) = UNION {[1 .. n -> 1 .. MaxWrites] : n \in Nat}
    BY ONLY SeqDef
  <2>2. Rebuilt \in Seq(1 .. MaxWrites)
    BY ONLY <2>1, <1>5, <1>9
  <2> QED BY <2>2, <1>5, <1>9
<1>11. r * m \in Nat /\ r * m <= Replayed
  BY <1>5, <1>7
<1>12. Replayed - r * m \in Nat
  <2> DEFINE y == r * m
  <2> HIDE DEF y
  <2>1. y \in Nat /\ y <= Replayed
    BY <1>11 DEF y
  <2> QED BY <2>1, <1>3 DEF y
<1> QED BY <1>5, <1>8, <1>9, <1>10, <1>12 DEF r, m

(* Segments end at or before the last seqNo; the active one is not removed. *)
LEMMA ActiveStays ==
    ASSUME DataInv, ShellAssumption
    PROVE  /\ \A w : Uncovered(w) \subseteq starts /\ Uncovered(w) # {}
           /\ \A s \in starts : {x \in starts : x >= s} # {}
<1>1. /\ starts \in SUBSET Nat /\ starts # {}
      /\ last + 1 \in Nat /\ \A s \in starts : s <= last + 1
  BY DEF DataInv, ShellAssumption
<1>2. ActiveSegment \in starts
  BY <1>1, GreatestOfBounded DEF ActiveSegment
<1> QED BY <1>1, <1>2 DEF Uncovered

(* What holds of the data after a step that leaves it alone.               *)
LEMMA SameData ==
    ASSUME DataInv, starts' = starts, last' = last, flushed' = flushed, tables' \in Nat,
           imms' = imms, active' = active
    PROVE  DataInv'
  BY DEF DataInv

LEMMA OpenTypes ==
    ASSUME TypeInv, ShellAssumption, NEW m \in OneShots \cup {"session"}, Open(m),
           \/ m # "session" /\ UNCHANGED <<flusher, compactor, server>>
           \/ /\ m = "session" /\ flusher' = "idle" /\ compactor' = "idle"
              /\ http' \in {"off", "loop"} /\ listening' = (http' # "off")
    PROVE  TypeInv'
<1>1. /\ mode = "none" /\ main = "off" /\ flusher = "off" /\ creator = "nobody"
      /\ mode' = m /\ main' = "ready" /\ UNCHANGED disk
      /\ UNCHANGED <<previous, graceful, creator, published, late, said, failures>>
  BY DEF Open, TypeInv, FlushInv, ControlTypes
<1>2. DataInv'
  <2>1. imms' = Rebuilt /\ active' = Replayed - Rotations * MemtableMax
    BY DEF Open
  <2>2. /\ Rebuilt \in Seq(1 .. MaxWrites) /\ Len(Rebuilt) <= MaxImmutables
        /\ \A i \in DOMAIN Rebuilt : Rebuilt[i] <= last
        /\ Replayed - Rotations * MemtableMax \in Nat
    BY RebuiltFits DEF TypeInv
  <2> QED BY <1>1, <2>1, <2>2 DEF TypeInv, DataInv, disk
<1>3. ControlTypes'
  BY <1>1 DEF TypeInv, ControlTypes, disk, server
<1>4. FlushInv'
  BY <1>1 DEF FlushInv, OneShots
<1> QED BY <1>2, <1>3, <1>4 DEF TypeInv

LEMMA ToldTypes ==
    ASSUME ControlTypes
    PROVE  \A advice \in {"nothing", "retry", "flush-now", "compaction-run", "compaction-resume"} :
              Told(advice) \in {"nothing", "retry", "flush-now", "compaction-run", "compaction-resume"}
  BY DEF ControlTypes, Told

LEMMA PutTypes ==
    ASSUME TypeInv, ShellAssumption, Put
    PROVE  TypeInv'
<1>1. /\ last < MaxWrites /\ last' = last + 1 /\ main \in {"ready", "stalled"} /\ main' = Done
      /\ UNCHANGED <<flushed, tables, paused, mode, previous, graceful>>
      /\ UNCHANGED workers /\ UNCHANGED server /\ UNCHANGED failures
      /\ said' = Told("nothing")
      /\ \/ /\ starts' = starts \cup {last + 2} /\ imms' = <<last + 1>> \o imms /\ active' = 0
            /\ Len(imms) < MaxImmutables
         \/ /\ starts' = starts /\ imms' = imms /\ active' = active + 1
  <2>1. last \in Nat
    BY DEF TypeInv, DataInv
  <2>2. Rolled(last + 1) = starts \cup {last + 2}
    BY <2>1 DEF Rolled
  <2> QED BY <2>2 DEF Put, Command
<1>2. /\ last \in Nat /\ MaxWrites \in Nat /\ flushed \in 0 .. last /\ active \in Nat
      /\ tables \in Nat /\ IsQueue(imms, MaxWrites, last)
      /\ Len(imms) <= MaxImmutables /\ MaxImmutables \in Nat
  BY DEF TypeInv, DataInv, ShellAssumption, IsQueue
<1>3. /\ IsQueue(imms', MaxWrites, last') /\ Len(imms') <= MaxImmutables
      /\ imms # <<>> => imms' # <<>>
  <2>1. /\ IsQueue(imms, MaxWrites, last + 1) /\ Len(imms) \in Nat
        /\ IsQueue(<<last + 1>> \o imms, MaxWrites, last + 1)
        /\ Len(<<last + 1>> \o imms) = Len(imms) + 1 /\ <<last + 1>> \o imms # <<>>
    BY <1>1, <1>2, PushedQueue
  <2>2. CASE imms' = imms
    BY <2>1, <2>2, <1>1, <1>2
  <2>3. CASE imms' = <<last + 1>> \o imms /\ Len(imms) < MaxImmutables
    <3> DEFINE l == <<last + 1>> \o imms
    <3> HIDE DEF l
    <3>1. IsQueue(l, MaxWrites, last + 1) /\ Len(l) = Len(imms) + 1 /\ l # <<>> /\ imms' = l
      BY <2>1, <2>3 DEF l
    <3> QED BY <3>1, <2>1, <2>3, <1>1, <1>2
  <2> QED BY <1>1, <2>2, <2>3
<1>7. DataInv'
  <2>1. \A s \in starts : s \in 1 .. MaxWrites + 1 /\ s <= last + 1
    BY DEF TypeInv, DataInv
  <2>2. starts # {} /\ starts \subseteq starts' /\ \A s \in starts' : s \in starts \/ s = last + 2
    BY <1>1 DEF TypeInv, DataInv
  <2>3. ASSUME NEW s \in starts'
        PROVE  s \in 1 .. MaxWrites + 1 /\ s <= last' + 1
    BY <2>1, <2>2, <1>1, <1>2
  <2>4. last' \in 0 .. MaxWrites /\ flushed' \in 0 .. last' /\ tables' \in Nat /\ active' \in Nat
    BY <1>1, <1>2
  <2> QED BY <2>2, <2>3, <2>4, <1>3 DEF DataInv, IsQueue
<1>4. main' \in {"ready", "exit"} /\ (main' = "exit" => mode # "session")
  BY <1>1 DEF Done
<1>5. ControlTypes'
  BY <1>1, <1>4, ToldTypes DEF TypeInv, ControlTypes, workers, server
<1>6. FlushInv'
  BY <1>1, <1>3, <1>4 DEF TypeInv, FlushInv, ControlTypes, workers
<1> QED BY <1>5, <1>6, <1>7 DEF TypeInv

LEMMA PublishTypes ==
    ASSUME TypeInv, ShellAssumption, NEW who \in {"main", "flusher"}, Publish(who)
    PROVE  TypeInv'
<1>1. /\ creator = who /\ ~published /\ published'
      /\ flushed' = Max({flushed, imms[Len(imms)]}) /\ tables' = tables + 1
      /\ imms' = SubSeq(imms, 1, Len(imms) - 1)
      /\ UNCHANGED <<starts, last, paused, mode, active, flusher, compactor, creator, late, said,
                     failures>>
      /\ UNCHANGED mains /\ UNCHANGED server
  BY DEF Publish
<1>2. /\ imms # <<>> /\ last \in Nat /\ MaxWrites \in Nat /\ MaxImmutables \in Nat
      /\ IsQueue(imms, MaxWrites, last) /\ Len(imms) <= MaxImmutables
  BY <1>1 DEF TypeInv, FlushInv, DataInv, ShellAssumption, IsQueue
<1>3. /\ imms[Len(imms)] \in 0 .. last /\ Len(imms) \in Nat
      /\ IsQueue(imms', MaxWrites, last) /\ Len(imms') \in Nat /\ Len(imms') <= Len(imms)
  BY <1>1, <1>2, PoppedQueue
<1>4. flushed' \in 0 .. last
  <2> DEFINE a == flushed
             b == imms[Len(imms)]
  <2>1. a \in 0 .. last /\ b \in 0 .. last
    BY <1>2, <1>3 DEF TypeInv, DataInv
  <2>2. flushed' = Max({a, b})
    BY <1>1
  <2> HIDE DEF a, b
  <2>3. \A x \in {a, b} : x \in Nat /\ x <= last
    BY <2>1, <1>2
  <2>4. {a, b} \in SUBSET Nat /\ {a, b} # {}
    BY <2>3
  <2>5. Max({a, b}) \in {a, b}
    BY ONLY <2>3, <2>4, <1>2, GreatestOfBounded
  <2> QED BY <2>2, <2>3, <2>5, <1>2
<1>6. DataInv'
  <2>1. Len(imms') <= MaxImmutables
    BY <1>2, <1>3
  <2> QED BY <2>1, <1>1, <1>3, <1>4 DEF TypeInv, DataInv, IsQueue
<1>7. ControlTypes'
  BY <1>1 DEF TypeInv, ControlTypes, mains, server
<1>8. FlushInv'
  BY <1>1 DEF TypeInv, FlushInv, mains
<1> QED BY <1>6, <1>7, <1>8 DEF TypeInv

(* What flush_one does to the control: it ends with a step of Return or    *)
(* Throw.                                                                  *)
LEMMA FlushTypes ==
    ASSUME TypeInv, ShellAssumption, NEW who \in {"main", "flusher"}, FlushOne(who)
    PROVE  TypeInv'
<1>1. CASE Publish(who)
  BY <1>1, PublishTypes
<1>2. CASE TakeOldest(who)
  <2>1. /\ Waiting(who) /\ imms # <<>> /\ creator' = who /\ UNCHANGED disk /\ UNCHANGED memory
        /\ UNCHANGED mains /\ UNCHANGED server
        /\ UNCHANGED <<mode, flusher, compactor, published, late, said, failures>>
    BY <1>2 DEF TakeOldest
  <2>2. DataInv'
    BY <2>1, SameData DEF TypeInv, DataInv, disk, memory
  <2>3. ControlTypes'
    BY <2>1 DEF TypeInv, ControlTypes, disk, mains, server
  <2>4. FlushInv'
    BY <2>1 DEF TypeInv, FlushInv, mains, memory, Waiting
  <2> QED BY <2>2, <2>3, <2>4 DEF TypeInv
<1>3. CASE NothingToFlush(who) \/ FlushFails(who) \/ CleanUp(who) \/ CleanUpFails(who)
  <2>1. /\ UNCHANGED <<last, flushed, tables, paused, mode, previous, graceful, compactor, late>>
        /\ UNCHANGED memory /\ UNCHANGED server
        /\ creator' = "nobody" /\ published' \in BOOLEAN
        /\ failures' \in {failures, failures + 1}
        /\ failures' = failures \/ failures < MaxFailures
        /\ said' \in {said, Told("retry")}
    BY <1>3 DEF NothingToFlush, FlushFails, CleanUp, CleanUpFails, Throw, disk, TypeInv, ControlTypes
  <2>2. starts' \subseteq starts /\ starts' # {}
    <3>1. /\ \A w : Uncovered(w) \subseteq starts /\ Uncovered(w) # {}
          /\ \A s \in starts : {x \in starts : x >= s} # {}
      BY ActiveStays DEF TypeInv
    <3>2. starts # {}
      BY DEF TypeInv, DataInv
    <3>3. CASE NothingToFlush(who) \/ FlushFails(who)
      BY <3>2, <3>3 DEF NothingToFlush, FlushFails, disk
    <3>4. CASE CleanUp(who)
      BY <3>1, <3>4 DEF CleanUp
    <3>5. CASE CleanUpFails(who)
      BY <3>1, <3>5 DEF CleanUpFails
    <3> QED BY <1>3, <3>3, <3>4, <3>5
  <2>3. DataInv'
    BY <2>1, <2>2 DEF TypeInv, DataInv, memory
  <2>4. \/ /\ who = "flusher" /\ main' = main /\ flusher' \in {"off", "idle"}
           /\ flusher = "flushing"
        \/ /\ who = "main" /\ flusher' = flusher /\ main \in {"flushing", "draining"}
           /\ \/ main' \in {"draining", "join", "flush", "auto", "ready"}
              \/ main' = "exit" /\ mode # "session"
    <3>1. \/ who = "main" /\ main \in {"flushing", "draining"}
          \/ who = "flusher" /\ flusher = "flushing"
      BY <1>3 DEF NothingToFlush, FlushFails, CleanUp, CleanUpFails, Waiting, TypeInv, FlushInv
    <3>2. CASE NothingToFlush(who) \/ CleanUp(who)
      BY <3>1, <3>2 DEF NothingToFlush, CleanUp, Return, WorkerGoesOn
    <3>3. CASE FlushFails(who) \/ CleanUpFails(who)
      BY <3>1, <3>3 DEF FlushFails, CleanUpFails, Throw, WorkerGoesOn, Done
    <3> QED BY <1>3, <3>2, <3>3
  <2>5. ControlTypes'
    <3>1. said' \in {"nothing", "retry", "flush-now", "compaction-run", "compaction-resume"}
      BY <2>1, ToldTypes DEF TypeInv, ControlTypes
    <3>2. failures' \in 0 .. MaxFailures
      BY <2>1 DEF TypeInv, ControlTypes, ShellAssumption
    <3> QED BY <2>1, <2>4, <3>1, <3>2 DEF TypeInv, ControlTypes, server
  <2>6. FlushInv'
    BY <2>1, <2>4 DEF TypeInv, FlushInv, ControlTypes, memory
  <2> QED BY <2>3, <2>5, <2>6 DEF TypeInv
<1> QED BY <1>1, <1>2, <1>3 DEF FlushOne

LEMMA TypeStep == ShellAssumption /\ TypeInv /\ [Next]_vars => TypeInv'
<1> SUFFICES ASSUME ShellAssumption, TypeInv, [Next]_vars PROVE TypeInv'
  OBVIOUS
<1>1. CASE OneShot \/ Session
  <2>1. CASE OneShot
    <3>1. PICK m \in OneShots : Open(m)
      BY <2>1 DEF OneShot
    <3>2. m # "session" /\ UNCHANGED <<flusher, compactor, server>>
      BY <2>1 DEF OneShot, OneShots
    <3> QED BY <3>1, <3>2, OpenTypes
  <2>2. CASE Session
    BY <2>2, OpenTypes DEF Session
  <2> QED BY <1>1, <2>1, <2>2
<1>2. CASE Put
  BY <1>2, PutTypes
<1>3. ASSUME NEW who \in {"main", "flusher"}, FlushOne(who) PROVE TypeInv'
  BY <1>3, FlushTypes
<1>4. CASE Exit
  <2>1. /\ main = "exit" /\ mode' = "none" /\ main' = "off" /\ imms' = <<>> /\ active' = 0
        /\ UNCHANGED disk /\ graceful' /\ late' = 0 /\ http' = "off"
        /\ UNCHANGED <<previous, flusher, compactor, creator, published, listening, said, failures>>
    BY <1>4 DEF Exit
  <2>2. DataInv'
    BY <2>1 DEF TypeInv, DataInv, disk, ShellAssumption
  <2>3. ControlTypes'
    BY <2>1 DEF TypeInv, ControlTypes, disk
  <2>4. FlushInv'
    BY <2>1 DEF TypeInv, ControlTypes, FlushInv
  <2> QED BY <2>2, <2>3, <2>4 DEF TypeInv
(* One merge leaves a table at least.                                      *)
<1>5. CanCompact => tables - FanIn + 1 \in Nat
  BY DEF CanCompact, TypeInv, DataInv, ShellAssumption
<1>6. CASE \/ PutRefused \/ PutStalls \/ StartFlush \/ NextMemtable \/ AutoCompact \/ EndOfFlush
           \/ CompactionRun \/ Quit \/ Close \/ WorkersJoined
           \/ \E p \in BOOLEAN : SetCompactionPaused(p)
  <2>1. /\ UNCHANGED <<starts, last, flushed, mode, flusher, compactor, creator, published>>
        /\ UNCHANGED <<http, failures>> /\ UNCHANGED memory
    BY <1>6 DEF PutRefused, PutStalls, StartFlush, NextMemtable, AutoCompact, EndOfFlush,
                CompactionRun, Quit, Close, WorkersJoined, SetCompactionPaused,
                disk, workers, server
  <2>2. tables' \in Nat
    <3>1. tables \in Nat
      BY DEF TypeInv, DataInv
    <3> QED BY <1>5, <1>6, <3>1 DEF PutRefused, PutStalls, StartFlush, NextMemtable, AutoCompact,
                EndOfFlush, CompactionRun, Compaction, Quit, Close, WorkersJoined,
                SetCompactionPaused, disk
  <2>3. DataInv'
    BY <2>1, <2>2, SameData DEF TypeInv, memory
  <2>4. /\ main \notin {"off", "flushing", "draining"}
        /\ \/ main' \in {"ready", "stalled", "flush", "flushing", "auto", "stop", "draining", "join"}
           \/ main' = "exit" /\ mode # "session"
           \/ main' = "exit" /\ flusher = "off"
    <3>1. CASE \/ PutRefused \/ StartFlush \/ CompactionRun
               \/ \E p \in BOOLEAN : SetCompactionPaused(p)
      BY <3>1 DEF PutRefused, StartFlush, CompactionRun, SetCompactionPaused, Command, Done
    <3>2. CASE PutStalls \/ NextMemtable
      BY <3>2 DEF PutStalls, NextMemtable, Command
    <3>3. CASE AutoCompact \/ EndOfFlush
      BY <3>3 DEF AutoCompact, EndOfFlush, Done
    <3>4. CASE Quit \/ Close \/ WorkersJoined
      BY <3>4 DEF Quit, Close, WorkersJoined
    <3> QED BY <1>6, <3>1, <3>2, <3>3, <3>4
  <2>5. paused' \in BOOLEAN /\ previous' \in Nat /\ graceful' \in BOOLEAN /\ listening' \in BOOLEAN
        /\ late' \in Nat
    <3>1. /\ paused \in BOOLEAN /\ previous \in Nat /\ graceful \in BOOLEAN /\ listening \in BOOLEAN
          /\ late \in Nat /\ tables \in Nat
      BY DEF TypeInv, ControlTypes, DataInv
    <3>2. CASE PutRefused \/ PutStalls \/ StartFlush \/ NextMemtable \/ CompactionRun \/ Close
               \/ WorkersJoined
      BY <3>1, <3>2 DEF PutRefused, PutStalls, StartFlush, NextMemtable, CompactionRun, Close,
                        WorkersJoined, disk, workers, server
    <3>3. CASE AutoCompact \/ EndOfFlush
      BY <3>1, <3>3 DEF AutoCompact, EndOfFlush, disk, workers, server
    <3>4. CASE Quit
      BY <3>1, <3>4 DEF Quit, disk, workers
    <3>5. ASSUME NEW p \in BOOLEAN, SetCompactionPaused(p)
          PROVE  /\ paused' \in BOOLEAN /\ previous' \in Nat /\ graceful' \in BOOLEAN
                 /\ listening' \in BOOLEAN /\ late' \in Nat
      <4>1. paused' = p /\ p \in BOOLEAN
        BY <3>5 DEF SetCompactionPaused, Flag
      <4>2. paused' \in BOOLEAN
        BY ONLY <4>1, Zenon
      <4> QED BY <3>1, <3>5, <4>2 DEF SetCompactionPaused, server
    <3> QED BY <1>6, <3>2, <3>3, <3>4, <3>5
  <2>6. said' \in {"nothing", "retry", "flush-now", "compaction-run", "compaction-resume"}
    <3>1. /\ said \in {"nothing", "retry", "flush-now", "compaction-run", "compaction-resume"}
          /\ ControlTypes
      BY DEF TypeInv, ControlTypes
    <3>2. said' \in {said, Told("flush-now"), Told("compaction-run"), Told("compaction-resume"),
                     Told("retry")}
      BY <1>6 DEF PutRefused, PutStalls, StartFlush, NextMemtable, AutoCompact, EndOfFlush,
                  CompactionRun, Quit, Close, WorkersJoined, SetCompactionPaused
    <3> QED BY <3>1, <3>2, ToldTypes
  <2>7. ControlTypes'
    BY <2>1, <2>4, <2>5, <2>6 DEF TypeInv, ControlTypes
  <2>8. FlushInv'
    BY <2>1, <2>4 DEF TypeInv, FlushInv, memory
  <2> QED BY <2>3, <2>7, <2>8 DEF TypeInv
<1>7. CASE FlusherWakes \/ Decide \/ Begin \/ CompactorRuns \/ Stop
  <2>1. /\ UNCHANGED <<starts, last, flushed, paused, mode, creator, published, said, failures>>
        /\ UNCHANGED memory /\ UNCHANGED mains /\ UNCHANGED server
    BY <1>7 DEF FlusherWakes, Decide, Begin, CompactorRuns, Compaction, Stop, disk
  <2>2. tables' \in Nat /\ late' \in Nat
    <3>1. tables \in Nat /\ late \in Nat
      BY DEF TypeInv, DataInv, ControlTypes
    <3> QED BY <1>5, <1>7, <3>1 DEF FlusherWakes, Decide, Begin, CompactorRuns, Compaction, Stop,
                                    disk
  <2>3. DataInv'
    BY <2>1, <2>2, SameData DEF TypeInv, memory
  <2>4. /\ \/ flusher' = flusher
           \/ flusher = "idle" /\ flusher' \in {"off", "flushing"}
        /\ compactor' \in {compactor, "idle", "decided", "running", "off"}
    <3>1. CASE FlusherWakes \/ Stop
      BY <3>1 DEF FlusherWakes, Stop
    <3>2. CASE Decide \/ Begin
      BY <3>2 DEF Decide, Begin
    <3>3. CASE CompactorRuns
      BY <3>3 DEF CompactorRuns
    <3> QED BY <1>7, <3>1, <3>2, <3>3
  <2>5. ControlTypes'
    BY <2>1, <2>2, <2>4 DEF TypeInv, ControlTypes, mains, server
  <2>6. FlushInv'
    BY <2>1, <2>4 DEF TypeInv, FlushInv, mains, memory
  <2> QED BY <2>3, <2>5, <2>6 DEF TypeInv
<1>8. CASE Server \/ Client \/ UNCHANGED vars
  <2>1. /\ UNCHANGED disk /\ UNCHANGED memory /\ UNCHANGED mains /\ UNCHANGED workers
        /\ UNCHANGED <<mode, listening, said, failures>>
        /\ http' \in {http, "accept", "done", "receive", "serve", "send", "loop"}
    BY <1>8 DEF Server, Client, CallAccept, Connect, Receive, Handle, Respond, vars, server
  <2>2. DataInv'
    BY <2>1, SameData DEF TypeInv, DataInv, disk, memory
  <2>3. ControlTypes'
    BY <2>1 DEF TypeInv, ControlTypes, disk, mains, workers
  <2>4. FlushInv'
    BY <2>1 DEF TypeInv, FlushInv, mains, memory, workers
  <2> QED BY <2>2, <2>3, <2>4 DEF TypeInv
<1> QED BY <1>1, <1>2, <1>3, <1>4, <1>6, <1>7, <1>8 DEF Next, Main, FlushWorker

(* Engine::open, put, rotate, flush_one, the compactions and close, on any *)
(* directory the commands of main.cpp leave behind: rotation and replay    *)
(* respect max_immutable_tables, and the watermark never passes the log.   *)
THEOREM TypeOKHolds == Spec => []TypeOK
<1>1. Init => TypeInv
  <2> SUFFICES ASSUME Init PROVE TypeInv
    OBVIOUS
  <2>1. /\ <<>> \in Seq(1 .. MaxWrites) /\ Len(<<>>) = 0 /\ DOMAIN <<>> = {}
        /\ MaxWrites \in Nat /\ MaxImmutables \in Nat /\ MaxFailures \in Nat
    BY ShellAssumption DEF ShellAssumption
  <2>2. /\ starts = {1} /\ last = 0 /\ flushed = 0 /\ tables = 0 /\ imms = <<>> /\ active = 0
    BY DEF Init
  <2>3. DataInv
    BY <2>1, <2>2 DEF DataInv
  <2>4. ControlTypes
    <3>1. paused \in BOOLEAN /\ graceful \in BOOLEAN /\ published \in BOOLEAN /\ listening \in BOOLEAN
      BY Zenon DEF Init
    <3>2. /\ mode = "none" /\ main = "off" /\ previous = 0 /\ flusher = "off" /\ compactor = "off"
          /\ creator = "nobody" /\ http = "off" /\ said = "nothing" /\ late = 0 /\ failures = 0
      BY DEF Init
    <3> QED BY <2>1, <3>1, <3>2 DEF ControlTypes
  <2>5. FlushInv
    BY DEF Init, FlushInv
  <2> QED BY <2>3, <2>4, <2>5 DEF TypeInv
<1>2. TypeInv => TypeOK
  BY DEF TypeInv, DataInv, ControlTypes, TypeOK
<1> QED BY <1>1, <1>2, TypeStep, ShellAssumption, PTL DEF Spec
=============================================================================
