-------------------------------- MODULE Reads --------------------------------
(***************************************************************************)
(* The lock-free read path of lsmkv: threads in Engine::get, each on the   *)
(* Version it grabbed, while the writer applies and rotates, flushes and   *)
(* compactions publish new Versions and delete the files they made         *)
(* obsolete, and the FdPool closes the least recently used files.          *)
(*                                                                         *)
(* Simplifications:                                                        *)
(*  - one key: write number n gives it the value n, so what a memtable or  *)
(*    a table holds is the highest n that reached it, 0 if none did;       *)
(*    deletes are values like any other;                                   *)
(*  - a memtable may be rotated at any time, even with nothing for the key *)
(*    in it, and any adjacent tables may be compacted;                     *)
(*  - a handle lives while a Version in use or the compaction that retired *)
(*    it holds a shared_ptr to it; the step that drops the last one runs   *)
(*    the destructor;                                                      *)
(*  - using a destroyed handle is undefined: the model stops there.        *)
(***************************************************************************)
EXTENDS Integers, Sequences, FiniteSets, SequencesExt

CONSTANTS Threads,        \* those that call get()
          MaxOpen         \* max_open_files

(* Bounds of the state space.                                              *)
CONSTANTS MaxWrites, MaxMemtables, MaxTables,
          MaxGets         \* per thread

ASSUME ReadsAssumption ==
    /\ IsFiniteSet(Threads) /\ MaxOpen \in Nat \ {0}
    /\ {MaxWrites, MaxMemtables, MaxTables, MaxGets} \subseteq Nat

VARIABLES
    writes,     \* writes applied so far
    mem, tab,   \* what memtable i, table i holds; the last memtable is active
    cur,        \* current_version_
    files,      \* tables whose .sst file exists
    job,        \* the retired handles of run_compaction: [todo, deferred]
    get,        \* per thread: where its get() is
    victims,    \* per thread: the handles on_open left it to close
    open,       \* tables whose handle has file_ # nullptr
    lru,        \* FdPool::lru_, most recently used first
    broken      \* a destroyed handle has been used

vars == <<writes, mem, tab, cur, files, job, get, victims, open, lru, broken>>

NoVersion == [act |-> 0, imms |-> <<>>, tabs |-> <<>>]
NoGet == [pc |-> "idle", snap |-> NoVersion, pos |-> 0,
          result |-> 0, since |-> 0, done |-> 0]

Init ==
    /\ writes = 0 /\ mem = <<0>> /\ tab = <<>>
    /\ cur = [NoVersion EXCEPT !.act = 1]
    /\ files = {}
    /\ job = [todo |-> <<>>, deferred |-> {}]
    /\ get = [r \in Threads |-> NoGet]
    /\ victims = [r \in Threads |-> <<>>]
    /\ open = {} /\ lru = <<>> /\ broken = FALSE

-----------------------------------------------------------------------------
(* Handles.                                                                *)

PinnedBy(r) == Range(get[r].snap.tabs)
Alive == Range(cur.tabs) \cup Range(job.todo) \cup job.deferred
            \cup UNION {PinnedBy(r) : r \in Threads}

(* ~TableReader for the handles this step let go: the pool forgets them    *)
(* and their files are closed.                                             *)
DestroyUnreferenced ==
    LET gone == Alive \ Alive' IN
    /\ lru' = FoldSet(LAMBDA t, list : RemoveFirst(list, t), lru, gone)
    /\ open' = open \ gone

Table(r) == get[r].snap.tabs[get[r].pos]

(* Who has a handle's io_mutex_.                                           *)
Holds(r, t) == get[r].pc \in {"open", "evict", "requeue", "read"} /\ Table(r) = t
Busy(t) == \E r \in Threads : Holds(r, t)

-----------------------------------------------------------------------------
(* The writer, the flush and the compaction.                               *)

(* apply_mutation, into the memtable every reader of this Version shares.  *)
Write ==
    /\ writes < MaxWrites
    /\ writes' = writes + 1
    /\ mem' = [mem EXCEPT ![cur.act] = writes + 1]
    /\ UNCHANGED <<tab, cur, files, job, get, victims, open, lru, broken>>

Rotate ==
    /\ Len(mem) < MaxMemtables
    /\ mem' = Append(mem, 0)
    /\ cur' = [cur EXCEPT !.act = Len(mem) + 1, !.imms = <<cur.act>> \o @]
    /\ UNCHANGED <<writes, tab, files, job, get, victims, open, lru, broken>>

NoJob == job.todo = <<>> /\ job.deferred = {}

(* The oldest immutable leaves the Version in the step its table enters.   *)
TableLast == [cur EXCEPT !.imms = Front(@), !.tabs = Append(@, Len(tab) + 1)] \* mistake
TableInstead == [cur EXCEPT !.imms = Front(@), !.tabs = <<Len(tab) + 1>> \o @]

FlushPublish ==
    /\ NoJob /\ cur.imms # <<>> /\ Len(tab) < MaxTables
    /\ tab' = Append(tab, mem[Last(cur.imms)])
    /\ files' = files \cup {Len(tab) + 1}
    /\ cur' = TableInstead
    /\ UNCHANGED <<writes, mem, job, get, victims, open, lru, broken>>

NewestOf(s) == Max({0} \cup {tab[t] : t \in Range(s)})

(* The output takes the place of the tables at positions i .. j.           *)
CompactPublish(i, j) ==
    /\ NoJob /\ Len(tab) < MaxTables
    /\ LET ins == SubSeq(cur.tabs, i, j) IN
          /\ tab' = Append(tab, NewestOf(ins))
          /\ job' = [job EXCEPT !.todo = ins]
    /\ files' = files \cup {Len(tab) + 1}
    /\ cur' = [cur EXCEPT !.tabs = SubSeq(@, 1, i - 1) \o <<Len(tab) + 1>>
                                      \o SubSeq(@, j + 1, Len(@))]
    /\ UNCHANGED <<writes, mem, get, victims, open, lru, broken>>

Compact == \E j \in DOMAIN cur.tabs : \E i \in 1 .. j - 1 : CompactPublish(i, j)

(* use_count() == 1: only the compaction refers to the handle.             *)
NotCurrent(t) == t \notin Range(cur.tabs)                           \* mistake
Unreferenced(t) == \A r \in Threads : t \notin PinnedBy(r)

(* Delete the file of the next retired handle, or leave it to startup.     *)
DeleteInput ==
    /\ job.todo # <<>>
    /\ LET t == Head(job.todo) IN
          IF Unreferenced(t)
          THEN /\ files' = files \ {t}
               /\ job' = [job EXCEPT !.todo = Tail(@)]
          ELSE /\ job' = [todo |-> Tail(job.todo), deferred |-> job.deferred \cup {t}]
               /\ UNCHANGED files
    /\ UNCHANGED <<writes, mem, tab, cur, get, victims, broken>>
    /\ DestroyUnreferenced

(* run_compaction returns.                                                 *)
FinishCompaction ==
    /\ job.todo = <<>> /\ job.deferred # {}
    /\ job' = [job EXCEPT !.deferred = {}]
    /\ UNCHANGED <<writes, mem, tab, cur, files, get, victims, broken>>
    /\ DestroyUnreferenced

-----------------------------------------------------------------------------
(* get()                                                                   *)

Step(r, g) == get' = [get EXCEPT ![r] = g]
At(r, pc) == [get[r] EXCEPT !.pc = pc]
Answer(r, n) == [get[r] EXCEPT !.pc = "done", !.result = n]

(* On to the next table of the Version, or to NotFound.                    *)
TableAt(r) == [get[r] EXCEPT !.pc = "table", !.pos = @ + 1]
OnwardTooFar(r) ==                                              \* mistake
    IF get[r].pos <= Len(get[r].snap.tabs) THEN TableAt(r) ELSE Answer(r, 0)
Onward(r) ==
    IF get[r].pos < Len(get[r].snap.tabs) THEN TableAt(r) ELSE Answer(r, 0)

Begin(r) ==
    /\ get[r].pc = "idle" /\ get[r].done < MaxGets
    /\ Step(r, [At(r, "memtables") EXCEPT !.snap = cur, !.since = writes, !.pos = 0])
    /\ UNCHANGED <<writes, mem, tab, cur, files, job, victims, open, lru, broken>>

(* The active memtable, then the immutables, which no longer change.       *)
InMemtables(v) == Max({mem[i] : i \in {v.act} \cup Range(v.imms)})

LookInMemtables(r) ==
    /\ get[r].pc = "memtables"
    /\ LET n == InMemtables(get[r].snap) IN
          Step(r, IF n # 0 THEN Answer(r, n) ELSE Onward(r))
    /\ UNCHANGED <<writes, mem, tab, cur, files, job, victims, open, lru, broken>>

(* The key is out of the table's range.                                    *)
SkipTable(r) ==
    /\ get[r].pc = "table" /\ tab[Table(r)] = 0
    /\ Step(r, Onward(r))
    /\ UNCHANGED <<writes, mem, tab, cur, files, job, victims, open, lru, broken>>

LockTable(r) ==
    /\ get[r].pc = "table" /\ ~Busy(Table(r))
    /\ Step(r, At(r, "open"))
    /\ UNCHANGED <<writes, mem, tab, cur, files, job, victims, open, lru, broken>>

(* ensure_open: touch, or fopen and FdPool::on_open, which takes what is   *)
(* beyond the budget off its list, the least recently used first.          *)
Touched(t) == IF t \in Range(lru) THEN <<t>> \o RemoveFirst(lru, t) ELSE lru
Untracked(t) == lru                      \* mistake: opened past the pool
Pushed(t) == <<t>> \o lru

OpenTable(r) ==
    /\ get[r].pc = "open"
    /\ LET t == Table(r)
           n == Min({Len(Pushed(t)), MaxOpen}) IN
          IF t \in open
          THEN /\ lru' = Touched(t)
               /\ Step(r, At(r, "read"))
               /\ UNCHANGED <<open, victims>>
          ELSE /\ t \in files
               /\ open' = open \cup {t}
               /\ lru' = SubSeq(Pushed(t), 1, n)
               /\ Step(r, At(r, "evict"))
               /\ victims' = [victims EXCEPT
                                 ![r] = Reverse(SubSeq(Pushed(t), n + 1, Len(Pushed(t))))]
    /\ UNCHANGED <<writes, mem, tab, cur, files, job, broken>>

(* try_close_file on the victims, one by one: a busy one goes back to the  *)
(* pool, in a step of its own.                                             *)
Victim(r) == Head(victims[r])
NextVictim(r) == victims' = [victims EXCEPT ![r] = Tail(@)]
Evicting(r) == get[r].pc = "evict" /\ victims[r] # <<>>

CloseVictim(r) ==
    /\ Evicting(r) /\ Victim(r) \in Alive
    /\ IF Busy(Victim(r))
       THEN Step(r, At(r, "requeue")) /\ UNCHANGED <<open, victims>>
       ELSE open' = open \ {Victim(r)} /\ NextVictim(r) /\ UNCHANGED get
    /\ UNCHANGED <<writes, mem, tab, cur, files, job, lru, broken>>

Requeue(r) ==
    /\ get[r].pc = "requeue"
    /\ lru' = Append(lru, Victim(r))
    /\ Step(r, At(r, "evict")) /\ NextVictim(r)
    /\ UNCHANGED <<writes, mem, tab, cur, files, job, open, broken>>

(* The victim was destroyed while it was on this thread's list.            *)
UseDestroyed(r) ==
    /\ Evicting(r) /\ Victim(r) \notin Alive
    /\ broken' = TRUE
    /\ UNCHANGED <<writes, mem, tab, cur, files, job, get, victims, open, lru>>

ReadTable(r) ==
    /\ get[r].pc = "read" \/ (get[r].pc = "evict" /\ victims[r] = <<>>)
    /\ LET n == tab[Table(r)] IN Step(r, IF n # 0 THEN Answer(r, n) ELSE Onward(r))
    /\ UNCHANGED <<writes, mem, tab, cur, files, job, victims, open, lru, broken>>

(* The Version is let go.                                                  *)
Return(r) ==
    /\ get[r].pc = "done"
    /\ get' = [get EXCEPT ![r] = [NoGet EXCEPT !.done = get[r].done + 1]]
    /\ UNCHANGED <<writes, mem, tab, cur, files, job, victims, broken>>
    /\ DestroyUnreferenced

GetStep(r) ==
    \/ LookInMemtables(r) \/ SkipTable(r) \/ LockTable(r) \/ OpenTable(r)
    \/ CloseVictim(r) \/ Requeue(r) \/ UseDestroyed(r) \/ ReadTable(r) \/ Return(r)

Next ==
    /\ ~broken
    /\ \/ Write \/ Rotate \/ FlushPublish \/ Compact \/ DeleteInput \/ FinishCompaction
       \/ \E r \in Threads : Begin(r) \/ GetStep(r)

Spec == Init /\ [][Next]_vars

-----------------------------------------------------------------------------
(* Properties.                                                             *)

(* Versions refer to what exists, and threads are where they can be.       *)
TypeOK ==
    /\ writes \in Nat /\ cur.act = Len(mem)
    /\ \A v \in {cur} \cup {get[r].snap : r \in Threads} :
          /\ Range(v.imms) \subseteq DOMAIN mem
          /\ Range(v.tabs) \subseteq DOMAIN tab
    /\ files \subseteq DOMAIN tab /\ open \subseteq DOMAIN tab
    /\ \A r \in Threads :
          get[r].pc \in {"table", "open", "evict", "requeue", "read"} =>
             get[r].pos \in DOMAIN get[r].snap.tabs

(* A get returns the value of some moment between its call and its return  *)
(* ("returns the latest visible value", api.md), however many rotations,   *)
(* flushes and compactions were published meanwhile: it never returns less *)
(* than what was there when it was called.                                 *)
GetIsLinearizable ==
    \A r \in Threads : get[r].pc = "done" => get[r].result \in get[r].since .. writes

(* "Inputs are deleted when no Version references them" (README): the file *)
(* of a table that a reader may still open lazily is there.                *)
PinnedFilesExist ==
    \A r \in Threads : PinnedBy(r) \cup Range(cur.tabs) \subseteq files

(* Every open file is on the pool's list exactly once, or among the        *)
(* victims of exactly one thread: none is left open for ever, and none     *)
(* takes up two places of the budget.                                      *)
Listed(t) == Cardinality({i \in DOMAIN lru : lru[i] = t})
Chosen(t) == Cardinality({r \in Threads : t \in Range(victims[r])})
OpenFilesAreTracked ==
    ~broken => \A t \in open : Listed(t) + Chosen(t) = 1

(* "shared_ptr refcounts keep an old Version (and every table it           *)
(* references) alive until its last reader lets go" (README), and a handle *)
(* "deregisters in destructor" (table_reader.hpp): no thread works on a    *)
(* handle that is gone.                                                    *)
NoDestroyedHandleUsed == ~broken
=============================================================================
