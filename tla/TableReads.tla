------------------------------ MODULE TableReads ------------------------------
(***************************************************************************)
(* Threads inside TableReader::get: each locks the handle of a table,      *)
(* opens its file if need be, loads what is not yet pinned in memory, and  *)
(* fetches one data block through the BlockCache all tables share.         *)
(*                                                                         *)
(* Simplifications:                                                        *)
(*  - what is in a block and where a key is looked for is in SstFile; here *)
(*    a get is for some block, and may end early wherever the key turns    *)
(*    out to be absent;                                                    *)
(*  - any read may fail, for good or once: fopen, a short read, a wrong    *)
(*    checksum or magic number all throw;                                  *)
(*  - opening a file makes FdPool close others that nobody has locked;     *)
(*    which ones, and the pool's list, is in Reads;                        *)
(*  - reading past the end of a buffer is undefined: the model stops.      *)
(***************************************************************************)
EXTENDS Integers, Sequences, FiniteSets, FiniteSetsExt, SequencesExt

CONSTANTS Threads,
          Tables,          \* ids
          Startup,         \* tables in the manifest when open() ran
          Offsets,         \* of data blocks in their file
          Size,            \* bytes of a block
          Capacity,        \* block_cache_mb, in bytes
          PinIndex         \* cache_index_blocks

Block == Tables \X Offsets

ASSUME TableReadsAssumption ==
    /\ Startup \subseteq Tables
    /\ Size \in [Block -> Nat \ {0}] /\ Capacity \in Nat
    /\ PinIndex \in BOOLEAN

VARIABLES
    file,       \* handles with file_ # nullptr
    footer, bloom, index,   \* handles that have theirs in memory
    lru,        \* BlockCache::lru_, the most recently used first
    map,        \* BlockCache::map_: key -> block
    used,       \* BlockCache::used_
    get,        \* per thread: where its get() is
    recent,     \* history: blocks fetched, the last one first
    broken      \* undefined behaviour

handles == <<file, footer, bloom, index>>
cache == <<lru, map, used, recent>>
vars == <<handles, cache, get, broken>>

NoBlock == <<>>
NoGet == [pc |-> "idle", key |-> NoBlock, block |-> NoBlock]

(* Engine::open has validated the footers of the tables it found: an       *)
(* invalid one makes it throw.                                             *)
ForgetFooter == {}                                 \* mistake: not kept
validate_footer == Startup

Init ==
    /\ file = {} /\ footer = validate_footer /\ bloom = {} /\ index = {}
    /\ lru = <<>> /\ map = [k \in {} |-> NoBlock] /\ used = 0 /\ recent = <<>>
    /\ get = [r \in Threads |-> NoGet]
    /\ broken = FALSE

-----------------------------------------------------------------------------
Table(r) == get[r].key[1]
At(r, pc) == ~broken /\ get[r].pc = pc
Go(r, pc) == get' = [get EXCEPT ![r].pc = pc]

(* io_mutex_ is held by a lock_guard for all of get() after the range      *)
(* check, whichever way it ends.                                           *)
HeldToTheBlock == {"open", "footer", "bloom", "index", "find"}  \* mistake
Locked == {"open", "footer", "bloom", "index", "find", "read", "insert", "scan", "thrown"}
Holds(r, t) == get[r].pc \in Locked /\ Table(r) = t
Free(t) == \A r \in Threads : ~Holds(r, t)

StillLocked(r) == Go(r, "thrown")                  \* mistake: no lock_guard
Return(r) == get' = [get EXCEPT ![r] = NoGet]
Throw(r) == Return(r)

Call(r, k) ==
    /\ At(r, "idle")
    /\ get' = [get EXCEPT ![r] = [NoGet EXCEPT !.pc = "lock", !.key = k]]
    /\ UNCHANGED <<handles, cache, broken>>

Lock(r) ==
    /\ At(r, "lock") /\ Free(Table(r))
    /\ Go(r, "open")
    /\ UNCHANGED <<handles, cache, broken>>

-----------------------------------------------------------------------------
(* ensure_open                                                             *)

AlreadyOpen(r) ==
    /\ At(r, "open") /\ Table(r) \in file
    /\ Go(r, "bloom")
    /\ UNCHANGED <<handles, cache, broken>>

OpenFails(r) ==
    /\ At(r, "open") /\ Table(r) \notin file
    /\ Throw(r)
    /\ UNCHANGED <<handles, cache, broken>>

(* FdPool::on_open closes victims by try_close_file.                       *)
Open(r) ==
    /\ At(r, "open") /\ Table(r) \notin file
    /\ \E victims \in SUBSET {t \in file : Free(t)} :
          file' = (file \ victims) \cup {Table(r)}
    /\ Go(r, IF Table(r) \in footer THEN "bloom" ELSE "footer")
    /\ UNCHANGED <<footer, bloom, index, cache, broken>>

LoadFooter(r) ==
    /\ At(r, "footer")
    /\ footer' = footer \cup {Table(r)}
    /\ Go(r, "bloom")
    /\ UNCHANGED <<file, bloom, index, cache, broken>>

(* The file stays open, and ensure_open will not come here again.          *)
LoadFooterFails(r) ==
    /\ At(r, "footer")
    /\ Throw(r)
    /\ UNCHANGED <<handles, cache, broken>>

-----------------------------------------------------------------------------
(* The filter and the index                                                *)

HaveBloom(r) ==
    /\ At(r, "bloom") /\ Table(r) \in bloom
    /\ Go(r, "index")
    /\ UNCHANGED <<handles, cache, broken>>

LoadBloom(r) ==
    /\ At(r, "bloom") /\ Table(r) \in footer \ bloom
    /\ bloom' = bloom \cup {Table(r)}
    /\ Go(r, "index")
    /\ UNCHANGED <<file, footer, index, cache, broken>>

LoadBloomFails(r) ==
    /\ At(r, "bloom") /\ Table(r) \in footer \ bloom
    /\ Throw(r)
    /\ UNCHANGED <<handles, cache, broken>>

(* filter_size_ is still zero: the checksum runs over filter_size_ - 4     *)
(* bytes of an empty buffer.                                               *)
LoadBloomWithoutFooter(r) ==
    /\ At(r, "bloom") /\ Table(r) \notin footer
    /\ broken' = TRUE
    /\ UNCHANGED <<handles, cache, get>>

LoadIndex(r) ==
    /\ At(r, "index")
    /\ index' = IF PinIndex THEN index \cup {Table(r)} ELSE index
    /\ Go(r, "find")
    /\ UNCHANGED <<file, footer, bloom, cache, broken>>

LoadIndexFails(r) ==
    /\ At(r, "index") /\ Table(r) \notin index
    /\ Throw(r)
    /\ UNCHANGED <<handles, cache, broken>>

(* The filter, the index or the entries of the block say there is no such  *)
(* key; or it is found.                                                    *)
Answer(r) ==
    /\ At(r, "index") \/ At(r, "find") \/ At(r, "scan")
    /\ Return(r)
    /\ UNCHANGED <<handles, cache, broken>>

-----------------------------------------------------------------------------
(* BlockCache, under its own mutex                                         *)

KeyWithoutTable(k) == <<CHOOSE t \in Tables : TRUE, k[2]>>  \* mistake
CacheKey(k) == k                                   \* {table_id, offset}

MovedToFront(seq, k) == <<k>> \o RemoveFirst(seq, k)
LeftInPlace(seq, k) == seq                         \* mistake: no splice
Spliced(seq, k) == MovedToFront(seq, k)

Find(r) ==
    LET k == CacheKey(get[r].key) IN
    /\ At(r, "find")
    /\ IF k \in DOMAIN map
       THEN /\ lru' = Spliced(lru, k)
            /\ recent' = MovedToFront(recent, get[r].key)
            /\ get' = [get EXCEPT ![r].pc = "scan", ![r].block = map[k]]
       ELSE /\ Go(r, "read")
            /\ UNCHANGED <<lru, recent>>
    /\ UNCHANGED <<handles, map, used, broken>>

(* The block of this table's file, checked.                                *)
ReadBlock(r) ==
    /\ At(r, "read")
    /\ get' = [get EXCEPT ![r].pc = "insert", ![r].block = get[r].key]
    /\ UNCHANGED <<handles, cache, broken>>

ReadBlockFails(r) ==
    /\ At(r, "read")
    /\ Throw(r)
    /\ UNCHANGED <<handles, cache, broken>>

Bytes(m, S) == MapThenSumSet(LAMBDA k : Size[m[k]], S)

(* insert's loop: used_ goes down from the back until it fits.             *)
NotSubtracted(m, S) == 0                           \* mistake: used_ only grows
Freed(m, S) == Bytes(m, S)

Insert(r) ==
    LET k == CacheKey(get[r].key)
        m == [x \in DOMAIN map \cup {k} |-> IF x = k THEN get[r].block ELSE map[x]]
        list == <<k>> \o lru
        Evicted(n) == Range(SubSeq(list, n + 1, Len(list)))
        UsedBy(n) == used + Size[get[r].block] - Freed(m, Evicted(n))
        n == Max({0} \cup {i \in DOMAIN list : UsedBy(i) <= Capacity})
    IN
    /\ At(r, "insert")
    /\ IF k \in DOMAIN map
       THEN UNCHANGED <<lru, map, used>>
       ELSE /\ lru' = SubSeq(list, 1, n)
            /\ map' = [x \in DOMAIN m \ Evicted(n) |-> m[x]]
            /\ used' = UsedBy(n)
    /\ recent' = MovedToFront(recent, get[r].key)
    /\ Go(r, "scan")
    /\ UNCHANGED <<handles, broken>>

-----------------------------------------------------------------------------
Inside(r) == \/ AlreadyOpen(r) \/ OpenFails(r) \/ Open(r)
             \/ LoadFooter(r) \/ LoadFooterFails(r)
             \/ HaveBloom(r) \/ LoadBloom(r) \/ LoadBloomFails(r)
             \/ LoadBloomWithoutFooter(r)
             \/ LoadIndex(r) \/ LoadIndexFails(r)
             \/ Find(r) \/ ReadBlock(r) \/ ReadBlockFails(r) \/ Insert(r)
             \/ Answer(r)

Next == \E r \in Threads : \/ \E k \in Block : Call(r, k)
                           \/ Lock(r)
                           \/ Inside(r)

Spec == Init /\ [][Next]_vars
FairSpec == Spec /\ \A r \in Threads : WF_vars(Inside(r))

-----------------------------------------------------------------------------
(* Properties.                                                             *)

(* The list, the map and the byte count of the cache tell the same story,  *)
(* and the cache keeps to its capacity, whatever was inserted or evicted.  *)
CacheAgrees ==
    /\ IsInjective(lru) /\ Range(lru) = DOMAIN map
    /\ used = Bytes(map, DOMAIN map)
    /\ used <= Capacity

(* A thread that searches a block has the block it asked for, of its own   *)
(* table, whichever thread put it into the cache.                          *)
BlocksAreTheirs == \A r \in Threads : get[r].pc = "scan" => get[r].block = get[r].key

(* Least recently used goes first: as long as a block and all that was     *)
(* used after it fit into the cache, it is not read from disk again.       *)
UsedSince(i) == {recent[j] : j \in 1 .. i}
TotalSize(S) == MapThenSumSet(LAMBDA k : Size[k], S)
WarmBlocksStay ==
    \A i \in DOMAIN recent : TotalSize(UsedSince(i)) <= Capacity => recent[i] \in DOMAIN map

(* Two threads never read the same block from disk at the same time, and   *)
(* none inserts what is already in the cache: the lock of the handle       *)
(* covers the lookup, the read and the insertion.                          *)
NoBlockReadTwice ==
    \A r \in Threads :
        get[r].pc \in {"read", "insert"} =>
            /\ get[r].key \notin DOMAIN map
            /\ \A q \in Threads \ {r} :
                  get[q].pc \in {"read", "insert"} => get[q].key # get[r].key

(* "The request fails, the process does not crash": after a failed read    *)
(* of the footer the handle is left open without one, and the next get     *)
(* runs past a buffer; but never on a table whose footer open() validated. *)
StartupTablesAreSafe ==
    broken => \E r \in Threads : get[r].pc = "bloom" /\ Table(r) \notin Startup \cup footer

(* However a get ends, the handle's lock is free again.                    *)
LocksAreReleased == \A t \in Tables : ~Free(t) ~> (Free(t) \/ broken)
=============================================================================
