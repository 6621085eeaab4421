------------------------------- MODULE SstFile -------------------------------
(***************************************************************************)
(* One SSTable: write_sstable lays the entries of a memtable out in blocks *)
(* with restart points, an index and a Bloom filter; TableReader::get then *)
(* finds a key by range check, filter, index search, binary search over    *)
(* the restart points and a scan.  Each loop is a state machine, one step  *)
(* per iteration.                                                          *)
(*                                                                         *)
(* Simplifications:                                                        *)
(*  - a key is a number (its place in the byte order of all strings);      *)
(*  - an entry is [key, val], val standing for value, seqNo and flags; its *)
(*    size in bytes is a function of val; offsets inside a block are       *)
(*    counted in entries, from 1; offsets in the file in bytes;            *)
(*  - nothing fails: errors and crashes while a table is written are in    *)
(*    Engine, failing reads in TableReads;                                 *)
(*  - std::upper_bound is modelled by what it promises.                    *)
(***************************************************************************)
EXTENDS Integers, Sequences, FiniteSets, SequencesExt

CONSTANTS Keys,
          Payloads,          \* what an entry may hold
          NotFound,          \* get() returned nullopt
          Bytes,             \* size of an entry, by payload
          RestartIntervals, BlockSizes,  \* values config may give them
          NumHashes,         \* num_hashes of the Bloom filter, and
          NumBits,           \* num_bits by number of entries: BloomBuilder
          Hash1, Hash2,      \* fnv1a(key, 0), fnv1a(key, 0x9E37...) | 1
          Word               \* hashes are computed modulo this, 2^64

ASSUME SstAssumption ==
    /\ Keys \subseteq Nat
    /\ NotFound \notin Payloads
    /\ Bytes \in [Payloads -> Nat \ {0}]
    /\ RestartIntervals \subseteq Nat \ {0} /\ BlockSizes \subseteq Nat
    /\ NumHashes \in Nat \ {0} /\ Word \in Nat \ {0}
    /\ Hash1 \in [Keys -> Nat] /\ Hash2 \in [Keys -> Nat]

VARIABLES
    cfg,        \* restart_interval and block_size
    mem,        \* the memtable: key -> payload
    rest,       \* its keys that are still to be written
    block,      \* the data block being built
    disk,       \* data blocks of the file, by offset
    index,      \* index entries
    offset,     \* file_offset
    bits,       \* the bits set in the filter
    meta,       \* min_key and max_key, which go to the manifest
    pc, key, at, lo, hi, pos, result   \* get(): the block it is in, the
                                       \* restarts left [lo, hi), the entry

fileVars == <<cfg, mem, rest, block, disk, index, offset, bits, meta>>
getVars == <<pc, key, at, lo, hi, pos, result>>
vars == <<fileVars, getVars>>

EmptyBlock == [entries |-> <<>>, restarts |-> <<>>, bytes |-> 0]

Init ==
    /\ cfg \in [restart : RestartIntervals, block : BlockSizes]
    /\ \E S \in SUBSET Keys : S # {} /\ IsFiniteSet(S) /\ mem \in [S -> Payloads]
    /\ rest = DOMAIN mem
    /\ block = EmptyBlock /\ disk = [o \in {} |-> EmptyBlock] /\ index = <<>>
    /\ offset = 0 /\ bits = {} /\ meta = [min |-> 0, max |-> 0]
    /\ pc = "write" /\ key = 0 /\ at = 0
    /\ lo = 0 /\ hi = 0 /\ pos = 0 /\ result = NotFound

-----------------------------------------------------------------------------
(* write_sstable()                                                         *)

(* The bits it sets for a key, in 64-bit arithmetic: BloomBuilder::add.    *)
Probe(k, i) == ((Hash1[k] + i * Hash2[k]) % Word) % NumBits[Cardinality(DOMAIN mem)]
Probes(k) == {Probe(k, i) : i \in 0 .. NumHashes - 1}

(* A restart point before every restart_interval-th entry of the block.    *)
RestartsWith(b) ==
    IF Len(b.entries) % cfg.restart = 0
    THEN Append(b.restarts, Len(b.entries) + 1) ELSE b.restarts

Extended(b, e) ==
    [entries |-> Append(b.entries, e),
     restarts |-> RestartsWith(b),
     bytes |-> b.bytes + Bytes[e.val]]

(* The entries, then the restart offsets, their number and the checksum.   *)
EntriesOnly(b) == b.bytes                          \* mistake: no trailer
SizeOf(b) == b.bytes + 4 * Len(b.restarts) + 8

FinishBlock(b) ==
    /\ disk' = [o \in DOMAIN disk \cup {offset} |-> IF o = offset THEN b ELSE disk[o]]
    /\ index' = Append(index, [first |-> b.entries[1].key,
                               offset |-> offset, size |-> SizeOf(b)])
    /\ offset' = offset + SizeOf(b)
    /\ block' = EmptyBlock

WriteEntry(k) ==
    /\ pc = "write"
    /\ k \in rest /\ \A j \in rest : k <= j
    /\ LET b == Extended(block, [key |-> k, val |-> mem[k]]) IN
          IF b.bytes >= cfg.block
          THEN FinishBlock(b)
          ELSE block' = b /\ UNCHANGED <<disk, index, offset>>
    /\ rest' = rest \ {k}
    /\ bits' = bits \cup Probes(k)
    /\ meta' = [meta EXCEPT !.max = k]
    /\ UNCHANGED <<cfg, mem, getVars>>

(* The last block, the index, the filter and the footer; then the rename.  *)
FullOnly == block.bytes >= cfg.block               \* mistake: drops the rest
BlockLeft == block.entries # <<>>

FinishFile ==
    /\ pc = "write" /\ rest = {}
    /\ IF BlockLeft
       THEN FinishBlock(block)
       ELSE UNCHANGED <<block, disk, index, offset>>
    /\ \E k \in DOMAIN mem : /\ \A j \in DOMAIN mem : k <= j
                             /\ meta' = [meta EXCEPT !.min = k]
    /\ pc' = "ready"
    /\ UNCHANGED <<cfg, mem, rest, bits, key, at, lo, hi, pos, result>>

-----------------------------------------------------------------------------
(* TableReader::get()                                                      *)

InRange(k) == meta.min <= k /\ k <= meta.max

(* bloom_may_contain computes the bits once more, on its own.              *)
AskedBitUnwrapped(k, i) ==                         \* mistake: wider than the writer's
    (Hash1[k] + i * Hash2[k]) % NumBits[Cardinality(DOMAIN mem)]
AskedBit(k, i) == ((Hash1[k] + i * Hash2[k]) % Word) % NumBits[Cardinality(DOMAIN mem)]
MayContain(k) == \A i \in 0 .. NumHashes - 1 : AskedBit(k, i) \in bits

Ask(k) ==
    /\ pc \in {"ready", "answered"}
    /\ key' = k
    /\ result' = NotFound
    /\ pc' = IF InRange(k) /\ MayContain(k) THEN "index" ELSE "answered"
    /\ UNCHANGED <<fileVars, at, lo, hi, pos>>

(* std::upper_bound: the first index entry whose first_key is greater.     *)
UpperBound(k) == {it \in 1 .. Len(index) + 1 :
                    \A i \in DOMAIN index : index[i].first <= k <=> i < it}

BlockAt(i) == disk[index[i].offset]

SearchIndex ==
    /\ pc = "index"
    /\ \E it \in UpperBound(key) :
          IF it = 1
          THEN pc' = "answered" /\ UNCHANGED <<at, lo, hi>>
          ELSE /\ pc' = "restarts"
               /\ at' = it - 1
               /\ lo' = 1 /\ hi' = Len(BlockAt(it - 1).restarts) + 1
    /\ UNCHANGED <<fileVars, key, pos, result>>

KeyAt(n) == BlockAt(at).entries[n].key
RestartOf(n) == BlockAt(at).restarts[n]
MiddleBefore == lo + (hi - lo - 1) \div 2         \* mistake: may be lo itself
Middle == lo + (hi - lo) \div 2

(* Greatest restart whose key is not above the one looked for.             *)
StartsBefore(n) == KeyAt(RestartOf(n)) <= key

Narrow ==
    /\ pc = "restarts" /\ hi - lo > 1
    /\ IF StartsBefore(Middle)
       THEN lo' = Middle /\ UNCHANGED hi
       ELSE hi' = Middle /\ UNCHANGED lo
    /\ UNCHANGED <<fileVars, pc, key, at, pos, result>>

StartScan ==
    /\ pc = "restarts" /\ hi - lo <= 1
    /\ pos' = RestartOf(lo)
    /\ pc' = "scan"
    /\ UNCHANGED <<fileVars, key, at, lo, hi, result>>

PastBlock == pos > Len(BlockAt(at).entries)

ScanOn ==
    /\ pc = "scan" /\ ~PastBlock /\ KeyAt(pos) < key
    /\ pos' = pos + 1
    /\ UNCHANGED <<fileVars, pc, key, at, lo, hi, result>>

Hit ==
    /\ pc = "scan" /\ ~PastBlock /\ KeyAt(pos) = key
    /\ result' = BlockAt(at).entries[pos].val
    /\ pc' = "answered"
    /\ UNCHANGED <<fileVars, key, at, lo, hi, pos>>

Miss ==
    /\ pc = "scan" /\ (~PastBlock => KeyAt(pos) > key)
    /\ pc' = "answered"
    /\ UNCHANGED <<fileVars, key, at, lo, hi, pos, result>>

-----------------------------------------------------------------------------
(* scan_sstable(): what it hands to its callback, block after block.       *)
Scanned == FlattenSeq([i \in DOMAIN index |-> BlockAt(i).entries])

-----------------------------------------------------------------------------
Build == FinishFile \/ \E k \in rest : WriteEntry(k)
Get == \/ \E k \in Keys : Ask(k)
       \/ SearchIndex \/ Narrow \/ StartScan \/ ScanOn \/ Hit \/ Miss

Next == Build \/ Get

Spec == Init /\ [][Next]_vars
FairSpec == Spec /\ WF_vars(SearchIndex \/ Narrow \/ StartScan \/ ScanOn \/ Hit \/ Miss)

-----------------------------------------------------------------------------
(* Properties.                                                             *)

(* get() on a table returns the entry its memtable had for the key, and    *)
(* nothing for any other key: no entry is lost between blocks, behind a    *)
(* restart point or to the filter, wherever block_size and                 *)
(* restart_interval happen to cut.                                         *)
Expected(k) == IF k \in DOMAIN mem THEN mem[k] ELSE NotFound
LookupIsExact == pc = "answered" => result = Expected(key)

(* scan_sstable, walking the index, delivers every entry once and in key   *)
(* order: what compaction merges is what was flushed.                      *)
ScanDeliversAll ==
    pc # "write" =>
        /\ Range(Scanned) = {[key |-> k, val |-> mem[k]] : k \in DOMAIN mem}
        /\ \A i, j \in DOMAIN Scanned : i < j => Scanned[i].key < Scanned[j].key

(* The readers find the trailer of a block from its size in the index:     *)
(* blocks lie in a row up to the index block, and where a reader takes the *)
(* entries of one to end is where the last of them does end.               *)
EntriesEnd(i) == index[i].size - 8 - 4 * Len(BlockAt(i).restarts)
SizeOfEntries(b) == FoldLeft(LAMBDA n, e : n + Bytes[e.val], 0, b.entries)
WrittenFileVerifies ==
    \A i \in DOMAIN index :
        /\ index[i].offset + index[i].size
              = IF i = Len(index) THEN offset ELSE index[i + 1].offset
        /\ BlockAt(i).restarts # <<>>
        /\ EntriesEnd(i) = SizeOfEntries(BlockAt(i))

(* A lookup that has begun comes to an answer.                             *)
LookupEnds == pc \in {"index", "restarts", "scan"} ~> pc = "answered"
=============================================================================
