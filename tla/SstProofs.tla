------------------------------ MODULE SstProofs ------------------------------
(***************************************************************************)
(* For any keys, payloads, sizes, hash values, block_size and              *)
(* restart_interval, get() on a table returns what the memtable held       *)
(* (LookupIsExact).  The proof follows the file being built: every block   *)
(* is sorted and restarts inside itself, blocks follow one another in key  *)
(* order at offsets that are never reused, and no key is lost on the way   *)
(* from the memtable to a block; then the search: the index leads to the   *)
(* one block that may hold the key, the restart points never past it.      *)
(* From the same invariant a scan delivers the memtable in key order       *)
(* (ScanDeliversAll), and with the sums of the entries' sizes the readers  *)
(* find the end of each block's entries (WrittenFileVerifies).             *)
(***************************************************************************)
EXTENDS SstFile, CommonLemmas, TLAPS

Entry == [key : Keys, val : Payloads]
BlockType == [entries : Seq(Entry), restarts : Seq(Nat), bytes : Nat]
IndexEntry == [first : Keys, offset : Nat, size : Nat]

FileTypes ==
    /\ cfg \in [restart : Nat \ {0}, block : Nat]
    /\ DOMAIN mem \subseteq Keys /\ mem \in [DOMAIN mem -> Payloads]
    /\ rest \subseteq DOMAIN mem
    /\ block \in BlockType
    /\ DOMAIN disk \subseteq Nat /\ disk \in [DOMAIN disk -> BlockType]
    /\ index \in Seq(IndexEntry)
    /\ offset \in Nat
    /\ meta \in [min : Nat, max : Nat]

GetTypes ==
    /\ pc \in {"write", "ready", "index", "restarts", "scan", "answered"}
    /\ key \in Nat /\ at \in Nat /\ lo \in Nat /\ hi \in Nat /\ pos \in Nat
    /\ result \in Payloads \cup {NotFound}

TypeOK == FileTypes /\ GetTypes

(* Key k is in block b.                                                    *)
In(b, k) == \E n \in DOMAIN b.entries : b.entries[n].key = k

(* A block of the memtable's entries, sorted, with restarts inside it, the *)
(* first of them at its first entry.                                       *)
Good(b) ==
    /\ \A n \in DOMAIN b.entries : /\ b.entries[n].key \in DOMAIN mem
                                   /\ b.entries[n].val = mem[b.entries[n].key]
    /\ \A m, n \in DOMAIN b.entries : m < n => b.entries[m].key < b.entries[n].key
    /\ \A j \in DOMAIN b.restarts : b.restarts[j] \in DOMAIN b.entries
    /\ b.entries # <<>> => Len(b.restarts) >= 1 /\ b.restarts[1] = 1

(* Every index entry is of a good block, under its first key.              *)
IndexOK ==
    /\ \A o \in DOMAIN disk : o < offset
    /\ \A i \in DOMAIN index :
          /\ index[i].offset \in DOMAIN disk
          /\ Good(BlockAt(i)) /\ BlockAt(i).entries # <<>>
          /\ index[i].first = BlockAt(i).entries[1].key

(* Blocks, the block being built and what is left follow in key order.     *)
BlocksInOrder ==
    \A i, j \in DOMAIN index : i < j => \A k \in Keys : In(BlockAt(i), k) => k < index[j].first
BlockIsNext ==
    \A i \in DOMAIN index : \A k, m \in Keys : In(BlockAt(i), k) /\ In(block, m) => k < m
RestIsNext ==
    \A m \in rest : \A k \in Keys :
        (In(block, k) \/ \E i \in DOMAIN index : In(BlockAt(i), k)) => k < m

Complete ==
    \A k \in DOMAIN mem : k \in rest \/ In(block, k) \/ \E i \in DOMAIN index : In(BlockAt(i), k)

Announced == \A k \in DOMAIN mem \ rest : Probes(k) \subseteq bits /\ k <= meta.max

Written == pc # "write" => /\ rest = {} /\ block.entries = <<>>
                           /\ \A k \in DOMAIN mem : meta.min <= k

FileInv == /\ Good(block) /\ IndexOK /\ BlocksInOrder /\ BlockIsNext /\ RestIsNext
           /\ Complete /\ Announced /\ Written

(* The block the index led to is the only one that may hold the key, the   *)
(* restart the search is at does not lie behind it, the scan passed over   *)
(* smaller keys only.                                                      *)
AtTheBlock ==
    pc \in {"restarts", "scan"} =>
        at \in DOMAIN index /\ \A i \in DOMAIN index : index[i].first <= key <=> i <= at
NotPastTheKey ==
    pc \in {"restarts", "scan"} =>
        /\ 1 <= lo /\ lo < hi /\ hi <= Len(BlockAt(at).restarts) + 1
        /\ KeyAt(RestartOf(lo)) <= key
PassedSmaller ==
    pc = "scan" => /\ 1 <= pos
                   /\ \A n \in DOMAIN BlockAt(at).entries : n < pos => KeyAt(n) < key
NotYet == pc \in {"index", "restarts", "scan"} => result = NotFound

GetInv == AtTheBlock /\ NotPastTheKey /\ PassedSmaller /\ NotYet /\ LookupIsExact

Inv == TypeOK /\ FileInv /\ GetInv

-----------------------------------------------------------------------------
LEMMA AppendFacts ==
    ASSUME NEW S, NEW s \in Seq(S), NEW v \in S
    PROVE  /\ Append(s, v) \in Seq(S)
           /\ Len(s) \in Nat /\ DOMAIN s = 1 .. Len(s)
           /\ Len(Append(s, v)) = Len(s) + 1 /\ DOMAIN Append(s, v) = 1 .. Len(s) + 1
           /\ \A j \in 1 .. Len(s) : Append(s, v)[j] = s[j]
           /\ Append(s, v)[Len(s) + 1] = v
OBVIOUS

(* An entry above all those of a good block extends it to a good block     *)
(* that holds its key as well.                                             *)
LEMMA ExtendedIsGood ==
    ASSUME cfg \in [restart : Nat \ {0}, block : Nat], Keys \subseteq Nat,
           Bytes \in [Payloads -> Nat \ {0}],
           DOMAIN mem \subseteq Keys, mem \in [DOMAIN mem -> Payloads],
           NEW b \in BlockType, Good(b),
           NEW k \in DOMAIN mem, \A m \in Keys : In(b, m) => m < k
    PROVE  LET x == Extended(b, [key |-> k, val |-> mem[k]])
           IN  /\ x \in BlockType /\ Good(x) /\ x.entries # <<>>
               /\ \A m \in Keys : In(x, m) <=> In(b, m) \/ m = k
<1> DEFINE e == [key |-> k, val |-> mem[k]]
           x == Extended(b, e)
           L == Len(b.entries)
<1>1. /\ b.entries \in Seq(Entry) /\ b.restarts \in Seq(Nat) /\ b.bytes \in Nat
      /\ e \in Entry /\ Bytes[e.val] \in Nat /\ L \in Nat /\ cfg.restart \in Nat \ {0}
  BY DEF BlockType, Entry
<1>2. /\ x.entries = Append(b.entries, e) /\ x.restarts = RestartsWith(b)
      /\ x.bytes = b.bytes + Bytes[e.val]
  BY DEF Extended
<1>3. RestartsWith(b) \in Seq(Nat)
  <2>1. L + 1 \in Nat
    BY <1>1
  <2> QED BY <1>1, <2>1 DEF RestartsWith
<1>4. x \in BlockType
  <2>1. Append(b.entries, e) \in Seq(Entry) /\ b.bytes + Bytes[e.val] \in Nat
    <3> HIDE DEF e
    <3>1. Append(b.entries, e) \in Seq(Entry)
      BY <1>1
    <3> QED BY <1>1, <3>1
  <2> QED BY <2>1, <1>3 DEF Extended, BlockType
<1>5. /\ DOMAIN x.entries = 1 .. L + 1 /\ DOMAIN b.entries = 1 .. L
      /\ \A n \in 1 .. L : x.entries[n] = b.entries[n]
      /\ x.entries[L + 1] = e
  <2> HIDE DEF e, x
  <2> QED BY <1>1, <1>2
<1>6. \A m \in Keys : In(x, m) <=> In(b, m) \/ m = k
  <2>1. x.entries[L + 1].key = k /\ L + 1 \in 1 .. L + 1 /\ 1 .. L + 1 = (1 .. L) \cup {L + 1}
    BY <1>5, <1>1
  <2> HIDE DEF x, L, e
  <2> SUFFICES ASSUME NEW m \in Keys PROVE In(x, m) <=> In(b, m) \/ m = k
    OBVIOUS
  <2>2. In(x, m) => In(b, m) \/ m = k
    BY <2>1, <1>5 DEF In
  <2>3. In(b, m) \/ m = k => In(x, m)
    BY <2>1, <1>5 DEF In
  <2> QED BY <2>2, <2>3
<1>7. Good(x)
  <2>c. \A n \in 1 .. L : b.entries[n].key \in Keys
    <3>1. \A n \in 1 .. L : b.entries[n] \in Entry
      BY <1>1
    <3> QED BY <3>1 DEF Entry
  <2>d. b.restarts \in Seq(Nat) /\ L \in Nat /\ k \in Nat
    BY <1>1
  <2> HIDE DEF e, x, L
  <2>a. /\ \A n \in 1 .. L : b.entries[n].key \in Keys
        /\ L + 1 \in 1 .. L + 1 /\ 1 .. L + 1 = (1 .. L) \cup {L + 1}
    BY <2>c, <2>d
  <2>b. x.entries[L + 1].key = k /\ x.entries[L + 1].val = mem[k]
    BY <1>5 DEF e
  <2>1. \A n \in DOMAIN x.entries : /\ x.entries[n].key \in DOMAIN mem
                                    /\ x.entries[n].val = mem[x.entries[n].key]
    <3>1. \A n \in 1 .. L : /\ x.entries[n].key \in DOMAIN mem
                             /\ x.entries[n].val = mem[x.entries[n].key]
      BY <1>5 DEF Good
    <3> QED BY <3>1, <1>5, <2>a, <2>b
  <2>2. \A m, n \in DOMAIN x.entries : m < n => x.entries[m].key < x.entries[n].key
    <3> SUFFICES ASSUME NEW m \in 1 .. L + 1, NEW n \in 1 .. L + 1, m < n
                 PROVE  x.entries[m].key < x.entries[n].key
      BY <1>5
    <3>1. m \in 1 .. L
      BY <1>1
    <3>4. x.entries[m] = b.entries[m] /\ b.entries[m].key \in Keys
      BY <3>1, <1>5, <2>a
    <3>2. CASE n \in 1 .. L
      BY <3>1, <3>4, <3>2, <1>5 DEF Good
    <3>3. CASE n = L + 1
      <4>1. In(b, b.entries[m].key)
        BY <3>1, <1>5 DEF In
      <4>2. b.entries[m].key < k
        BY <4>1, <3>4
      <4>3. x.entries[n].key = k
        BY <3>3, <2>b
      <4> QED BY <4>2, <3>4, <4>3
    <3> QED BY <3>2, <3>3, <2>a
  <2> DEFINE R == b.restarts
             X == x.restarts
  <2>3. /\ \A j \in DOMAIN X : X[j] \in DOMAIN x.entries
        /\ Len(X) >= 1 /\ X[1] = 1
    <3>1. \A j \in DOMAIN R : R[j] \in 1 .. L
      BY <1>5 DEF Good
    <3>2. CASE L = 0
      <4>1. L % cfg.restart = 0
        BY <3>2, <1>1
      <4>2. X = Append(R, 1)
        BY <4>1, <3>2, <1>2 DEF RestartsWith, L
      <4> HIDE DEF R, X
      <4>3. R \in Seq(Nat) /\ \A j \in DOMAIN R : FALSE
        BY <3>1, <3>2, <2>d DEF R
      <4>6. /\ Len(R) \in Nat /\ DOMAIN R = 1 .. Len(R) /\ Len(X) = Len(R) + 1
            /\ DOMAIN X = 1 .. Len(R) + 1 /\ X[Len(R) + 1] = 1
        BY <4>2, <4>3, AppendFacts
      <4>4. Len(R) = 0
        <5>1. Len(R) >= 1 => 1 \in DOMAIN R
          BY <4>6
        <5>2. ~(1 \in DOMAIN R)
          BY <4>3
        <5> QED BY <5>1, <5>2, <4>6
      <4>5. Len(X) = 1 /\ X[1] = 1 /\ DOMAIN X = {1}
        BY <4>4, <4>6
      <4> QED BY <4>5, <1>5, <3>2
    <3>3. CASE L > 0
      <4>1. Len(R) >= 1 /\ R[1] = 1
        <5>1. b.entries # <<>>
          BY <3>3 DEF L
        <5> QED BY <5>1 DEF Good
      <4>2. \/ X = R
            \/ X = Append(R, L + 1)
        BY <1>2 DEF RestartsWith, L
      <4>3. R \in Seq(Nat)
        BY <2>d
      <4> HIDE DEF R, X
      <4>4. CASE X = R
        BY <4>4, <4>1, <3>1, <1>5, <2>a
      <4>5. CASE X = Append(R, L + 1)
        <5>1. /\ Len(R) \in Nat /\ DOMAIN R = 1 .. Len(R) /\ Len(X) = Len(R) + 1
              /\ DOMAIN X = 1 .. Len(R) + 1 /\ X[Len(R) + 1] = L + 1
              /\ \A j \in 1 .. Len(R) : X[j] = R[j]
          BY <4>5, <4>3, <2>d, AppendFacts
        <5>2. Len(X) >= 1 /\ X[1] = 1
          BY <5>1, <4>1
        <5>3. ASSUME NEW j \in DOMAIN X PROVE X[j] \in 1 .. L + 1
          <6>1. CASE j \in 1 .. Len(R)
            BY <6>1, <5>1, <3>1, <2>a
          <6>2. CASE j = Len(R) + 1
            BY <6>2, <5>1, <2>a
          <6> QED BY <6>1, <6>2, <5>1
        <5> QED BY <5>2, <5>3, <1>5
      <4> QED BY <4>2, <4>4, <4>5
    <3> QED BY <3>2, <3>3, <2>d
  <2> QED BY <2>1, <2>2, <2>3 DEF Good
<1>8. x.entries # <<>>
  BY <1>5, <1>1
<1> QED BY <1>4, <1>6, <1>7, <1>8

(* A finished block goes to a free offset under its first key; the blocks  *)
(* before it stay as they are.                                             *)
LEMMA FinishBlockAppends ==
    ASSUME FileTypes, IndexOK, Keys \subseteq Nat,
           NEW b \in BlockType, Good(b), b.entries # <<>>, FinishBlock(b)
    PROVE  /\ disk' \in [DOMAIN disk' -> BlockType] /\ DOMAIN disk' \subseteq Nat
           /\ index' \in Seq(IndexEntry) /\ offset' \in Nat
           /\ DOMAIN index' = 1 .. Len(index) + 1 /\ DOMAIN index = 1 .. Len(index)
           /\ \A i \in DOMAIN index : index'[i] = index[i] /\ BlockAt(i)' = BlockAt(i)
           /\ \A n : n = Len(index) + 1 => BlockAt(n)' = b
           /\ index'[Len(index) + 1].first = b.entries[1].key
           /\ \A i \in DOMAIN index' : index'[i].offset \in DOMAIN disk'
           /\ \A o \in DOMAIN disk' : o < offset'
<1> DEFINE L == Len(index)
           e == [first |-> b.entries[1].key, offset |-> offset, size |-> SizeOf(b)]
<1>1. SizeOf(b) \in Nat /\ SizeOf(b) > 0
  <2>1. b.bytes \in Nat /\ Len(b.restarts) \in Nat
    BY DEF BlockType
  <2> QED BY <2>1 DEF SizeOf
<1>2. b.entries[1].key \in Keys
  <2>1. b.entries \in Seq(Entry)
    BY DEF BlockType
  <2>2. b.entries[1] \in Entry
    BY <2>1
  <2> QED BY <2>2 DEF Entry
<1>3. e \in IndexEntry /\ index \in Seq(IndexEntry) /\ L \in Nat /\ index' = Append(index, e)
  BY <1>1, <1>2 DEF IndexEntry, FileTypes, FinishBlock
<1> HIDE DEF e
<1>4. /\ index' \in Seq(IndexEntry) /\ DOMAIN index' = 1 .. L + 1 /\ DOMAIN index = 1 .. L
      /\ \A i \in 1 .. L : index'[i] = index[i]
      /\ index'[L + 1] = e
  BY <1>3
<1>5. offset' \in Nat /\ offset < offset' /\ offset \in Nat
  BY <1>1 DEF FileTypes, FinishBlock
<1>6. /\ DOMAIN disk' = DOMAIN disk \cup {offset} /\ disk'[offset] = b
      /\ \A o \in DOMAIN disk : o # offset /\ disk'[o] = disk[o]
  <2>1. \A o \in DOMAIN disk : o \in Nat /\ o < offset
    BY DEF FileTypes, IndexOK
  <2>2. disk' = [o \in DOMAIN disk \cup {offset} |-> IF o = offset THEN b ELSE disk[o]]
    BY DEF FinishBlock
  <2>3. \A o \in DOMAIN disk : o # offset
    BY <2>1, <1>5
  <2> QED BY <2>2, <2>3
<1>7. disk' \in [DOMAIN disk' -> BlockType] /\ DOMAIN disk' \subseteq Nat
  <2>1. \A o \in DOMAIN disk : disk[o] \in BlockType /\ o \in Nat
    BY DEF FileTypes
  <2>2. disk' = [o \in DOMAIN disk' |-> disk'[o]]
    BY DEF FinishBlock
  <2> QED BY <2>1, <2>2, <1>5, <1>6
<1>8. \A o \in DOMAIN disk' : o < offset'
  BY <1>5, <1>6 DEF IndexOK, FileTypes
<1>9. \A i \in DOMAIN index : BlockAt(i)' = BlockAt(i)
  BY <1>4, <1>6 DEF BlockAt, IndexOK
<1>10. /\ \A n : n = L + 1 => BlockAt(n)' = b
       /\ index'[L + 1].first = b.entries[1].key
  <2>1. index'[L + 1].offset = offset /\ index'[L + 1].first = b.entries[1].key
    BY <1>4 DEF e
  <2>2. ASSUME NEW n, n = L + 1 PROVE BlockAt(n)' = b
    <3>1. BlockAt(n)' = disk'[index'[n].offset]
      BY DEF BlockAt
    <3> QED BY <3>1, <2>1, <2>2, <1>6
  <2> QED BY <2>1, <2>2
<1>11. \A i \in DOMAIN index' : index'[i].offset \in DOMAIN disk'
  <2> SUFFICES ASSUME NEW i \in 1 .. L + 1 PROVE index'[i].offset \in DOMAIN disk'
    BY <1>4
  <2>1. CASE i \in 1 .. L
    BY <2>1, <1>4, <1>6 DEF IndexOK
  <2>2. CASE i = L + 1
    BY <2>2, <1>4, <1>6 DEF e
  <2> QED BY <2>1, <2>2, <1>3
<1> QED BY <1>4, <1>5, <1>7, <1>8, <1>9, <1>10, <1>11

LEMMA BlockAfterStep ==
    ASSUME NEW i, NEW c, BlockAt(i)' = c, mem' = mem
    PROVE  /\ Good(BlockAt(i))' <=> Good(c)
           /\ (BlockAt(i).entries)' = c.entries
           /\ \A k : In(BlockAt(i), k)' <=> In(c, k)
<1>1. Good(BlockAt(i))' <=> Good(c)
  BY DEF Good
<1>2. \A k : In(BlockAt(i), k)' <=> In(c, k)
  BY DEF In
<1> QED BY <1>1, <1>2

LEMMA NewBlockAfterStep ==
    ASSUME NEW c, block' = c, mem' = mem
    PROVE  /\ Good(block)' <=> Good(c)
           /\ \A k : In(block, k)' <=> In(c, k)
<1>1. Good(block)' <=> Good(c)
  BY DEF Good
<1>2. \A k : In(block, k)' <=> In(c, k)
  BY DEF In
<1> QED BY <1>1, <1>2

LEMMA EmptyIsGood ==
    ASSUME mem' = mem
    PROVE  /\ EmptyBlock \in BlockType /\ Good(EmptyBlock)
           /\ \A k : ~In(EmptyBlock, k)
<1>1. DOMAIN EmptyBlock.entries = {} /\ DOMAIN EmptyBlock.restarts = {} /\ EmptyBlock.entries = <<>>
  BY DEF EmptyBlock
<1>2. EmptyBlock \in BlockType
  BY DEF EmptyBlock, BlockType
<1> QED BY <1>1, <1>2 DEF Good, In

(* Finishing a good block above all others keeps the index right, and the  *)
(* file then holds the keys of that block as well.                         *)
LEMMA FinishBlockKeeps ==
    ASSUME FileTypes, IndexOK, BlocksInOrder, Keys \subseteq Nat, mem' = mem,
           NEW b \in BlockType, Good(b), b.entries # <<>>, FinishBlock(b),
           \A i \in DOMAIN index : \A k, m \in Keys : In(BlockAt(i), k) /\ In(b, m) => k < m
    PROVE  /\ IndexOK' /\ BlocksInOrder'
           /\ disk' \in [DOMAIN disk' -> BlockType] /\ DOMAIN disk' \subseteq Nat
           /\ index' \in Seq(IndexEntry) /\ offset' \in Nat
           /\ block' = EmptyBlock
           /\ \A k : (\E i \in DOMAIN index' : In(BlockAt(i), k)') <=>
                        In(b, k) \/ \E i \in DOMAIN index : In(BlockAt(i), k)
<1> DEFINE L == Len(index)
<1>1. /\ disk' \in [DOMAIN disk' -> BlockType] /\ DOMAIN disk' \subseteq Nat
      /\ index' \in Seq(IndexEntry) /\ offset' \in Nat
      /\ DOMAIN index' = 1 .. L + 1 /\ DOMAIN index = 1 .. L
      /\ \A i \in DOMAIN index : index'[i] = index[i] /\ BlockAt(i)' = BlockAt(i)
      /\ \A n : n = L + 1 => BlockAt(n)' = b
      /\ index'[L + 1].first = b.entries[1].key
      /\ \A i \in DOMAIN index' : index'[i].offset \in DOMAIN disk'
      /\ \A o \in DOMAIN disk' : o < offset'
  BY FinishBlockAppends
<1>2. L \in Nat /\ DOMAIN index' = DOMAIN index \cup {L + 1} /\ \A i \in DOMAIN index : i \in Nat /\ i < L + 1
  <2>1. L \in Nat
    BY DEF FileTypes
  <2> QED BY <2>1, <1>1
<1> HIDE DEF L
<1>3. \A i \in DOMAIN index : /\ Good(BlockAt(i))' <=> Good(BlockAt(i))
                              /\ (BlockAt(i).entries)' = BlockAt(i).entries
                              /\ \A k : In(BlockAt(i), k)' <=> In(BlockAt(i), k)
  BY <1>1, BlockAfterStep
<1>4. \A n : n = L + 1 => /\ Good(BlockAt(n))' /\ (BlockAt(n).entries)' = b.entries
                          /\ \A k : In(BlockAt(n), k)' <=> In(b, k)
  <2> SUFFICES ASSUME NEW n, n = L + 1
               PROVE  /\ Good(BlockAt(n))' /\ (BlockAt(n).entries)' = b.entries
                      /\ \A k : In(BlockAt(n), k)' <=> In(b, k)
    OBVIOUS
  <2>1. BlockAt(n)' = b
    BY <1>1
  <2> QED BY <2>1, BlockAfterStep
<1>5. IndexOK'
  <2> SUFFICES ASSUME NEW i \in DOMAIN index'
               PROVE  /\ Good(BlockAt(i))' /\ (BlockAt(i).entries)' # <<>>
                      /\ index'[i].first = (BlockAt(i).entries)'[1].key
    BY <1>1 DEF IndexOK
  <2>1. CASE i \in DOMAIN index
    BY <2>1, <1>1, <1>3 DEF IndexOK
  <2>2. CASE i = L + 1
    BY <2>2, <1>1, <1>4
  <2> QED BY <2>1, <2>2, <1>2
<1>6. BlocksInOrder'
  <2> SUFFICES ASSUME NEW i \in DOMAIN index', NEW j \in DOMAIN index', i < j,
                      NEW k \in Keys, In(BlockAt(i), k)'
               PROVE  k < index'[j].first
    BY DEF BlocksInOrder
  <2>1. i \in DOMAIN index /\ In(BlockAt(i), k)
    <3>1. i # L + 1
      BY <1>2
    <3> QED BY <3>1, <1>2, <1>3
  <2>2. CASE j \in DOMAIN index
    BY <2>1, <2>2, <1>1 DEF BlocksInOrder
  <2>3. CASE j = L + 1
    <3>1. In(b, b.entries[1].key) /\ b.entries[1].key \in Keys
      <4>1. b.entries \in Seq(Entry) /\ b.entries # <<>>
        BY DEF BlockType
      <4>2. 1 \in DOMAIN b.entries /\ b.entries[1] \in Entry
        BY <4>1
      <4> QED BY <4>2 DEF In, Entry
    <3> QED BY <3>1, <2>1, <2>3, <1>1
  <2> QED BY <2>2, <2>3, <1>2
<1>7. ASSUME NEW k
      PROVE  (\E i \in DOMAIN index' : In(BlockAt(i), k)') <=>
               In(b, k) \/ \E i \in DOMAIN index : In(BlockAt(i), k)
  <2>1. \A i \in DOMAIN index : In(BlockAt(i), k)' <=> In(BlockAt(i), k)
    BY <1>3
  <2>2. \A n : n = L + 1 => (In(BlockAt(n), k)' <=> In(b, k))
    BY <1>4
  <2> QED BY <2>1, <2>2, <1>2
<1> QED BY <1>1, <1>5, <1>6, <1>7 DEF FinishBlock

Stored(k) == In(block, k) \/ \E i \in DOMAIN index : In(BlockAt(i), k)

(* Writing the smallest key that is left.                                  *)
LEMMA WriteEntryKeeps ==
    ASSUME Inv, SstAssumption, NEW k \in rest, WriteEntry(k)
    PROVE  Inv'
<1> DEFINE x == Extended(block, [key |-> k, val |-> mem[k]])
<1>1. /\ pc = "write" /\ \A j \in rest : k <= j
      /\ \/ FinishBlock(x)
         \/ block' = x /\ UNCHANGED <<disk, index, offset>>
      /\ rest' = rest \ {k} /\ bits' = bits \cup Probes(k)
      /\ meta' = [meta EXCEPT !.max = k]
      /\ cfg' = cfg /\ mem' = mem /\ pc' = pc /\ UNCHANGED getVars
  BY DEF WriteEntry, getVars
<1>2. /\ FileTypes /\ Keys \subseteq Nat /\ Bytes \in [Payloads -> Nat \ {0}]
      /\ k \in Keys /\ k \in Nat /\ k \in DOMAIN mem /\ DOMAIN mem \subseteq Keys
      /\ block \in BlockType /\ cfg \in [restart : Nat \ {0}, block : Nat]
      /\ mem \in [DOMAIN mem -> Payloads] /\ rest \subseteq DOMAIN mem /\ meta \in [min : Nat, max : Nat]
  BY DEF Inv, TypeOK, FileTypes, SstAssumption
<1>3. \A m \in rest : \A j \in Keys : Stored(j) => j < m
  BY DEF Inv, FileInv, RestIsNext, Stored
<1>4. /\ x \in BlockType /\ Good(x) /\ x.entries # <<>>
      /\ \A m \in Keys : In(x, m) <=> In(block, m) \/ m = k
  <2>1. \A m \in Keys : In(block, m) => m < k
    BY <1>3 DEF Stored
  <2>2. Good(block)
    BY DEF Inv, FileInv
  <2> QED BY <1>2, <2>1, <2>2, ExtendedIsGood
<1> HIDE DEF x
<1>5. \A i \in DOMAIN index : \A j, m \in Keys : In(BlockAt(i), j) /\ In(x, m) => j < m
  BY <1>3, <1>4 DEF Inv, FileInv, BlockIsNext, Stored
<1>6. /\ Good(block)' /\ IndexOK' /\ BlocksInOrder' /\ BlockIsNext'
      /\ block' \in BlockType
      /\ disk' \in [DOMAIN disk' -> BlockType] /\ DOMAIN disk' \subseteq Nat
      /\ index' \in Seq(IndexEntry) /\ offset' \in Nat
      /\ \A m \in Keys : Stored(m)' <=> Stored(m) \/ m = k
  <2>1. CASE FinishBlock(x)
    <3>1. /\ IndexOK' /\ BlocksInOrder'
          /\ disk' \in [DOMAIN disk' -> BlockType] /\ DOMAIN disk' \subseteq Nat
          /\ index' \in Seq(IndexEntry) /\ offset' \in Nat
          /\ block' = EmptyBlock
          /\ \A m : (\E i \in DOMAIN index' : In(BlockAt(i), m)') <=>
                        In(x, m) \/ \E i \in DOMAIN index : In(BlockAt(i), m)
      <4>1. IndexOK /\ BlocksInOrder
        BY DEF Inv, FileInv
      <4> QED BY <4>1, <2>1, <1>1, <1>2, <1>4, <1>5, FinishBlockKeeps
    <3>2. block' \in BlockType /\ Good(block)' /\ \A m : ~In(block, m)'
      BY <3>1, <1>1, EmptyIsGood, NewBlockAfterStep
    <3>3. BlockIsNext'
      BY <3>2 DEF BlockIsNext
    <3>4. \A m \in Keys : Stored(m)' <=> Stored(m) \/ m = k
      BY <3>1, <3>2, <1>4 DEF Stored
    <3> QED BY <3>1, <3>2, <3>3, <3>4
  <2>2. CASE block' = x /\ UNCHANGED <<disk, index, offset>>
    <3>1. disk' = disk /\ index' = index /\ offset' = offset /\ block' = x /\ mem' = mem
      BY <2>2, <1>1
    <3>2. Good(block)' /\ \A m : In(block, m)' <=> In(x, m)
      BY <3>1, <1>4, NewBlockAfterStep
    <3>3. \A i : BlockAt(i)' = BlockAt(i)
      BY <3>1 DEF BlockAt
    <3>4. \A i : /\ Good(BlockAt(i))' <=> Good(BlockAt(i))
                 /\ (BlockAt(i).entries)' = BlockAt(i).entries
                 /\ \A m : In(BlockAt(i), m)' <=> In(BlockAt(i), m)
      BY <3>1, <3>3, BlockAfterStep
    <3>5. IndexOK'
      BY <3>1, <3>4 DEF Inv, FileInv, IndexOK
    <3>6. BlocksInOrder'
      BY <3>1, <3>4 DEF Inv, FileInv, BlocksInOrder
    <3>7. BlockIsNext'
      BY <3>1, <3>2, <3>4, <1>5 DEF BlockIsNext
    <3>8. \A m \in Keys : Stored(m)' <=> Stored(m) \/ m = k
      BY <3>1, <3>2, <3>4, <1>4 DEF Stored
    <3> QED BY <3>1, <3>2, <3>5, <3>6, <3>7, <3>8, <1>2, <1>4 DEF FileTypes
  <2> QED BY <2>1, <2>2, <1>1
<1>7. FileTypes' /\ GetTypes'
  <2>1. meta' \in [min : Nat, max : Nat] /\ rest' \subseteq DOMAIN mem'
    BY <1>1, <1>2
  <2>2. GetTypes'
    BY <1>1 DEF Inv, TypeOK, GetTypes, getVars
  <2> QED BY <2>1, <2>2, <1>1, <1>2, <1>6 DEF FileTypes
<1>8. RestIsNext'
  <2> SUFFICES ASSUME NEW m \in rest', NEW j \in Keys, Stored(j)' PROVE j < m
    BY DEF RestIsNext, Stored
  <2>1. m \in rest /\ m # k /\ k <= m /\ m \in Nat
    BY <1>1, <1>2
  <2>2. CASE Stored(j)
    BY <2>1, <2>2, <1>3
  <2>3. CASE j = k
    BY <2>1, <2>3, <1>2
  <2> QED BY <2>2, <2>3, <1>6
<1>9. Complete'
  <2> SUFFICES ASSUME NEW j \in DOMAIN mem PROVE j \in rest' \/ Stored(j)'
    BY <1>1 DEF Complete, Stored
  <2>1. j \in rest \/ Stored(j)
    BY DEF Inv, FileInv, Complete, Stored
  <2> QED BY <2>1, <1>1, <1>2, <1>6
<1>10. Announced'
  <2> SUFFICES ASSUME NEW j \in DOMAIN mem \ rest'
               PROVE  Probes(j)' \subseteq bits' /\ j <= meta.max'
    BY <1>1 DEF Announced
  <2>1. Probes(j)' = Probes(j) /\ meta.max' = k
    BY <1>1, <1>2 DEF Probes, Probe
  <2>2. CASE j = k
    BY <2>1, <2>2, <1>1, <1>2
  <2>3. CASE j # k
    <3>1. j \in DOMAIN mem \ rest
      BY <2>3, <1>1
    <3>2. Probes(j) \subseteq bits
      BY <3>1 DEF Inv, FileInv, Announced
    <3>3. Stored(j)
      BY <3>1 DEF Inv, FileInv, Complete, Stored
    <3>4. j < k /\ j \in Nat
      BY <3>3, <1>2, <1>3
    <3> QED BY <3>2, <3>4, <2>1, <1>1, <1>2
  <2> QED BY <2>2, <2>3
<1>11. Written' /\ GetInv'
  BY <1>1 DEF Written, GetInv, AtTheBlock, NotPastTheKey, PassedSmaller, NotYet, LookupIsExact
<1> QED BY <1>6, <1>7, <1>8, <1>9, <1>10, <1>11 DEF Inv, TypeOK, FileInv

(* What is left of the last block is finished, if anything is.             *)
LEMMA FinishFileKeeps ==
    ASSUME Inv, SstAssumption, FinishFile
    PROVE  Inv'
<1>1. /\ pc = "write" /\ rest = {} /\ pc' = "ready" /\ result' = result
      /\ \/ BlockLeft /\ FinishBlock(block)
         \/ ~BlockLeft /\ UNCHANGED <<block, disk, index, offset>>
      /\ cfg' = cfg /\ mem' = mem /\ rest' = rest /\ bits' = bits
      /\ UNCHANGED <<key, at, lo, hi, pos, result>>
  BY DEF FinishFile
<1>2. PICK k \in DOMAIN mem : /\ \A j \in DOMAIN mem : k <= j
                              /\ meta' = [meta EXCEPT !.min = k]
  BY DEF FinishFile
<1>3. /\ FileTypes /\ GetTypes /\ Keys \subseteq Nat /\ k \in Nat /\ DOMAIN mem \subseteq Keys
      /\ block \in BlockType /\ meta \in [min : Nat, max : Nat]
  BY DEF Inv, TypeOK, FileTypes, SstAssumption
<1>4. meta' \in [min : Nat, max : Nat] /\ meta'.min = k /\ meta'.max = meta.max
  BY <1>2, <1>3
<1>5. /\ Good(block)' /\ IndexOK' /\ BlocksInOrder'
      /\ block' \in BlockType /\ block'.entries = <<>> /\ \A m : ~In(block, m)'
      /\ disk' \in [DOMAIN disk' -> BlockType] /\ DOMAIN disk' \subseteq Nat
      /\ index' \in Seq(IndexEntry) /\ offset' \in Nat
      /\ \A m : Stored(m)' <=> Stored(m)
  <2>1. CASE BlockLeft /\ FinishBlock(block)
    <3>1. /\ IndexOK /\ BlocksInOrder /\ Good(block) /\ block.entries # <<>>
          /\ \A i \in DOMAIN index : \A j, m \in Keys : In(BlockAt(i), j) /\ In(block, m) => j < m
      BY <2>1 DEF Inv, FileInv, BlockIsNext, BlockLeft
    <3>2. /\ IndexOK' /\ BlocksInOrder'
          /\ disk' \in [DOMAIN disk' -> BlockType] /\ DOMAIN disk' \subseteq Nat
          /\ index' \in Seq(IndexEntry) /\ offset' \in Nat
          /\ block' = EmptyBlock
          /\ \A m : (\E i \in DOMAIN index' : In(BlockAt(i), m)') <=>
                        In(block, m) \/ \E i \in DOMAIN index : In(BlockAt(i), m)
      BY <3>1, <2>1, <1>1, <1>3, FinishBlockKeeps
    <3>3. block' \in BlockType /\ Good(block)' /\ \A m : ~In(block, m)'
      BY <3>2, <1>1, EmptyIsGood, NewBlockAfterStep
    <3>4. \A m : Stored(m)' <=> Stored(m)
      BY <3>2, <3>3 DEF Stored
    <3> QED BY <3>2, <3>3, <3>4 DEF EmptyBlock
  <2>2. CASE ~BlockLeft /\ UNCHANGED <<block, disk, index, offset>>
    <3>1. disk' = disk /\ index' = index /\ offset' = offset /\ block' = block /\ mem' = mem
      BY <2>2, <1>1
    <3>2. Good(block)' /\ \A m : In(block, m)' <=> In(block, m)
      BY <3>1, NewBlockAfterStep DEF Inv, FileInv
    <3>3. \A i : BlockAt(i)' = BlockAt(i)
      BY <3>1 DEF BlockAt
    <3>4. \A i : /\ Good(BlockAt(i))' <=> Good(BlockAt(i))
                 /\ (BlockAt(i).entries)' = BlockAt(i).entries
                 /\ \A m : In(BlockAt(i), m)' <=> In(BlockAt(i), m)
      BY <3>1, <3>3, BlockAfterStep
    <3>5. IndexOK' /\ BlocksInOrder'
      BY <3>1, <3>4 DEF Inv, FileInv, IndexOK, BlocksInOrder
    <3>6. block.entries = <<>> /\ \A m : ~In(block, m)
      BY <2>2 DEF BlockLeft, In
    <3> QED BY <3>1, <3>2, <3>4, <3>5, <3>6, <1>3 DEF Stored, FileTypes
  <2> QED BY <2>1, <2>2, <1>1
<1>6. BlockIsNext' /\ RestIsNext' /\ Complete'
  <2>1. BlockIsNext' /\ RestIsNext'
    BY <1>1, <1>5 DEF BlockIsNext, RestIsNext
  <2>2. \A j \in DOMAIN mem : j \in rest \/ Stored(j)
    BY DEF Inv, FileInv, Complete, Stored
  <2>3. Complete'
    BY <2>2, <1>1, <1>5 DEF Complete, Stored
  <2> QED BY <2>1, <2>3
<1>7. Announced'
  <2>1. \A j : Probes(j)' = Probes(j)
    BY <1>1 DEF Probes, Probe
  <2> QED BY <2>1, <1>1, <1>4 DEF Inv, FileInv, Announced
<1>8. Written'
  BY <1>1, <1>2, <1>4, <1>5 DEF Written
<1>9. GetInv'
  BY <1>1 DEF GetInv, AtTheBlock, NotPastTheKey, PassedSmaller, NotYet, LookupIsExact
<1>10. TypeOK'
  BY <1>1, <1>3, <1>4, <1>5 DEF TypeOK, FileTypes, GetTypes
<1> QED BY <1>5, <1>6, <1>7, <1>8, <1>9, <1>10 DEF Inv, FileInv

-----------------------------------------------------------------------------
(* What a finished file tells about a key.                                 *)

LEMMA RefusedKeysAreAbsent ==
    ASSUME Inv, SstAssumption, pc # "write", NEW k \in Keys, ~(InRange(k) /\ MayContain(k))
    PROVE  k \notin DOMAIN mem
BY DEF Inv, FileInv, Written, Announced, InRange, MayContain, AskedBit, Probes, Probe

(* A key of the memtable is in a block whose first key is not above it.    *)
LEMMA KeysAreIndexed ==
    ASSUME Inv, SstAssumption, pc # "write", NEW k \in DOMAIN mem
    PROVE  \E i \in DOMAIN index : In(BlockAt(i), k) /\ index[i].first <= k
<1>1. ~In(block, k)
  BY DEF Inv, FileInv, Written, In
<1>2. PICK i \in DOMAIN index : In(BlockAt(i), k)
  BY <1>1 DEF Inv, FileInv, Written, Complete
<1>3. PICK n \in DOMAIN BlockAt(i).entries : BlockAt(i).entries[n].key = k
  BY <1>2 DEF In
<1>4. Good(BlockAt(i)) /\ index[i].first = BlockAt(i).entries[1].key /\ BlockAt(i) \in BlockType
  BY DEF Inv, FileInv, IndexOK, TypeOK, FileTypes, BlockAt
<1>5. n \in Nat /\ n >= 1 /\ 1 \in DOMAIN BlockAt(i).entries
  <2>1. BlockAt(i).entries \in Seq(Entry)
    BY <1>4 DEF BlockType
  <2> QED BY <2>1, <1>3
<1>6. BlockAt(i).entries[1].key \in Nat /\ k \in Nat
  BY <1>4, <1>5 DEF Good, SstAssumption, Inv, TypeOK, FileTypes
<1>7. BlockAt(i).entries[1].key <= k
  <2>1. CASE n = 1
    BY <2>1, <1>3, <1>6
  <2>2. CASE n # 1
    <3>1. BlockAt(i).entries[1].key < BlockAt(i).entries[n].key
      BY <2>2, <1>3, <1>4, <1>5 DEF Good
    <3> QED BY <3>1, <1>3, <1>6
  <2> QED BY <2>1, <2>2
<1> QED BY <1>2, <1>4, <1>7

(* The block a search has come to: sorted entries of the memtable.         *)
LEMMA BlockIsGood ==
    ASSUME Inv, SstAssumption, NEW i \in DOMAIN index
    PROVE  /\ Good(BlockAt(i)) /\ i \in Nat /\ i >= 1
           /\ index[i].first = BlockAt(i).entries[1].key
           /\ Len(BlockAt(i).entries) \in Nat /\ Len(BlockAt(i).restarts) \in Nat
           /\ DOMAIN BlockAt(i).entries = 1 .. Len(BlockAt(i).entries)
           /\ DOMAIN BlockAt(i).restarts = 1 .. Len(BlockAt(i).restarts)
           /\ Len(BlockAt(i).entries) >= 1 /\ Len(BlockAt(i).restarts) >= 1
           /\ BlockAt(i).restarts[1] = 1
           /\ \A n \in DOMAIN BlockAt(i).entries : BlockAt(i).entries[n].key \in Nat
<1>1. BlockAt(i) \in BlockType /\ Good(BlockAt(i)) /\ BlockAt(i).entries # <<>>
      /\ index[i].first = BlockAt(i).entries[1].key /\ index \in Seq(IndexEntry)
  BY DEF Inv, FileInv, IndexOK, TypeOK, FileTypes, BlockAt
<1>2. BlockAt(i).entries \in Seq(Entry) /\ BlockAt(i).restarts \in Seq(Nat)
  BY <1>1 DEF BlockType
<1>3. i \in Nat /\ i >= 1
  BY <1>1
<1>4. /\ Len(BlockAt(i).entries) \in Nat /\ Len(BlockAt(i).restarts) \in Nat
      /\ DOMAIN BlockAt(i).entries = 1 .. Len(BlockAt(i).entries)
      /\ DOMAIN BlockAt(i).restarts = 1 .. Len(BlockAt(i).restarts)
      /\ Len(BlockAt(i).entries) >= 1
  BY <1>1, <1>2
<1>5. Len(BlockAt(i).restarts) >= 1 /\ BlockAt(i).restarts[1] = 1
  BY <1>1 DEF Good
<1>6. \A n \in DOMAIN BlockAt(i).entries : BlockAt(i).entries[n].key \in Nat
  BY <1>1 DEF Good, SstAssumption, Inv, TypeOK, FileTypes
<1> QED BY <1>1, <1>3, <1>4, <1>5, <1>6

(* Lookups leave the file alone.                                           *)
LEMMA FileStays ==
    ASSUME Inv, UNCHANGED fileVars, pc' # "write" => pc # "write"
    PROVE  /\ FileTypes' /\ FileInv'
           /\ mem' = mem /\ index' = index /\ meta' = meta /\ bits' = bits
           /\ \A i : BlockAt(i)' = BlockAt(i)
<1>1. /\ cfg' = cfg /\ mem' = mem /\ rest' = rest /\ block' = block /\ disk' = disk
      /\ index' = index /\ offset' = offset /\ bits' = bits /\ meta' = meta
  BY DEF fileVars
<1>2. \A i : BlockAt(i)' = BlockAt(i)
  BY <1>1 DEF BlockAt
<1>3. \A i : /\ Good(BlockAt(i))' <=> Good(BlockAt(i))
             /\ (BlockAt(i).entries)' = BlockAt(i).entries
             /\ \A m : In(BlockAt(i), m)' <=> In(BlockAt(i), m)
  BY <1>1, <1>2, BlockAfterStep
<1>4. Good(block)' /\ \A m : In(block, m)' <=> In(block, m)
  BY <1>1, NewBlockAfterStep DEF Inv, FileInv
<1>5. IndexOK' /\ BlocksInOrder'
  BY <1>1, <1>3 DEF Inv, FileInv, IndexOK, BlocksInOrder
<1>6. BlockIsNext' /\ RestIsNext'
  BY <1>1, <1>3, <1>4 DEF Inv, FileInv, BlockIsNext, RestIsNext
<1>7. Complete'
  BY <1>1, <1>3, <1>4 DEF Inv, FileInv, Complete
<1>8. Announced'
  <2>1. \A j : Probes(j)' = Probes(j)
    BY <1>1 DEF Probes, Probe
  <2> QED BY <2>1, <1>1 DEF Inv, FileInv, Announced
<1>9. Written'
  BY <1>1 DEF Inv, FileInv, Written
<1>10. FileTypes'
  BY <1>1 DEF Inv, TypeOK, FileTypes
<1> QED BY <1>1, <1>2, <1>4, <1>5, <1>6, <1>7, <1>8, <1>9, <1>10 DEF FileInv

(* A key that the search ends without is in no block.                      *)
LEMMA NotInTheBlock ==
    ASSUME Inv, SstAssumption, pc \in {"restarts", "scan"},
           \A n \in DOMAIN BlockAt(at).entries : BlockAt(at).entries[n].key # key
    PROVE  key \notin DOMAIN mem
<1> SUFFICES ASSUME key \in DOMAIN mem PROVE FALSE
  OBVIOUS
<1>1. PICK i \in DOMAIN index : In(BlockAt(i), key) /\ index[i].first <= key
  BY KeysAreIndexed
<1>2. at \in DOMAIN index /\ i <= at
  BY <1>1 DEF Inv, GetInv, AtTheBlock
<1>3. i # at
  BY <1>1 DEF In
<1>4. i \in Nat /\ at \in Nat /\ i < at
  BY <1>2, <1>3, BlockIsGood
<1>5. key < index[at].first
  BY <1>1, <1>2, <1>4 DEF Inv, FileInv, BlocksInOrder, TypeOK, FileTypes
<1>6. index[at].first <= key
  BY <1>2, <1>4 DEF Inv, GetInv, AtTheBlock
<1>7. index[at].first \in Nat /\ key \in Nat
  <2>1. BlockAt(at).entries[1].key \in Nat /\ index[at].first = BlockAt(at).entries[1].key
    BY <1>2, BlockIsGood
  <2> QED BY <2>1 DEF Inv, TypeOK, GetTypes
<1> QED BY <1>5, <1>6, <1>7

LEMMA GetKeeps ==
    ASSUME Inv, SstAssumption, Get
    PROVE  Inv'
<1>t. GetTypes /\ FileTypes
  BY DEF Inv, TypeOK
<1>g. AtTheBlock /\ NotPastTheKey /\ PassedSmaller /\ NotYet /\ LookupIsExact
  BY DEF Inv, GetInv
<1>1. ASSUME NEW k \in Keys, Ask(k) PROVE Inv'
  <2>1. /\ pc # "write" /\ pc' \in {"index", "answered"} /\ key' = k /\ result' = NotFound
        /\ pc' = "answered" => ~(InRange(k) /\ MayContain(k))
        /\ UNCHANGED fileVars /\ UNCHANGED <<at, lo, hi, pos>>
    BY <1>1 DEF Ask
  <2>2. FileTypes' /\ FileInv' /\ mem' = mem
    BY <2>1, FileStays
  <2>3. LookupIsExact'
    <3> SUFFICES ASSUME pc' = "answered" PROVE k \notin DOMAIN mem
      BY <2>1, <2>2 DEF LookupIsExact, Expected
    <3> QED BY <2>1, RefusedKeysAreAbsent
  <2>4. GetTypes'
    BY <2>1, <1>t DEF GetTypes, SstAssumption
  <2>5. AtTheBlock' /\ NotPastTheKey' /\ PassedSmaller' /\ NotYet'
    BY <2>1 DEF AtTheBlock, NotPastTheKey, PassedSmaller, NotYet
  <2> QED BY <2>2, <2>3, <2>4, <2>5 DEF Inv, TypeOK, GetInv
<1>2. ASSUME SearchIndex PROVE Inv'
  <2>1. PICK it \in UpperBound(key) :
            \/ it = 1 /\ pc' = "answered" /\ UNCHANGED <<at, lo, hi>>
            \/ it # 1 /\ pc' = "restarts" /\ at' = it - 1 /\ lo' = 1
                      /\ hi' = Len(BlockAt(it - 1).restarts) + 1
    BY <1>2 DEF SearchIndex
  <2>2. pc = "index" /\ pc' # "write" /\ UNCHANGED fileVars /\ UNCHANGED <<key, pos, result>>
    BY <1>2, <2>1 DEF SearchIndex
  <2>3. /\ FileTypes' /\ FileInv' /\ mem' = mem /\ index' = index
        /\ \A i : BlockAt(i)' = BlockAt(i)
    BY <2>2, FileStays
  <2>4. result = NotFound
    BY <2>2, <1>g DEF NotYet
  <2>5. it \in 1 .. Len(index) + 1 /\ \A i \in DOMAIN index : index[i].first <= key <=> i < it
    BY DEF UpperBound
  <2>6. Len(index) \in Nat /\ DOMAIN index = 1 .. Len(index)
    BY <1>t DEF FileTypes
  <2>7. CASE it = 1
    <3>1. key \notin DOMAIN mem
      <4> SUFFICES ASSUME key \in DOMAIN mem PROVE FALSE
        OBVIOUS
      <4>1. PICK i \in DOMAIN index : index[i].first <= key
        BY <2>2, KeysAreIndexed
      <4> QED BY <4>1, <2>5, <2>6, <2>7
    <3>2. LookupIsExact' /\ NotYet'
      BY <3>1, <2>1, <2>2, <2>3, <2>4, <2>7 DEF LookupIsExact, Expected, NotYet
    <3>3. GetTypes'
      BY <2>1, <2>2, <2>7, <1>t DEF GetTypes
    <3>4. AtTheBlock' /\ NotPastTheKey' /\ PassedSmaller'
      BY <2>1, <2>7 DEF AtTheBlock, NotPastTheKey, PassedSmaller
    <3> QED BY <2>3, <3>2, <3>3, <3>4 DEF Inv, TypeOK, GetInv
  <2>8. CASE it # 1
    <3>1. /\ it - 1 \in DOMAIN index /\ it - 1 \in Nat
          /\ \A i \in DOMAIN index : index[i].first <= key <=> i <= it - 1
      BY <2>5, <2>6, <2>8
    <3>2. /\ Len(BlockAt(it - 1).restarts) \in Nat /\ Len(BlockAt(it - 1).restarts) >= 1
          /\ BlockAt(it - 1).restarts[1] = 1
          /\ index[it - 1].first = BlockAt(it - 1).entries[1].key
      BY <3>1, BlockIsGood
    <3>3. at' = it - 1 /\ pc' = "restarts" /\ lo' = 1 /\ hi' = Len(BlockAt(it - 1).restarts) + 1
      BY <2>1, <2>8
    <3>4. AtTheBlock'
      BY <3>1, <3>3, <2>2, <2>3 DEF AtTheBlock
    <3>5. NotPastTheKey'
      <4>1. BlockAt(at)' = BlockAt(it - 1)
        BY <2>3, <3>3 DEF BlockAt
      <4>2. KeyAt(RestartOf(lo))' = BlockAt(it - 1).entries[1].key
        BY <4>1, <3>2, <3>3 DEF KeyAt, RestartOf
      <4>3. KeyAt(RestartOf(lo))' <= key'
        BY <4>2, <3>1, <3>2, <2>2
      <4> QED BY <4>1, <4>3, <3>2, <3>3 DEF NotPastTheKey
    <3>6. PassedSmaller' /\ NotYet' /\ LookupIsExact'
      BY <3>3, <2>2, <2>4 DEF PassedSmaller, NotYet, LookupIsExact
    <3>7. GetTypes'
      BY <3>1, <3>2, <3>3, <2>2, <1>t DEF GetTypes
    <3> QED BY <2>3, <3>4, <3>5, <3>6, <3>7 DEF Inv, TypeOK, GetInv
  <2> QED BY <2>7, <2>8
<1>3. ASSUME pc \in {"restarts", "scan"}
      PROVE  /\ at \in DOMAIN index /\ lo \in Nat /\ hi \in Nat /\ pos \in Nat /\ key \in Nat
             /\ 1 <= lo /\ lo < hi /\ hi <= Len(BlockAt(at).restarts) + 1
             /\ Good(BlockAt(at)) /\ DOMAIN BlockAt(at).restarts = 1 .. Len(BlockAt(at).restarts)
             /\ Len(BlockAt(at).restarts) \in Nat /\ Len(BlockAt(at).entries) \in Nat
             /\ DOMAIN BlockAt(at).entries = 1 .. Len(BlockAt(at).entries)
             /\ \A n \in DOMAIN BlockAt(at).entries : KeyAt(n) \in Nat
             /\ result = NotFound
  <2>1. at \in DOMAIN index
    BY <1>3, <1>g DEF AtTheBlock
  <2>2. \A n \in DOMAIN BlockAt(at).entries : KeyAt(n) \in Nat
    BY <2>1, BlockIsGood DEF KeyAt
  <2> QED BY <2>1, <2>2, <1>3, <1>t, <1>g, BlockIsGood DEF NotPastTheKey, NotYet, GetTypes
<1>4. ASSUME Narrow PROVE Inv'
  <2>1. /\ pc = "restarts" /\ hi - lo > 1 /\ UNCHANGED fileVars
        /\ UNCHANGED <<pc, key, at, pos, result>>
        /\ \/ StartsBefore(Middle) /\ lo' = Middle /\ hi' = hi
           \/ ~StartsBefore(Middle) /\ hi' = Middle /\ lo' = lo
    BY <1>4 DEF Narrow
  <2>2. /\ FileTypes' /\ FileInv' /\ mem' = mem /\ index' = index
        /\ \A i : BlockAt(i)' = BlockAt(i)
    BY <2>1, FileStays
  <2>3. BlockAt(at)' = BlockAt(at)
    BY <2>1, <2>2 DEF BlockAt
  <2>4. Middle \in Nat /\ lo < Middle /\ Middle < hi /\ lo \in Nat /\ hi \in Nat
    BY <2>1, <1>3 DEF Middle
  <2>5. AtTheBlock'
    BY <2>1, <2>2, <1>g DEF AtTheBlock
  <2>6. NotPastTheKey'
    <3> DEFINE M == Middle
    <3>1. \A n : KeyAt(RestartOf(n))' = KeyAt(RestartOf(n))
      BY <2>3 DEF KeyAt, RestartOf
    <3>2. KeyAt(RestartOf(lo)) <= key
      BY <2>1, <1>g DEF NotPastTheKey
    <3>3. KeyAt(RestartOf(lo))' = BlockAt(at).entries[BlockAt(at).restarts[lo']].key
      BY <2>3 DEF KeyAt, RestartOf
    <3>4. CASE lo' = Middle /\ StartsBefore(Middle) /\ hi' = hi
      BY <3>3, <3>4, <2>1, <2>3, <2>4, <1>3 DEF NotPastTheKey, StartsBefore, KeyAt, RestartOf
    <3>5. CASE lo' = lo /\ hi' = Middle
      BY <3>2, <3>3, <3>5, <2>1, <2>3, <2>4, <1>3 DEF NotPastTheKey, KeyAt, RestartOf
    <3> QED BY <3>4, <3>5, <2>1
  <2>7. PassedSmaller' /\ NotYet' /\ LookupIsExact'
    BY <2>1, <1>g DEF PassedSmaller, NotYet, LookupIsExact
  <2>8. GetTypes'
    BY <2>1, <2>4, <1>t DEF GetTypes
  <2> QED BY <2>2, <2>5, <2>6, <2>7, <2>8 DEF Inv, TypeOK, GetInv
<1>5. ASSUME UNCHANGED fileVars, UNCHANGED <<key, at, lo, hi, result>>,
             pc \in {"restarts", "scan"}, pc' = "scan"
      PROVE  /\ FileTypes' /\ FileInv' /\ AtTheBlock' /\ NotPastTheKey' /\ NotYet'
             /\ LookupIsExact'
             /\ BlockAt(at)' = BlockAt(at) /\ \A n : KeyAt(n)' = KeyAt(n)
  <2>1. /\ FileTypes' /\ FileInv' /\ index' = index /\ \A i : BlockAt(i)' = BlockAt(i)
    BY <1>5, FileStays
  <2>2. BlockAt(at)' = BlockAt(at)
    BY <1>5, <2>1 DEF BlockAt
  <2>3. \A n : KeyAt(n)' = KeyAt(n)
    BY <2>2 DEF KeyAt
  <2>4. KeyAt(RestartOf(lo))' = KeyAt(RestartOf(lo))
    BY <2>2, <1>5 DEF KeyAt, RestartOf
  <2> QED BY <2>1, <2>2, <2>3, <2>4, <1>5, <1>g
          DEF AtTheBlock, NotPastTheKey, NotYet, LookupIsExact
<1>6. ASSUME StartScan PROVE Inv'
  <2>1. /\ pc = "restarts" /\ hi - lo <= 1 /\ pos' = RestartOf(lo) /\ pc' = "scan"
        /\ UNCHANGED fileVars /\ UNCHANGED <<key, at, lo, hi, result>>
    BY <1>6 DEF StartScan
  <2>2. RestartOf(lo) \in DOMAIN BlockAt(at).entries /\ KeyAt(RestartOf(lo)) <= key
    <3>1. lo \in DOMAIN BlockAt(at).restarts
      BY <2>1, <1>3
    <3> QED BY <3>1, <2>1, <1>3, <1>g DEF Good, RestartOf, NotPastTheKey
  <2> DEFINE p == RestartOf(lo)
  <2>3. p \in Nat /\ 1 <= p
    BY <2>1, <2>2, <1>3
  <2>4. ASSUME NEW n \in DOMAIN BlockAt(at).entries, n < p PROVE KeyAt(n) < key
    <3>1. KeyAt(n) < KeyAt(p)
      BY <2>1, <2>2, <2>4, <1>3 DEF Good, KeyAt
    <3>2. KeyAt(n) \in Nat /\ KeyAt(p) \in Nat /\ key \in Nat
      BY <2>1, <2>2, <1>3
    <3> QED BY <3>1, <3>2, <2>2
  <2>5. PassedSmaller'
    BY <2>1, <2>3, <2>4, <1>5 DEF PassedSmaller
  <2>6. GetTypes'
    BY <2>1, <2>3, <1>t DEF GetTypes
  <2> QED BY <2>1, <2>5, <2>6, <1>5 DEF Inv, TypeOK, GetInv
<1>7. ASSUME ScanOn PROVE Inv'
  <2>1. /\ pc = "scan" /\ ~PastBlock /\ KeyAt(pos) < key /\ pos' = pos + 1 /\ pc' = "scan"
        /\ UNCHANGED fileVars /\ UNCHANGED <<key, at, lo, hi, result>>
    BY <1>7 DEF ScanOn
  <2>2. /\ pos \in Nat /\ 1 <= pos
        /\ \A n \in DOMAIN BlockAt(at).entries : n < pos => KeyAt(n) < key
    BY <2>1, <1>3, <1>g DEF PassedSmaller
  <2>3. \A n \in DOMAIN BlockAt(at).entries : n < pos + 1 => KeyAt(n) < key
    <3> SUFFICES ASSUME NEW n \in DOMAIN BlockAt(at).entries, n < pos + 1 PROVE KeyAt(n) < key
      OBVIOUS
    <3>1. n \in Nat
      BY <2>1, <1>3
    <3>2. n < pos \/ n = pos
      BY <3>1, <2>2
    <3> QED BY <3>2, <2>1, <2>2
  <2>4. PassedSmaller'
    BY <2>1, <2>2, <2>3, <1>5 DEF PassedSmaller
  <2>5. GetTypes'
    BY <2>1, <2>2, <1>t DEF GetTypes
  <2> QED BY <2>1, <2>4, <2>5, <1>5 DEF Inv, TypeOK, GetInv
<1>8. ASSUME UNCHANGED fileVars, UNCHANGED <<key, at, lo, hi, pos>>, pc = "scan", pc' = "answered",
             result' \in Payloads \cup {NotFound}, result' = Expected(key)
      PROVE  Inv'
  <2>1. FileTypes' /\ FileInv' /\ mem' = mem
    BY <1>8, FileStays
  <2>2. GetTypes'
    BY <1>8, <1>t DEF GetTypes
  <2>3. GetInv'
    BY <1>8, <2>1 DEF GetInv, AtTheBlock, NotPastTheKey, PassedSmaller, NotYet, LookupIsExact,
                      Expected
  <2> QED BY <2>1, <2>2, <2>3 DEF Inv, TypeOK
<1>9. ASSUME Hit PROVE Inv'
  <2>1. /\ pc = "scan" /\ ~PastBlock /\ KeyAt(pos) = key
        /\ result' = BlockAt(at).entries[pos].val /\ pc' = "answered"
        /\ UNCHANGED fileVars /\ UNCHANGED <<key, at, lo, hi, pos>>
    BY <1>9 DEF Hit
  <2>2. pos \in DOMAIN BlockAt(at).entries
    BY <2>1, <1>3, <1>g DEF PastBlock, PassedSmaller
  <2>3. key \in DOMAIN mem /\ result' = mem[key]
    BY <2>1, <2>2, <1>3 DEF Good, KeyAt
  <2>4. result' \in Payloads
    BY <2>3, <1>t DEF FileTypes
  <2> QED BY <2>1, <2>3, <2>4, <1>8 DEF Expected
<1>10. ASSUME Miss PROVE Inv'
  <2>1. /\ pc = "scan" /\ (~PastBlock => KeyAt(pos) > key) /\ pc' = "answered"
        /\ UNCHANGED fileVars /\ UNCHANGED <<key, at, lo, hi, pos, result>>
    BY <1>10 DEF Miss
  <2>2. /\ pos \in Nat /\ 1 <= pos
        /\ \A n \in DOMAIN BlockAt(at).entries : n < pos => KeyAt(n) < key
    BY <2>1, <1>3, <1>g DEF PassedSmaller
  <2>3. ASSUME NEW n \in DOMAIN BlockAt(at).entries PROVE BlockAt(at).entries[n].key # key
    <3>1. n \in Nat /\ n <= Len(BlockAt(at).entries) /\ KeyAt(n) \in Nat /\ key \in Nat
      BY <2>1, <1>3
    <3>2. CASE n < pos
      BY <3>1, <3>2, <2>2 DEF KeyAt
    <3>3. CASE n >= pos
      <4>1. ~PastBlock /\ pos \in DOMAIN BlockAt(at).entries
        BY <3>1, <3>3, <2>1, <2>2, <1>3 DEF PastBlock
      <4>2. KeyAt(pos) > key /\ KeyAt(pos) \in Nat
        BY <4>1, <2>1, <1>3
      <4>3. CASE n = pos
        BY <4>2, <4>3, <3>1 DEF KeyAt
      <4>4. CASE n > pos
        <5>1. KeyAt(pos) < KeyAt(n)
          BY <4>1, <4>4, <2>1, <2>2, <3>1, <1>3 DEF Good, KeyAt
        <5> QED BY <5>1, <4>2, <3>1 DEF KeyAt
      <4> QED BY <4>3, <4>4, <3>1, <3>3, <2>2
    <3> QED BY <3>2, <3>3, <3>1, <2>2
  <2>4. key \notin DOMAIN mem
    BY <2>1, <2>3, NotInTheBlock
  <2>5. result' = NotFound
    BY <2>1, <1>3
  <2> QED BY <2>1, <2>4, <2>5, <1>8 DEF Expected
<1> QED BY <1>1, <1>2, <1>4, <1>6, <1>7, <1>9, <1>10 DEF Get

-----------------------------------------------------------------------------
LEMMA InvInit == SstAssumption /\ Init => Inv
<1> SUFFICES ASSUME SstAssumption, Init PROVE Inv
  OBVIOUS
<1>1. PICK S \in SUBSET Keys : S # {} /\ mem \in [S -> Payloads]
  BY DEF Init
<1>2. DOMAIN mem = S /\ S \subseteq Nat
  BY <1>1 DEF SstAssumption
<1>3. EmptyBlock \in BlockType /\ EmptyBlock.entries = <<>> /\ EmptyBlock.restarts = <<>>
  BY DEF EmptyBlock, BlockType
<1>4. /\ rest = DOMAIN mem /\ block = EmptyBlock /\ index = <<>> /\ DOMAIN disk = {}
      /\ disk = [o \in {} |-> EmptyBlock] /\ offset = 0 /\ meta = [min |-> 0, max |-> 0]
      /\ pc = "write" /\ DOMAIN index = {}
  BY DEF Init
<1>5. cfg \in [restart : Nat \ {0}, block : Nat]
  BY DEF Init, SstAssumption
<1>6. FileTypes
  BY <1>1, <1>2, <1>3, <1>4, <1>5 DEF FileTypes
<1>7. GetTypes
  BY DEF Init, GetTypes
<1>8. Good(block)
  BY <1>3, <1>4 DEF Good
<1>9. \A k : ~In(block, k)
  BY <1>3, <1>4 DEF In
<1>10. IndexOK /\ BlocksInOrder /\ BlockIsNext /\ RestIsNext /\ Complete /\ Announced /\ Written
  BY <1>4, <1>9 DEF IndexOK, BlocksInOrder, BlockIsNext, RestIsNext, Complete, Announced, Written
<1>11. GetInv
  BY <1>4 DEF GetInv, AtTheBlock, NotPastTheKey, PassedSmaller, NotYet, LookupIsExact
<1> QED BY <1>6, <1>7, <1>8, <1>10, <1>11 DEF Inv, TypeOK, FileInv

LEMMA InvStep == SstAssumption /\ Inv /\ [Next]_vars => Inv'
<1> SUFFICES ASSUME SstAssumption, Inv, [Next]_vars PROVE Inv'
  OBVIOUS
<1>1. CASE FinishFile
  BY <1>1, FinishFileKeeps
<1>2. ASSUME NEW k \in rest, WriteEntry(k) PROVE Inv'
  BY <1>2, WriteEntryKeeps
<1>3. CASE Get
  BY <1>3, GetKeeps
<1>4. CASE UNCHANGED vars
  <2>1. UNCHANGED fileVars /\ UNCHANGED getVars
    BY <1>4 DEF vars
  <2>2. pc' = pc /\ key' = key /\ at' = at /\ lo' = lo /\ hi' = hi /\ pos' = pos /\ result' = result
    BY <2>1 DEF getVars
  <2>3. FileTypes' /\ FileInv' /\ mem' = mem /\ index' = index /\ \A i : BlockAt(i)' = BlockAt(i)
    BY <2>1, <2>2, FileStays
  <2>4. BlockAt(at)' = BlockAt(at)
    BY <2>2, <2>3 DEF BlockAt
  <2>5. GetTypes'
    BY <2>2 DEF Inv, TypeOK, GetTypes
  <2>6. AtTheBlock' /\ NotYet' /\ LookupIsExact'
    BY <2>2, <2>3 DEF Inv, GetInv, AtTheBlock, NotYet, LookupIsExact, Expected
  <2>7. NotPastTheKey' /\ PassedSmaller'
    BY <2>2, <2>4 DEF Inv, GetInv, NotPastTheKey, PassedSmaller, KeyAt, RestartOf
  <2> QED BY <2>3, <2>5, <2>6, <2>7 DEF Inv, TypeOK, GetInv
<1> QED BY <1>1, <1>2, <1>3, <1>4 DEF Next, Build

(* get() on a table answers with what its memtable held, for every         *)
(* memtable, block_size, restart_interval, entry size and hash function:   *)
(* write_sstable (src/src/sstable.cpp) against TableReader::get            *)
(* (src/src/table_reader.cpp).                                             *)
THEOREM LookupIsExactHolds == Spec => []LookupIsExact
<1>1. Inv => LookupIsExact
  BY DEF Inv, GetInv
<1> QED BY <1>1, InvInit, InvStep, SstAssumption, PTL DEF Spec

-----------------------------------------------------------------------------
(* The layout of the file: bytes counts the entries of a block, the index  *)
(* holds the size of each block, and blocks lie in a row.                  *)
InARow(i) == index[i].offset + index[i].size
                = IF i = Len(index) THEN offset ELSE index[i + 1].offset

LayoutInv ==
    /\ block.bytes = SizeOfEntries(block)
    /\ \A i \in DOMAIN index : /\ index[i].size = SizeOf(BlockAt(i))
                               /\ BlockAt(i).bytes = SizeOfEntries(BlockAt(i))
                               /\ InARow(i)

(* FoldLeft adds the sizes up from the first entry on.                     *)
Weights(s) == [i \in DOMAIN s |-> Bytes[s[i].val]]

LEMMA SizeIsASum ==
    ASSUME Bytes \in [Payloads -> Nat \ {0}], NEW b, b.entries \in Seq(Entry)
    PROVE  /\ Len(b.entries) \in Nat /\ DOMAIN b.entries = 1 .. Len(b.entries)
           /\ \A i \in 1 .. Len(b.entries) : /\ Weights(b.entries)[i] \in Nat
                                             /\ Weights(b.entries)[i] = Bytes[b.entries[i].val]
           /\ \E f : /\ AddsUp(f, Len(b.entries), Weights(b.entries))
                     /\ SizeOfEntries(b) = f[1 .. Len(b.entries)]
<1> DEFINE s == b.entries
           n == Len(s)
           w == Weights(s)
           F == [T \in SUBSET (1 .. n) |-> 0]
<1>1. n \in Nat /\ DOMAIN s = 1 .. n /\ \A i \in 1 .. n : s[i] \in Entry
  OBVIOUS
<1>2. \A i \in 1 .. n : w[i] = Bytes[s[i].val] /\ w[i] \in Nat
  <2>1. \A i \in 1 .. n : s[i].val \in Payloads
    BY <1>1 DEF Entry
  <2> HIDE DEF s, n
  <2> QED BY <1>1, <2>1 DEF Weights
<1> DEFINE Adds(f) == f = [T \in SUBSET (1 .. n) |->
                             IF T = {} THEN 0 ELSE f[T \ {Max(T)}] + Bytes[s[Max(T)].val]]
<1>3. SizeOfEntries(b) = (CHOOSE f : Adds(f))[1 .. n]
  <2> HIDE DEF n
  <2> QED BY <1>1 DEF SizeOfEntries, FoldLeft, MapThenFoldSet
<1>4. ASSUME NEW f
      PROVE  AddsUp(f, n, w) <=> Adds(f)
  <2> DEFINE v(T) == IF T = {} THEN 0 ELSE f[T \ {Max(T)}] + w[Max(T)]
             u(T) == IF T = {} THEN 0 ELSE f[T \ {Max(T)}] + Bytes[s[Max(T)].val]
  <2>1. \A T \in SUBSET (1 .. n) : v(T) = u(T)
    <3> SUFFICES ASSUME NEW T \in (SUBSET (1 .. n)) \ {{}}
                 PROVE  w[Max(T)] = Bytes[s[Max(T)].val]
      OBVIOUS
    <3>1. Max(T) \in T
      <4> HIDE DEF n
      <4> QED BY <1>1, MaxOfInterval
    <3>2. Max(T) \in 1 .. n
      BY <3>1
    <3> QED BY <3>2, <1>2
  <2>2. [T \in SUBSET (1 .. n) |-> v(T)] = [T \in SUBSET (1 .. n) |-> u(T)]
    <3> HIDE DEF u, v
    <3> QED BY <2>1
  <2>3. AddsUp(f, n, w) <=> f = [T \in SUBSET (1 .. n) |-> v(T)]
    BY DEF AddsUp
  <2> QED BY <2>2, <2>3
<1>5. PICK f : AddsUp(f, n, w)
  <2> HIDE DEF n, w
  <2> QED BY <1>1, <1>2, SumFunctionExists
<1>6. Adds(f)
  BY <1>4, <1>5
<1>7. Adds(CHOOSE g : Adds(g))
  <2> HIDE DEF Adds
  <2> QED BY <1>6
<1>8. AddsUp((CHOOSE g : Adds(g)), n, w)
  <2> HIDE DEF Adds
  <2> QED BY <1>7, <1>4
<1> QED BY <1>1, <1>2, <1>3, <1>8

(* No entries, no bytes; one more entry, its bytes more.                   *)
LEMMA SizeOfNothing ==
    ASSUME Bytes \in [Payloads -> Nat \ {0}], NEW b, b.entries = <<>>
    PROVE  SizeOfEntries(b) = 0
<1>1. b.entries \in Seq(Entry) /\ Len(b.entries) = 0
  OBVIOUS
<1>2. PICK f : AddsUp(f, 0, Weights(b.entries)) /\ SizeOfEntries(b) = f[1 .. 0]
  BY <1>1, SizeIsASum
<1>3. 1 .. 0 = {}
  OBVIOUS
<1> QED BY <1>2, <1>3 DEF AddsUp

LEMMA SizeGrows ==
    ASSUME Bytes \in [Payloads -> Nat \ {0}], NEW b, b.entries \in Seq(Entry),
           NEW e \in Entry, NEW x, x.entries = Append(b.entries, e)
    PROVE  SizeOfEntries(x) = SizeOfEntries(b) + Bytes[e.val] /\ SizeOfEntries(b) \in Nat
<1> DEFINE s == b.entries
           t == x.entries
           n == Len(s)
<1>1. /\ t \in Seq(Entry) /\ n \in Nat /\ Len(t) = n + 1 /\ DOMAIN s = 1 .. n
      /\ DOMAIN t = 1 .. n + 1 /\ \A i \in 1 .. n : t[i] = s[i]
      /\ t[n + 1] = e
  OBVIOUS
<1> HIDE DEF s, t, n
<1>2. PICK f : AddsUp(f, n, Weights(s)) /\ SizeOfEntries(b) = f[1 .. n]
  BY SizeIsASum DEF s, n
<1>3. PICK g : AddsUp(g, n + 1, Weights(t)) /\ SizeOfEntries(x) = g[1 .. n + 1]
  BY <1>1, SizeIsASum DEF t
<1>4. \A i \in 1 .. n : Weights(s)[i] \in Nat /\ Weights(s)[i] = Bytes[s[i].val]
  BY SizeIsASum DEF s, n
<1>5. \A i \in 1 .. n + 1 : Weights(t)[i] \in Nat /\ Weights(t)[i] = Bytes[t[i].val]
  BY <1>1, SizeIsASum DEF t
<1>6. \A i \in 1 .. n : Weights(t)[i] = Weights(s)[i]
  <2>1. \A i \in 1 .. n : i \in 1 .. n + 1
    BY <1>1
  <2> QED BY <2>1, <1>1, <1>4, <1>5
<1>7. n + 1 \in Nat /\ n <= n + 1 /\ n + 1 >= 1 /\ n + 1 <= n + 1 /\ (n + 1) - 1 = n /\ n <= n
      /\ n + 1 \in 1 .. n + 1
  BY ONLY <1>1
<1>8. g[1 .. n] = f[1 .. n] /\ g[1 .. n] \in Nat
  BY ONLY <1>1, <1>2, <1>3, <1>4, <1>5, <1>6, <1>7, SumOfPrefix
<1>9. g[1 .. n + 1] = g[1 .. n] + Weights(t)[n + 1]
  <2> DEFINE p == n + 1
  <2> HIDE DEF p
  <2>1. p \in Nat /\ p <= p /\ p >= 1 /\ p - 1 = n /\ AddsUp(g, p, Weights(t))
        /\ \A i \in 1 .. p : Weights(t)[i] \in Nat
    BY <1>3, <1>5, <1>7 DEF p
  <2>2. g[1 .. p] = g[1 .. p - 1] + Weights(t)[p]
    BY ONLY <2>1, SumOfPrefix
  <2> QED BY <2>1, <2>2 DEF p
<1>10. Weights(t)[n + 1] = Bytes[e.val]
  BY <1>1, <1>5, <1>7
<1> QED BY <1>2, <1>3, <1>8, <1>9, <1>10

(* The sizes of a block that a step leaves, or puts, at index i.           *)
LEMMA SizesAfterStep ==
    ASSUME NEW i, NEW c, BlockAt(i)' = c
    PROVE  /\ SizeOfEntries(BlockAt(i))' = SizeOfEntries(c) /\ SizeOf(BlockAt(i))' = SizeOf(c)
           /\ BlockAt(i).bytes' = c.bytes
<1>1. SizeOfEntries(BlockAt(i))' = SizeOfEntries(c)
  BY DEF SizeOfEntries, FoldLeft, MapThenFoldSet
<1>2. SizeOf(BlockAt(i))' = SizeOf(c)
  BY DEF SizeOf
<1> QED BY <1>1, <1>2

LEMMA SizeOfBlockAfterStep ==
    ASSUME NEW c, block' = c
    PROVE  SizeOfEntries(block)' = SizeOfEntries(c) /\ block.bytes' = c.bytes
BY DEF SizeOfEntries, FoldLeft, MapThenFoldSet

(* The layout is kept when no block is finished, and by FinishBlock.       *)
LEMMA LayoutStays ==
    ASSUME LayoutInv, disk' = disk, index' = index, offset' = offset,
           block'.bytes = SizeOfEntries(block')
    PROVE  LayoutInv'
<1>1. \A i : BlockAt(i)' = BlockAt(i)
  BY DEF BlockAt
<1>2. ASSUME NEW i \in DOMAIN index'
      PROVE  /\ index'[i].size = SizeOf(BlockAt(i))' /\ BlockAt(i).bytes' = SizeOfEntries(BlockAt(i))'
             /\ InARow(i)'
  <2>1. PICK c : c = BlockAt(i)
    OBVIOUS
  <2>2. BlockAt(i)' = c
    BY <1>1, <2>1
  <2>3. SizeOfEntries(BlockAt(i))' = SizeOfEntries(c) /\ SizeOf(BlockAt(i))' = SizeOf(c)
        /\ BlockAt(i).bytes' = c.bytes
    BY <2>2, SizesAfterStep
  <2>4. index[i].size = SizeOf(c) /\ c.bytes = SizeOfEntries(c) /\ InARow(i)
    BY <1>2, <2>1 DEF LayoutInv
  <2>5. InARow(i)'
    BY <2>4 DEF InARow
  <2> QED BY <2>3, <2>4, <2>5
<1>3. PICK c : c = block'
  OBVIOUS
<1>4. SizeOfEntries(block)' = SizeOfEntries(c) /\ block.bytes' = c.bytes
  BY <1>3, SizeOfBlockAfterStep
<1>5. block.bytes' = SizeOfEntries(block)'
  BY <1>3, <1>4
<1> QED BY <1>2, <1>5 DEF LayoutInv

LEMMA LayoutAppends ==
    ASSUME FileTypes, IndexOK, SstAssumption, LayoutInv,
           NEW b \in BlockType, Good(b), b.entries # <<>>, b.bytes = SizeOfEntries(b),
           FinishBlock(b)
    PROVE  LayoutInv'
<1> DEFINE L == Len(index)
           e == [first |-> b.entries[1].key, offset |-> offset, size |-> SizeOf(b)]
<1>1. /\ index' \in Seq(IndexEntry) /\ DOMAIN index' = 1 .. L + 1 /\ DOMAIN index = 1 .. L
      /\ \A i \in DOMAIN index : index'[i] = index[i] /\ BlockAt(i)' = BlockAt(i)
      /\ \A n : n = L + 1 => BlockAt(n)' = b
  <2>1. Keys \subseteq Nat
    BY DEF SstAssumption
  <2> QED BY <2>1, FinishBlockAppends
<1>2. /\ index \in Seq(IndexEntry) /\ L \in Nat /\ index' = Append(index, e)
      /\ offset' = offset + SizeOf(b) /\ block' = EmptyBlock
  BY DEF FileTypes, FinishBlock
<1>3. index'[L + 1] = e /\ Len(index') = L + 1
  <2> HIDE DEF e
  <2> QED BY <1>2
<1>4. index'[L + 1].offset = offset /\ index'[L + 1].size = SizeOf(b)
  BY <1>3
<1> HIDE DEF e
<1>5. ASSUME NEW i \in 1 .. L
      PROVE  /\ index'[i].size = SizeOf(BlockAt(i))' /\ BlockAt(i).bytes' = SizeOfEntries(BlockAt(i))'
             /\ InARow(i)'
  <2>1. PICK c : c = BlockAt(i)
    OBVIOUS
  <2>2. index'[i] = index[i] /\ BlockAt(i)' = c
    BY <1>1, <2>1
  <2>3. SizeOfEntries(BlockAt(i))' = SizeOfEntries(c) /\ SizeOf(BlockAt(i))' = SizeOf(c)
        /\ BlockAt(i).bytes' = c.bytes
    BY <2>2, SizesAfterStep
  <2>4. index[i].size = SizeOf(c) /\ c.bytes = SizeOfEntries(c) /\ InARow(i)
    BY <1>1, <2>1 DEF LayoutInv
  <2>5. index[i].offset + index[i].size = index'[i + 1].offset
    <3>1. CASE i = L
      BY <3>1, <2>4, <1>4 DEF InARow
    <3>2. CASE i # L
      <4>1. i + 1 \in 1 .. L
        BY <3>2, <1>2
      <4> QED BY <4>1, <3>2, <2>4, <1>1 DEF InARow
    <3> QED BY <3>1, <3>2
  <2>6. i # Len(index')
    BY <1>2, <1>3
  <2>7. InARow(i)'
    BY <2>2, <2>5, <2>6 DEF InARow
  <2> QED BY <2>2, <2>3, <2>4, <2>7
<1>6. ASSUME NEW i, i = L + 1
      PROVE  /\ index'[i].size = SizeOf(BlockAt(i))' /\ BlockAt(i).bytes' = SizeOfEntries(BlockAt(i))'
             /\ InARow(i)'
  <2>1. BlockAt(i)' = b
    BY <1>1, <1>6
  <2>2. SizeOfEntries(BlockAt(i))' = SizeOfEntries(b) /\ SizeOf(BlockAt(i))' = SizeOf(b)
        /\ BlockAt(i).bytes' = b.bytes
    BY <2>1, SizesAfterStep
  <2>3. InARow(i)'
    BY <1>2, <1>3, <1>4, <1>6 DEF InARow
  <2> QED BY <2>2, <2>3, <1>4, <1>6
<1>7. \A i \in DOMAIN index' : i \in 1 .. L \/ i = L + 1
  BY <1>1, <1>2
<1>8. block.bytes' = SizeOfEntries(block)'
  <2>1. EmptyBlock.entries = <<>> /\ EmptyBlock.bytes = 0
    BY DEF EmptyBlock
  <2>2. SizeOfEntries(EmptyBlock) = 0
    BY <2>1, SizeOfNothing DEF SstAssumption
  <2>3. SizeOfEntries(block)' = SizeOfEntries(EmptyBlock) /\ block.bytes' = EmptyBlock.bytes
    BY <1>2, SizeOfBlockAfterStep
  <2> QED BY <2>1, <2>2, <2>3
<1> QED BY <1>5, <1>6, <1>7, <1>8 DEF LayoutInv

LEMMA LayoutStep == SstAssumption /\ Inv /\ LayoutInv /\ [Next]_vars => LayoutInv'
<1> SUFFICES ASSUME SstAssumption, Inv, LayoutInv, [Next]_vars PROVE LayoutInv'
  OBVIOUS
<1>t. /\ FileTypes /\ IndexOK /\ Good(block) /\ block \in BlockType /\ Keys \subseteq Nat
      /\ Bytes \in [Payloads -> Nat \ {0}] /\ DOMAIN mem \subseteq Keys
      /\ mem \in [DOMAIN mem -> Payloads] /\ rest \subseteq DOMAIN mem
      /\ cfg \in [restart : Nat \ {0}, block : Nat]
      /\ block.bytes = SizeOfEntries(block)
  BY DEF Inv, TypeOK, FileTypes, FileInv, SstAssumption, LayoutInv
<1>1. ASSUME NEW k \in rest, WriteEntry(k) PROVE LayoutInv'
  <2> DEFINE e == [key |-> k, val |-> mem[k]]
             x == Extended(block, e)
  <2>1. \/ FinishBlock(x)
        \/ block' = x /\ UNCHANGED <<disk, index, offset>>
    BY <1>1 DEF WriteEntry
  <2>2. x \in BlockType /\ Good(x) /\ x.entries # <<>>
    <3>1. \A m \in Keys : In(block, m) => m < k
      BY DEF Inv, FileInv, RestIsNext
    <3>2. k \in DOMAIN mem
      BY <1>t
    <3> QED BY <3>1, <3>2, <1>t, ExtendedIsGood
  <2>3. x.bytes = SizeOfEntries(x)
    <3>1. e \in Entry /\ block.entries \in Seq(Entry)
      BY <1>t DEF Entry, BlockType
    <3>2. x.entries = Append(block.entries, e) /\ x.bytes = block.bytes + Bytes[e.val]
      BY DEF Extended
    <3> HIDE DEF x, e
    <3>3. SizeOfEntries(x) = SizeOfEntries(block) + Bytes[e.val]
      BY <3>1, <3>2, <1>t, SizeGrows
    <3> QED BY <3>2, <3>3, <1>t
  <2> HIDE DEF x
  <2>4. CASE FinishBlock(x)
    BY <2>2, <2>3, <2>4, <1>t, LayoutAppends
  <2>5. CASE block' = x /\ UNCHANGED <<disk, index, offset>>
    BY <2>3, <2>5, LayoutStays
  <2> QED BY <2>1, <2>4, <2>5
<1>2. CASE FinishFile
  <2>1. \/ block.entries # <<>> /\ FinishBlock(block)
        \/ UNCHANGED <<block, disk, index, offset>>
    BY <1>2 DEF FinishFile, BlockLeft
  <2>2. CASE block.entries # <<>> /\ FinishBlock(block)
    BY <2>2, <1>t, LayoutAppends
  <2>3. CASE UNCHANGED <<block, disk, index, offset>>
    <3>1. PICK c : c = block
      OBVIOUS
    <3> QED BY <2>3, <1>t, LayoutStays
  <2> QED BY <2>1, <2>2, <2>3
<1>3. ASSUME UNCHANGED fileVars PROVE LayoutInv'
  BY <1>3, <1>t, LayoutStays DEF fileVars
<1>4. CASE Get
  BY <1>3, <1>4 DEF Get, Ask, SearchIndex, Narrow, StartScan, ScanOn, Hit, Miss
<1>5. CASE UNCHANGED vars
  BY <1>3, <1>5 DEF vars
<1> QED BY <1>1, <1>2, <1>4, <1>5 DEF Next, Build

(* For every memtable, block_size and restart_interval the blocks that     *)
(* write_sstable lays out lie in a row up to the index block, none without *)
(* a restart point: TableReader::get and scan_sstable, which have only the *)
(* size from the index, find where the entries of a block end.             *)
THEOREM WrittenFileVerifiesHolds == Spec => []WrittenFileVerifies
<1>1. SstAssumption /\ Init => LayoutInv
  <2> SUFFICES ASSUME SstAssumption, Init PROVE LayoutInv
    OBVIOUS
  <2>1. block = EmptyBlock /\ DOMAIN index = {} /\ EmptyBlock.entries = <<>> /\ EmptyBlock.bytes = 0
    BY DEF Init, EmptyBlock
  <2>2. SizeOfEntries(EmptyBlock) = 0
    BY <2>1, SizeOfNothing DEF SstAssumption
  <2> QED BY <2>1, <2>2 DEF LayoutInv
<1>2. SstAssumption /\ Inv /\ LayoutInv => WrittenFileVerifies
  <2> SUFFICES ASSUME SstAssumption, Inv, LayoutInv, NEW i \in DOMAIN index
               PROVE  /\ InARow(i) /\ BlockAt(i).restarts # <<>>
                      /\ EntriesEnd(i) = SizeOfEntries(BlockAt(i))
    BY DEF WrittenFileVerifies, InARow
  <2> DEFINE b == BlockAt(i)
             r == Len(b.restarts)
  <2>1. InARow(i) /\ index[i].size = SizeOf(b) /\ b.bytes = SizeOfEntries(b)
    BY DEF LayoutInv
  <2>2. r \in Nat /\ r >= 1 /\ b.bytes \in Nat
    BY BlockIsGood DEF Inv, TypeOK, FileTypes, FileInv, IndexOK, BlockAt, BlockType
  <2>3. b.restarts # <<>>
    BY <2>2
  <2>4. EntriesEnd(i) = b.bytes
    BY <2>1, <2>2 DEF EntriesEnd, SizeOf
  <2> QED BY <2>1, <2>3, <2>4
<1> QED BY <1>1, <1>2, InvInit, InvStep, LayoutStep, SstAssumption, PTL DEF Spec

-----------------------------------------------------------------------------
(* The scan.  Blocks one after the other give the memtable's entries once, *)
(* in key order.                                                           *)
InKeyOrder(s) == \A i, j \in DOMAIN s : i < j => s[i].key < s[j].key
Below(s, t) == \A i \in DOMAIN s, j \in DOMAIN t : s[i].key < t[j].key

LEMMA ConcatInOrder ==
    ASSUME NEW s \in Seq(Entry), NEW t \in Seq(Entry), InKeyOrder(s), InKeyOrder(t), Below(s, t)
    PROVE  /\ s \o t \in Seq(Entry) /\ InKeyOrder(s \o t)
           /\ Range(s \o t) = Range(s) \cup Range(t)
<1> DEFINE u == s \o t
           m == Len(s)
           n == Len(t)
<1>1. /\ u \in Seq(Entry) /\ m \in Nat /\ n \in Nat /\ DOMAIN s = 1 .. m /\ DOMAIN t = 1 .. n
      /\ DOMAIN u = 1 .. m + n
      /\ \A i \in 1 .. m : u[i] = s[i]
      /\ \A i \in m + 1 .. m + n : u[i] = t[i - m]
  OBVIOUS
<1> HIDE DEF u, m, n
<1>2. ASSUME NEW i \in 1 .. m + n
      PROVE  \/ i \in 1 .. m
             \/ i \in m + 1 .. m + n /\ i - m \in 1 .. n
  BY <1>1
<1>3. ASSUME NEW i \in 1 .. m + n, NEW j \in 1 .. m + n, i < j
      PROVE  u[i].key < u[j].key
  <2>1. CASE i \in 1 .. m /\ j \in 1 .. m
    BY <2>1, <1>1, <1>3 DEF InKeyOrder
  <2>2. CASE i \in 1 .. m /\ j \in m + 1 .. m + n /\ j - m \in 1 .. n
    BY <2>2, <1>1 DEF Below
  <2>3. CASE i \in m + 1 .. m + n /\ i - m \in 1 .. n /\ j \in m + 1 .. m + n /\ j - m \in 1 .. n
    <3>1. i - m < j - m
      BY <1>1, <1>3
    <3> QED BY <2>3, <3>1, <1>1 DEF InKeyOrder
  <2>4. ~(i \in m + 1 .. m + n /\ j \in 1 .. m)
    BY <1>1, <1>3
  <2> QED BY <2>1, <2>2, <2>3, <2>4, <1>2
<1>4. InKeyOrder(u)
  BY <1>1, <1>3 DEF InKeyOrder
<1>5. ASSUME NEW i \in 1 .. m
      PROVE  i \in 1 .. m + n /\ u[i] = s[i]
  BY <1>1
<1>6. ASSUME NEW i \in 1 .. n
      PROVE  m + i \in 1 .. m + n /\ u[m + i] = t[i]
  <2>1. m + i \in m + 1 .. m + n /\ (m + i) - m = i /\ m + i \in 1 .. m + n
    BY <1>1
  <2> QED BY <2>1, <1>1
<1>7. Range(u) \subseteq Range(s) \cup Range(t)
  BY <1>1, <1>2 DEF Range
<1>8. Range(s) \subseteq Range(u) /\ Range(t) \subseteq Range(u)
  <2>1. \A e \in Range(s) : e \in Range(u)
    BY <1>1, <1>5 DEF Range
  <2>2. \A e \in Range(t) : e \in Range(u)
    <3> SUFFICES ASSUME NEW i \in 1 .. n PROVE t[i] \in Range(u)
      BY <1>1 DEF Range
    <3>1. m + i \in DOMAIN u /\ t[i] = u[m + i]
      BY <1>1, <1>6
    <3> QED BY <3>1 DEF Range
  <2> QED BY <2>1, <2>2
<1> QED BY <1>1, <1>4, <1>7, <1>8 DEF u

(* FlattenSeq of blocks in key order is in key order and loses nothing.    *)
LEMMA FlattenInOrder ==
    ASSUME NEW ss \in Seq(Seq(Entry)),
           \A i \in DOMAIN ss : InKeyOrder(ss[i]),
           \A i, j \in DOMAIN ss : i < j => Below(ss[i], ss[j])
    PROVE  /\ InKeyOrder(FlattenSeq(ss))
           /\ Range(FlattenSeq(ss)) = UNION {Range(ss[i]) : i \in DOMAIN ss}
<1> DEFINE n == Len(ss)
<1>1. n \in Nat /\ DOMAIN ss = 1 .. n /\ \A i \in 1 .. n : ss[i] \in Seq(Entry)
  OBVIOUS
<1>2. CASE n = 0
  <2>1. ss = <<>> /\ DOMAIN ss = {}
    BY <1>1, <1>2
  <2>2. FlattenSeq(ss) = ss
    BY <1>2 DEF FlattenSeq
  <2> QED BY <2>1, <2>2 DEF InKeyOrder, Range
<1>3. CASE n # 0
  <2>1. PICK f : IsFlattening(f, ss, Entry) /\ FlattenSeq(ss) = f[n]
    BY <1>3, FlattenFacts
  <2>2. /\ \A i \in 1 .. n : f[i] \in Seq(Entry)
        /\ f[1] = ss[1]
        /\ \A i \in 2 .. n : f[i] = f[i - 1] \o ss[i]
    BY <2>1 DEF IsFlattening
  <2> DEFINE First(k) == InKeyOrder(f[k]) /\ Range(f[k]) = UNION {Range(ss[i]) : i \in 1 .. k}
             K == {k \in Nat : k + 1 \in 1 .. n => First(k + 1)}
  <2> HIDE DEF n
  <2>3. 0 \in K
    <3>1. 1 \in 1 .. n /\ 0 + 1 = 1 /\ 1 .. 1 = {1}
      BY <1>1, <1>3
    <3>2. First(1)
      BY <3>1, <2>2, <1>1
    <3> HIDE DEF First
    <3> QED BY <3>1, <3>2
  <2>4. ASSUME NEW k \in K
        PROVE  k + 1 \in K
    <3> DEFINE j == k + 1
    <3> SUFFICES ASSUME j + 1 \in 1 .. n PROVE First(j + 1)
      OBVIOUS
    <3>1. /\ j \in 1 .. n /\ j \in Nat /\ j + 1 \in 2 .. n /\ (j + 1) - 1 = j
          /\ 1 .. j + 1 = (1 .. j) \cup {j + 1} /\ \A i \in 1 .. j : i \in 1 .. n /\ i < j + 1
      BY <1>1
    <3>2. First(j)
      BY <3>1
    <3> HIDE DEF j
    <3> DEFINE s == f[j]
               t == ss[j + 1]
    <3>3. f[j + 1] = s \o t /\ s \in Seq(Entry) /\ t \in Seq(Entry) /\ InKeyOrder(s) /\ InKeyOrder(t)
      BY <3>1, <3>2, <2>2, <1>1
    <3>4. Below(s, t)
      <4>1. ASSUME NEW p \in DOMAIN s, NEW q \in DOMAIN t
            PROVE  s[p].key < t[q].key
        <5>1. s[p] \in Range(s)
          BY DEF Range
        <5>2. PICK i \in 1 .. j : s[p] \in Range(ss[i])
          BY <5>1, <3>2
        <5>3. PICK m \in DOMAIN ss[i] : s[p] = ss[i][m]
          BY <5>2 DEF Range
        <5>4. Below(ss[i], t)
          BY <3>1, <1>1
        <5> QED BY <5>3, <5>4 DEF Below
      <4> QED BY <4>1 DEF Below
    <3>5. InKeyOrder(f[j + 1]) /\ Range(f[j + 1]) = Range(s) \cup Range(t)
      <4> HIDE DEF s, t
      <4> QED BY <3>3, <3>4, ConcatInOrder
    <3>6. UNION {Range(ss[i]) : i \in 1 .. j + 1} = (UNION {Range(ss[i]) : i \in 1 .. j}) \cup Range(t)
      BY <3>1
    <3> QED BY <3>2, <3>5, <3>6
  <2>5. K = Nat
    <3>1. K \in SUBSET Nat
      OBVIOUS
    <3> HIDE DEF K
    <3> QED BY <2>3, <2>4, <3>1, InductionOnASet
  <2>6. First(n)
    <3> HIDE DEF First
    <3>1. n - 1 \in Nat /\ (n - 1) + 1 = n /\ n \in 1 .. n
      BY ONLY <1>1, <1>3
    <3>2. n - 1 \in K
      <4> HIDE DEF K
      <4> QED BY <3>1, <2>5
    <3>3. (n - 1) + 1 \in 1 .. n => First((n - 1) + 1)
      BY <3>2
    <3> HIDE DEF K
    <3> QED BY <3>1, <3>3
  <2> QED BY <2>1, <2>6, <1>1
<1> QED BY <1>2, <1>3

(* scan_sstable hands on every entry of the memtable that write_sstable    *)
(* was given, once and in key order, whatever blocks it was cut into: what *)
(* a compaction merges is what was flushed.                                *)
THEOREM ScanDeliversAllHolds == Spec => []ScanDeliversAll
<1>1. SstAssumption /\ Inv => ScanDeliversAll
  <2> SUFFICES ASSUME SstAssumption, Inv, pc # "write"
               PROVE  /\ Range(Scanned) = {[key |-> k, val |-> mem[k]] : k \in DOMAIN mem}
                      /\ InKeyOrder(Scanned)
    BY DEF ScanDeliversAll, InKeyOrder
  <2> DEFINE ss == [i \in DOMAIN index |-> BlockAt(i).entries]
             A == {[key |-> k, val |-> mem[k]] : k \in DOMAIN mem}
  <2>1. /\ DOMAIN index = 1 .. Len(index) /\ Len(index) \in Nat /\ DOMAIN mem \subseteq Keys
        /\ Keys \subseteq Nat /\ rest = {} /\ block.entries = <<>>
    BY DEF Inv, TypeOK, FileTypes, FileInv, Written, SstAssumption
  <2>2. ASSUME NEW i \in DOMAIN index
        PROVE  /\ ss[i] = BlockAt(i).entries /\ ss[i] \in Seq(Entry) /\ InKeyOrder(ss[i])
               /\ Range(ss[i]) \subseteq A
    <3>1. BlockAt(i).entries \in Seq(Entry) /\ Good(BlockAt(i))
      BY DEF Inv, TypeOK, FileTypes, FileInv, IndexOK, BlockAt, BlockType
    <3>2. InKeyOrder(BlockAt(i).entries)
      BY <3>1 DEF Good, InKeyOrder
    <3>3. ASSUME NEW n \in DOMAIN BlockAt(i).entries
          PROVE  BlockAt(i).entries[n] \in A
      <4> DEFINE e == BlockAt(i).entries[n]
      <4>1. e \in Entry /\ e.key \in DOMAIN mem /\ e.val = mem[e.key]
        BY <3>1 DEF Good
      <4> HIDE DEF e
      <4>2. e = [key |-> e.key, val |-> e.val]
        BY <4>1 DEF Entry
      <4>3. e \in A
        BY <4>1, <4>2
      <4> QED BY <4>3 DEF e
    <3> QED BY <3>1, <3>2, <3>3 DEF Range
  <2>3. ASSUME NEW i \in DOMAIN index, NEW j \in DOMAIN index, i < j
        PROVE  Below(ss[i], ss[j])
    <3>1. ASSUME NEW m \in DOMAIN BlockAt(i).entries, NEW n \in DOMAIN BlockAt(j).entries
          PROVE  BlockAt(i).entries[m].key < BlockAt(j).entries[n].key
      <4> DEFINE k == BlockAt(i).entries[m].key
                 l == BlockAt(j).entries[n].key
                 g == BlockAt(j).entries[1].key
      <4>1. k \in Keys /\ In(BlockAt(i), k)
        BY <2>1, BlockIsGood DEF Good, In
      <4>2. k < index[j].first
        BY <4>1, <2>3 DEF Inv, FileInv, BlocksInOrder
      <4>3. /\ index[j].first = g /\ Good(BlockAt(j)) /\ l \in Nat /\ g \in Nat /\ k \in Nat
            /\ 1 \in DOMAIN BlockAt(j).entries /\ n \in Nat /\ n >= 1
        <5>1. k \in Nat
          BY <4>1, <2>1
        <5>2. /\ index[j].first = g /\ Good(BlockAt(j)) /\ l \in Nat
              /\ Len(BlockAt(j).entries) \in Nat /\ Len(BlockAt(j).entries) >= 1
              /\ DOMAIN BlockAt(j).entries = 1 .. Len(BlockAt(j).entries)
          BY BlockIsGood
        <5>3. g \in Nat /\ 1 \in DOMAIN BlockAt(j).entries
          BY <5>2, BlockIsGood
        <5> QED BY <5>1, <5>2, <5>3
      <4>4. g <= l
        <5>1. CASE n = 1
          BY <5>1, <4>3
        <5>2. CASE n > 1
          <6>1. g < l
            BY <5>2, <4>3 DEF Good
          <6> QED BY <6>1, <4>3
        <5> QED BY <5>1, <5>2, <4>3
      <4> QED BY <4>2, <4>3, <4>4
    <3> QED BY <3>1, <2>2 DEF Below
  <2>4. ss \in Seq(Seq(Entry)) /\ DOMAIN ss = DOMAIN index
    <3>1. ss \in [1 .. Len(index) -> Seq(Entry)]
      BY <2>1, <2>2
    <3> HIDE DEF ss
    <3>2. Seq(Seq(Entry)) = UNION {[1 .. n -> Seq(Entry)] : n \in Nat}
      BY ONLY SeqDef
    <3> QED BY <3>1, <3>2, <2>1
  <2>5. InKeyOrder(FlattenSeq(ss)) /\ Range(FlattenSeq(ss)) = UNION {Range(ss[i]) : i \in DOMAIN ss}
    <3> HIDE DEF ss, A
    <3> QED BY <2>2, <2>3, <2>4, FlattenInOrder
  <2>6. UNION {Range(ss[i]) : i \in DOMAIN ss} = A
    <3>1. ASSUME NEW k \in DOMAIN mem
          PROVE  \E i \in DOMAIN index : [key |-> k, val |-> mem[k]] \in Range(ss[i])
      <4>1. PICK i \in DOMAIN index : In(BlockAt(i), k)
        <5>1. ~In(block, k)
          BY <2>1 DEF In
        <5> QED BY <5>1, <2>1 DEF Inv, FileInv, Complete
      <4>2. PICK n \in DOMAIN BlockAt(i).entries : BlockAt(i).entries[n].key = k
        BY <4>1 DEF In
      <4> DEFINE e == BlockAt(i).entries[n]
      <4>3. e \in Entry /\ e.val = mem[k] /\ e.key = k
        <5>1. e \in Entry
          BY <2>2
        <5>2. Good(BlockAt(i))
          BY BlockIsGood
        <5> QED BY <5>1, <5>2, <4>2 DEF Good
      <4>4. e \in Range(ss[i])
        BY <2>2 DEF Range
      <4> HIDE DEF e, ss
      <4>5. e = [key |-> k, val |-> mem[k]]
        BY <4>3 DEF Entry
      <4> QED BY <4>4, <4>5
    <3>2. \A i \in DOMAIN index : Range(ss[i]) \subseteq A
      BY <2>2
    <3> HIDE DEF ss
    <3>3. A \subseteq UNION {Range(ss[i]) : i \in DOMAIN ss}
      BY <3>1, <2>4
    <3> HIDE DEF A
    <3> QED BY <3>2, <3>3, <2>4
  <2>7. Scanned = FlattenSeq(ss)
    BY DEF Scanned
  <2> HIDE DEF ss, A
  <2>8. Range(Scanned) = A /\ InKeyOrder(Scanned)
    BY <2>5, <2>6, <2>7
  <2> QED BY <2>8 DEF A
<1> QED BY <1>1, InvInit, InvStep, SstAssumption, PTL DEF Spec
=============================================================================
