--------------------------- MODULE TableReadsProofs ---------------------------
(***************************************************************************)
(* Proofs about module TableReads: for any threads, tables, blocks, sizes  *)
(* and cache capacity, no block is read from disk by two threads at once,  *)
(* every thread searches the block it asked for, and a table whose footer  *)
(* was validated at startup is never read without one; the cache's list,   *)
(* map and byte count agree, and the block used least recently goes first. *)
(*                                                                         *)
(* The argument: io_mutex_ is exclusive from ensure_open to the end of     *)
(* get(), a block's key names its table, and the cache maps each key to    *)
(* the block of that key.  The cache's list is the beginning of the list   *)
(* of all blocks used, latest first, and any longer beginning of that list *)
(* would not fit.                                                          *)
(***************************************************************************)
EXTENDS TableReads, CommonLemmas

GetRec == [pc : Locked \cup {"idle", "lock"}, key : Block \cup {NoBlock},
           block : Block \cup {NoBlock}]

Typed ==
    /\ get \in [Threads -> GetRec]
    /\ \A r \in Threads : get[r].pc # "idle" => get[r].key \in Block

Exclusive ==
    \A r, q \in Threads :
        r # q /\ get[r].pc \in Locked /\ get[q].pc \in Locked => Table(r) # Table(q)

CacheIsTrue ==
    /\ \A k \in DOMAIN map : map[k] = k
    /\ \A r \in Threads : get[r].pc \in {"insert", "scan"} => get[r].block = get[r].key

Absent == \A r \in Threads : get[r].pc \in {"read", "insert"} => get[r].key \notin DOMAIN map

Inv == Typed /\ Exclusive /\ CacheIsTrue /\ Absent /\ Startup \subseteq footer

(* A thread that goes from one place to another under the lock it has.     *)
LEMMA Moves ==
    ASSUME Inv, NEW r \in Threads, NEW pc \in Locked, NEW b \in Block \cup {NoBlock},
           get[r].pc \in Locked,
           get' = [get EXCEPT ![r].pc = pc, ![r].block = b],
           pc \in {"insert", "scan"} => b = get[r].key,
           \A k \in DOMAIN map' : map'[k] = k,
           DOMAIN map' \subseteq DOMAIN map \cup {get[r].key},
           get[r].key \in DOMAIN map' => pc \notin {"read", "insert"},
           footer \subseteq footer'
    PROVE  Inv'
<1>1. /\ get \in [Threads -> GetRec] /\ get[r] \in GetRec
      /\ get[r].pc # "idle" /\ get[r].key \in Block
  BY DEF Inv, Typed, Locked
<1>2. /\ get' \in [Threads -> GetRec]
      /\ get'[r].pc = pc /\ get'[r].key = get[r].key /\ get'[r].block = b
      /\ \A q \in Threads : q # r => get'[q] = get[q]
  BY <1>1 DEF GetRec
<1>3. Typed'
  BY <1>1, <1>2 DEF Inv, Typed
<1>4. Exclusive'
  BY <1>2 DEF Inv, Exclusive, Table
<1>5. CacheIsTrue'
  BY <1>2 DEF Inv, CacheIsTrue
<1>6. Absent'
  <2> SUFFICES ASSUME NEW q \in Threads, get'[q].pc \in {"read", "insert"}, get'[q].key \in DOMAIN map'
               PROVE  FALSE
    BY DEF Absent
  <2>1. CASE q = r
    BY <2>1, <1>2
  <2>2. CASE q # r
    <3>1. get[q].pc \in {"read", "insert"} /\ get[q].key \notin DOMAIN map /\ get[q].key \in DOMAIN map'
      BY <2>2, <1>2 DEF Inv, Absent
    <3>2. get[q].key = get[r].key
      BY <3>1
    <3>3. Table(q) # Table(r)
      BY <2>2, <3>1 DEF Inv, Exclusive, Locked
    <3> QED BY <3>2, <3>3 DEF Table
  <2> QED BY <2>1, <2>2
<1> QED BY <1>3, <1>4, <1>5, <1>6 DEF Inv

(* A thread whose get() is over, in whatever way.                          *)
LEMMA Returns ==
    ASSUME Inv, NEW r \in Threads, Return(r), UNCHANGED <<map, footer>>
    PROVE  Inv'
<1>1. NoGet \in GetRec /\ NoGet.pc = "idle"
  BY DEF NoGet, GetRec, Locked
<1>2. get' \in [Threads -> GetRec] /\ get'[r] = NoGet /\ \A q \in Threads : q # r => get'[q] = get[q]
  BY <1>1 DEF Return, Inv, Typed
<1>3. "idle" \notin Locked \cup {"read", "insert", "scan"}
  BY DEF Locked
<1>4. Typed' /\ Exclusive'
  BY <1>1, <1>2, <1>3 DEF Inv, Typed, Exclusive, Table
<1>5. CacheIsTrue' /\ Absent'
  BY <1>1, <1>2, <1>3 DEF Inv, CacheIsTrue, Absent
<1> QED BY <1>4, <1>5 DEF Inv

LEMMA CallKeepsInv ==
    ASSUME Inv, NEW r \in Threads, NEW k \in Block, Call(r, k)
    PROVE  Inv'
<1> DEFINE g == [NoGet EXCEPT !.pc = "lock", !.key = k]
<1>1. g \in GetRec /\ g.pc = "lock" /\ g.key = k
  BY DEF NoGet, GetRec
<1>2. get' = [get EXCEPT ![r] = g] /\ UNCHANGED <<map, footer>>
  BY DEF Call, handles, cache
<1> HIDE DEF g
<1>3. get' \in [Threads -> GetRec] /\ get'[r] = g /\ \A q \in Threads : q # r => get'[q] = get[q]
  BY <1>1, <1>2 DEF Inv, Typed
<1>4. "lock" \notin Locked \cup {"read", "insert", "scan"}
  BY DEF Locked
<1>5. Typed' /\ Exclusive'
  BY <1>1, <1>3, <1>4 DEF Inv, Typed, Exclusive, Table
<1>6. CacheIsTrue' /\ Absent'
  BY <1>1, <1>2, <1>3, <1>4 DEF Inv, CacheIsTrue, Absent
<1> QED BY <1>2, <1>5, <1>6 DEF Inv

LEMMA LockKeepsInv ==
    ASSUME Inv, NEW r \in Threads, Lock(r)
    PROVE  Inv'
<1>1. get[r] \in GetRec /\ get[r].pc = "lock" /\ Free(Table(r)) /\ get' = [get EXCEPT ![r].pc = "open"]
      /\ UNCHANGED <<map, footer>>
  BY DEF Inv, Typed, Lock, At, Go, handles, cache
<1>2. /\ get' \in [Threads -> GetRec] /\ get'[r].pc = "open" /\ get'[r].key = get[r].key
      /\ \A q \in Threads : q # r => get'[q] = get[q]
  BY <1>1 DEF Inv, Typed, GetRec, Locked
<1>3. \A q \in Threads : get[q].pc \in Locked => Table(q) # Table(r)
  BY <1>1 DEF Free, Holds
<1>4. Typed'
  BY <1>1, <1>2 DEF Inv, Typed
<1>5. Exclusive'
  BY <1>1, <1>2, <1>3 DEF Inv, Exclusive, Table
<1>6. CacheIsTrue' /\ Absent'
  BY <1>1, <1>2 DEF Inv, CacheIsTrue, Absent
<1> QED BY <1>1, <1>4, <1>5, <1>6 DEF Inv

LEMMA InsertKeepsInv ==
    ASSUME Inv, NEW r \in Threads, Insert(r)
    PROVE  Inv'
<1>1. get[r].pc = "insert" /\ get' = [get EXCEPT ![r].pc = "scan"] /\ footer' = footer
  BY DEF Insert, At, Go, CacheKey, handles
<1>2. get[r] \in GetRec /\ get[r].block = get[r].key /\ get[r].block \in Block
  BY <1>1 DEF Inv, Typed, CacheIsTrue
<1>3. get' = [get EXCEPT ![r].pc = "scan", ![r].block = get[r].block]
  BY <1>1, <1>2 DEF Inv, Typed, GetRec
<1>4. DOMAIN map' \subseteq DOMAIN map \cup {get[r].key} /\ \A k \in DOMAIN map' : map'[k] = k
  <2> DEFINE m == [x \in DOMAIN map \cup {get[r].key} |->
                     IF x = get[r].key THEN get[r].block ELSE map[x]]
  <2>1. map' = map \/ \E E : map' = [x \in DOMAIN m \ E |-> m[x]]
    BY DEF Insert, CacheKey
  <2>2. \A k \in DOMAIN map : map[k] = k
    BY DEF Inv, CacheIsTrue
  <2>3. \A k \in DOMAIN m : m[k] = k
    BY <2>2, <1>2
  <2> QED BY <2>1, <2>2, <2>3
<1>5. "scan" \in Locked /\ "insert" \in Locked
  BY DEF Locked
<1> QED BY <1>1, <1>2, <1>3, <1>4, <1>5, Moves

LEMMA FindKeepsInv ==
    ASSUME Inv, NEW r \in Threads, Find(r)
    PROVE  Inv'
<1> DEFINE k == get[r].key
<1>1. get[r].pc = "find" /\ UNCHANGED <<map, footer>>
  BY DEF Find, At, handles
<1>2. get[r] \in GetRec /\ k \in Block /\ get[r].block \in Block \cup {NoBlock}
  BY <1>1 DEF Inv, Typed, GetRec
<1>3. \A j \in DOMAIN map : map[j] = j
  BY DEF Inv, CacheIsTrue
<1>4. {"find", "scan", "read"} \subseteq Locked
  BY DEF Locked
<1>5. CASE k \in DOMAIN map
  <2>1. get' = [get EXCEPT ![r].pc = "scan", ![r].block = map[k]] /\ map[k] = k
    BY <1>3, <1>5 DEF Find, CacheKey
  <2> HIDE DEF k
  <2> QED BY <2>1, <1>1, <1>2, <1>3, <1>4, Moves DEF k
<1>6. CASE k \notin DOMAIN map
  <2>1. get' = [get EXCEPT ![r].pc = "read"]
    BY <1>6 DEF Find, CacheKey, Go
  <2>2. get' = [get EXCEPT ![r].pc = "read", ![r].block = get[r].block]
    BY <2>1, <1>2 DEF Inv, Typed, GetRec
  <2> QED BY <2>2, <1>1, <1>2, <1>3, <1>4, <1>6, Moves
<1> QED BY <1>5, <1>6

LEMMA InsideKeepsInv ==
    ASSUME Inv, NEW r \in Threads, Inside(r)
    PROVE  Inv'
<1>1. /\ get \in [Threads -> GetRec] /\ get[r] \in GetRec
      /\ \A k \in DOMAIN map : map[k] = k
  BY DEF Inv, Typed, CacheIsTrue
<1>2. ASSUME NEW pc \in {"bloom", "footer", "index", "find"}, Go(r, pc), map' = map, footer \subseteq footer',
             get[r].pc \in Locked
      PROVE  Inv'
  <2>1. get' = [get EXCEPT ![r].pc = pc, ![r].block = get[r].block] /\ get[r].block \in Block \cup {NoBlock}
    BY <1>1, <1>2 DEF Go, GetRec
  <2>2. pc \in Locked /\ pc \notin {"read", "insert", "scan"}
    BY DEF Locked
  <2> QED BY <2>1, <2>2, <1>1, <1>2, Moves
<1>3. CASE AlreadyOpen(r) \/ Open(r) \/ LoadFooter(r) \/ HaveBloom(r) \/ LoadBloom(r) \/ LoadIndex(r)
  <2>1. \E pc \in {"bloom", "footer", "index", "find"} : Go(r, pc)
    BY <1>3 DEF AlreadyOpen, Open, LoadFooter, HaveBloom, LoadBloom, LoadIndex
  <2>2. map' = map /\ footer \subseteq footer' /\ get[r].pc \in Locked
    BY <1>3 DEF AlreadyOpen, Open, LoadFooter, HaveBloom, LoadBloom, LoadIndex, At, handles, cache, Locked
  <2> QED BY <2>1, <2>2, <1>2
<1>4. CASE \/ OpenFails(r) \/ LoadFooterFails(r) \/ LoadBloomFails(r) \/ LoadIndexFails(r)
           \/ ReadBlockFails(r) \/ Answer(r)
  BY <1>4, Returns DEF OpenFails, LoadFooterFails, LoadBloomFails, LoadIndexFails,
                       ReadBlockFails, Answer, Throw, handles, cache
<1>5. CASE LoadBloomWithoutFooter(r)
  BY <1>5 DEF LoadBloomWithoutFooter, Inv, Typed, Exclusive, Table, CacheIsTrue, Absent, handles, cache
<1>6. CASE ReadBlock(r)
  <2>1. /\ get[r].pc = "read" /\ get[r].key \in Block /\ get[r].key \notin DOMAIN map
        /\ get' = [get EXCEPT ![r].pc = "insert", ![r].block = get[r].key]
        /\ UNCHANGED <<map, footer>>
    BY <1>6 DEF ReadBlock, At, handles, cache, Inv, Typed, Absent
  <2>2. "read" \in Locked /\ "insert" \in Locked
    BY DEF Locked
  <2> QED BY <2>1, <2>2, <1>1, Moves
<1> QED BY <1>3, <1>4, <1>5, <1>6, FindKeepsInv, InsertKeepsInv DEF Inside

LEMMA InvIsInvariant == Spec => []Inv
<1>1. Init => Inv
  <2> SUFFICES ASSUME Init PROVE Inv
    OBVIOUS
  <2>1. NoGet \in GetRec /\ NoGet.pc = "idle"
    BY DEF NoGet, GetRec, Locked
  <2>2. get \in [Threads -> GetRec] /\ (\A r \in Threads : get[r].pc = "idle") /\ DOMAIN map = {}
    BY <2>1 DEF Init
  <2>3. "idle" \notin Locked \cup {"read", "insert", "scan"}
    BY DEF Locked
  <2>4. Startup \subseteq footer
    BY DEF Init, validate_footer
  <2> QED BY <2>2, <2>3, <2>4 DEF Inv, Typed, Exclusive, CacheIsTrue, Absent
<1>2. Inv /\ [Next]_vars => Inv'
  <2> SUFFICES ASSUME Inv, [Next]_vars PROVE Inv'
    OBVIOUS
  <2>1. ASSUME NEW r \in Threads, NEW k \in Block, Call(r, k) PROVE Inv'
    BY <2>1, CallKeepsInv
  <2>2. ASSUME NEW r \in Threads, Lock(r) PROVE Inv'
    BY <2>2, LockKeepsInv
  <2>3. ASSUME NEW r \in Threads, Inside(r) PROVE Inv'
    BY <2>3, InsideKeepsInv
  <2>4. CASE UNCHANGED vars
    BY <2>4 DEF vars, handles, cache, Inv, Typed, Exclusive, Table, CacheIsTrue, Absent
  <2> QED BY <2>1, <2>2, <2>3, <2>4 DEF Next
<1> QED BY <1>1, <1>2, PTL DEF Spec

(* TableReader::get holds io_mutex_ over lookup, read and insertion        *)
(* (table_reader.cpp): no two threads read the same block at once, and     *)
(* none reads what the cache has.                                          *)
THEOREM NoBlockReadTwiceHolds == Spec => []NoBlockReadTwice
<1>1. Inv => NoBlockReadTwice
  <2> SUFFICES ASSUME Inv, NEW r \in Threads, get[r].pc \in {"read", "insert"}
               PROVE  /\ get[r].key \notin DOMAIN map
                      /\ \A q \in Threads \ {r} :
                            get[q].pc \in {"read", "insert"} => get[q].key # get[r].key
    BY DEF NoBlockReadTwice
  <2>1. get[r].key \notin DOMAIN map
    BY DEF Inv, Absent
  <2>2. ASSUME NEW q \in Threads \ {r}, get[q].pc \in {"read", "insert"} PROVE get[q].key # get[r].key
    <3>1. Table(q) # Table(r)
      BY <2>2 DEF Inv, Exclusive, Locked
    <3> QED BY <3>1 DEF Table
  <2> QED BY <2>1, <2>2
<1> QED BY <1>1, InvIsInvariant, PTL

(* BlockCache is keyed by table and offset: the block a thread searches is *)
(* the one it asked for, of its own table, whoever put it there.           *)
THEOREM BlocksAreTheirsHolds == Spec => []BlocksAreTheirs
<1>1. Inv => BlocksAreTheirs
  BY DEF Inv, CacheIsTrue, BlocksAreTheirs
<1> QED BY <1>1, InvIsInvariant, PTL

(* Engine::open validates footers before any get: TableReader::get runs    *)
(* past a buffer only for a table of a later flush or compaction.          *)
THEOREM StartupTablesAreSafeHolds == Spec => []StartupTablesAreSafe
<1>1. Init => StartupTablesAreSafe
  BY DEF Init, StartupTablesAreSafe
<1>2. Inv /\ StartupTablesAreSafe /\ [Next]_vars => StartupTablesAreSafe'
  <2> SUFFICES ASSUME Inv, StartupTablesAreSafe, [Next]_vars, broken' PROVE StartupTablesAreSafe'
    BY DEF StartupTablesAreSafe
  <2>1. CASE broken
    <3>1. UNCHANGED <<get, footer>>
      BY <2>1 DEF Next, Call, Lock, Inside, AlreadyOpen, OpenFails, Open, LoadFooter, LoadFooterFails,
                  HaveBloom, LoadBloom, LoadBloomFails, LoadBloomWithoutFooter, LoadIndex,
                  LoadIndexFails, Find, ReadBlock, ReadBlockFails, Insert, Answer, At,
                  vars, handles
    <3> QED BY <2>1, <3>1 DEF StartupTablesAreSafe, Table
  <2>2. CASE ~broken
    <3>1. PICK r \in Threads : LoadBloomWithoutFooter(r)
      BY <2>2 DEF Next, Call, Lock, Inside, AlreadyOpen, OpenFails, Open, LoadFooter, LoadFooterFails,
                  HaveBloom, LoadBloom, LoadBloomFails, LoadIndex,
                  LoadIndexFails, Find, ReadBlock, ReadBlockFails, Insert, Answer, vars
    <3>2. get[r].pc = "bloom" /\ Table(r) \notin Startup \cup footer /\ UNCHANGED <<get, footer>>
      BY <3>1 DEF LoadBloomWithoutFooter, At, handles, Inv
    <3> QED BY <3>2 DEF StartupTablesAreSafe, Table
  <2> QED BY <2>1, <2>2
<1> QED BY <1>1, <1>2, InvIsInvariant, PTL DEF Spec
-----------------------------------------------------------------------------
(* The accounts of the block cache.                                        *)

(* MapThenSumSet adds up what it should.                                   *)
LEMMA TotalIsSum ==
    ASSUME NEW V, IsFiniteSet(V), V \subseteq Block
    PROVE  \E f : IsSum(f, V, Size) /\ TotalSize(V) = f[V]
<1> DEFINE Adds(f) == f = [T \in SUBSET V |-> IF T = {} THEN 0
                             ELSE Size[SomeOf(T)] + f[T \ {SomeOf(T)}]]
           iter == CHOOSE f : Adds(f)
<1>1. TotalSize(V) = iter[V]
  BY DEF TotalSize, MapThenSumSet, MapThenFoldSet, SomeOf
<1>2. \A k \in V : Size[k] \in Nat
  BY TableReadsAssumption
<1>3. PICK f : IsSum(f, V, Size)
  BY <1>2, SumExists
<1>4. Adds(f)
  BY <1>3 DEF IsSum
<1>5. Adds(iter)
  <2> HIDE DEF Adds
  <2> QED BY <1>4
<1> HIDE DEF iter
<1>6. IsSum(iter, V, Size)
  BY <1>2, <1>5, SumOfFold
<1> QED BY <1>1, <1>6

LEMMA BytesAreSum ==
    ASSUME NEW V, IsFiniteSet(V), V \subseteq Block, NEW m, \A k \in V : m[k] = k
    PROVE  LET w == [k \in V |-> Size[m[k]]] IN
           \E f : IsSum(f, V, w) /\ Bytes(m, V) = f[V]
<1> DEFINE w == [k \in V |-> Size[m[k]]]
           Adds(f) == f = [T \in SUBSET V |-> IF T = {} THEN 0
                             ELSE Size[m[SomeOf(T)]] + f[T \ {SomeOf(T)}]]
           iter == CHOOSE f : Adds(f)
<1>1. Bytes(m, V) = iter[V]
  BY DEF Bytes, MapThenSumSet, MapThenFoldSet, SomeOf
<1>2. \A k \in V : w[k] \in Nat
  BY TableReadsAssumption
<1>3. PICK f : IsSum(f, V, w)
  <2> HIDE DEF w
  <2> QED BY <1>2, SumExists
<1>4. \A T \in SUBSET V : T # {} => w[SomeOf(T)] = Size[m[SomeOf(T)]]
  <2>1. \A T \in SUBSET V : T # {} => SomeOf(T) \in V
    BY SomeOfIsIn
  <2> QED BY <2>1
<1>5. Adds(f)
  <2> HIDE DEF w
  <2> QED BY <1>3, <1>4 DEF IsSum
<1>6. Adds(iter)
  <2> HIDE DEF Adds
  <2> QED BY <1>5
<1> HIDE DEF iter
<1>7. iter = [T \in SUBSET V |-> IF T = {} THEN 0
                 ELSE w[SomeOf(T)] + iter[T \ {SomeOf(T)}]]
  <2> HIDE DEF w
  <2> QED BY <1>4, <1>6
<1>8. IsSum(iter, V, w)
  <2> HIDE DEF w
  <2> QED BY <1>2, <1>7, SumOfFold
<1> QED BY <1>1, <1>8

LEMMA BytesAreTotal ==
    ASSUME NEW V, IsFiniteSet(V), V \subseteq Block, NEW m, \A k \in V : m[k] = k
    PROVE  Bytes(m, V) = TotalSize(V)
<1> DEFINE w == [k \in V |-> Size[m[k]]]
<1>1. PICK f : IsSum(f, V, w) /\ Bytes(m, V) = f[V]
  BY BytesAreSum
<1>2. PICK g : IsSum(g, V, Size) /\ TotalSize(V) = g[V]
  BY TotalIsSum
<1>3. \A k \in V : w[k] = Size[k] /\ Size[k] \in Nat
  BY TableReadsAssumption
<1> HIDE DEF w
<1>4. f[V] = g[V]
  BY <1>1, <1>2, <1>3, SumsAgree
<1> QED BY <1>1, <1>2, <1>4

LEMMA TotalFacts ==
    ASSUME NEW V, IsFiniteSet(V), V \subseteq Block
    PROVE  /\ TotalSize(V) \in Nat
           /\ TotalSize({}) = 0
           /\ \A U \in SUBSET V : /\ TotalSize(U) \in Nat /\ TotalSize(V \ U) \in Nat
                                  /\ TotalSize(V) = TotalSize(U) + TotalSize(V \ U)
           /\ \A k \in V : TotalSize({k}) = Size[k] /\ Size[k] \in Nat
<1>1. PICK f : IsSum(f, V, Size) /\ TotalSize(V) = f[V]
  BY TotalIsSum
<1>2. \A k \in V : Size[k] \in Nat
  BY TableReadsAssumption
<1>3. f \in [SUBSET V -> Nat] /\ f[{}] = 0
  BY <1>1 DEF IsSum
<1>4. ASSUME NEW U \in SUBSET V
      PROVE  TotalSize(U) = f[U]
  <2>1. IsFiniteSet(U) /\ U \subseteq Block /\ \A k \in U : Size[k] \in Nat
    BY <1>2, FS_Subset
  <2>2. PICK g : IsSum(g, U, Size) /\ TotalSize(U) = g[U]
    BY <2>1, TotalIsSum
  <2>3. g[U] = f[U]
    BY <1>1, <1>2, <2>1, <2>2, SumsAgree
  <2> QED BY <2>2, <2>3
<1>5. {} \in SUBSET V
  OBVIOUS
<1>6. ASSUME NEW U \in SUBSET V
      PROVE  /\ TotalSize(U) \in Nat /\ TotalSize(V \ U) \in Nat
             /\ TotalSize(V) = TotalSize(U) + TotalSize(V \ U)
  <2>1. V \in SUBSET V /\ V \ U \in SUBSET V
    OBVIOUS
  <2>2. f[V] = f[U] + f[V \ U]
    BY <1>1, <1>2, <2>1, SumOfDifference
  <2> QED BY <2>1, <2>2, <1>3, <1>4
<1>7. ASSUME NEW k \in V
      PROVE  TotalSize({k}) = Size[k] /\ Size[k] \in Nat
  <2>1. {k} \in SUBSET V /\ k \in {k} /\ {k} \ {k} = {}
    OBVIOUS
  <2>2. f[{k}] = Size[k] + f[{k} \ {k}]
    BY <1>1, <1>2, <2>1, SumInAnyOrder
  <2>3. f[{k} \ {k}] = 0
    BY <2>1, <1>3
  <2>4. TotalSize({k}) = f[{k}]
    BY <2>1, <1>4
  <2> QED BY <2>2, <2>3, <2>4, <1>2
<1>8. TotalSize(V) \in Nat /\ TotalSize({}) = 0
  <2>1. V \in SUBSET V
    OBVIOUS
  <2>2. f[V] \in Nat /\ TotalSize({}) = f[{}]
    BY <2>1, <1>3, <1>4, <1>5
  <2> QED BY <2>2, <1>1, <1>3
<1>9. \A U \in SUBSET V : /\ TotalSize(U) \in Nat /\ TotalSize(V \ U) \in Nat
                           /\ TotalSize(V) = TotalSize(U) + TotalSize(V \ U)
  BY ONLY <1>6
<1>10. \A k \in V : TotalSize({k}) = Size[k] /\ Size[k] \in Nat
  BY ONLY <1>7
<1> QED BY ONLY <1>8, <1>9, <1>10

(* A set of blocks is no smaller than a part of it.                        *)
LEMMA PartIsSmaller ==
    ASSUME NEW V, IsFiniteSet(V), V \subseteq Block, NEW U \in SUBSET V
    PROVE  TotalSize(U) \in Nat /\ TotalSize(V) \in Nat /\ TotalSize(U) <= TotalSize(V)
<1>1. /\ TotalSize(U) \in Nat /\ TotalSize(V \ U) \in Nat /\ TotalSize(V) \in Nat
      /\ TotalSize(V) = TotalSize(U) + TotalSize(V \ U)
  BY TotalFacts
<1>2. \A a, b, c \in Nat : a = b + c => b <= a
  OBVIOUS
<1> QED BY <1>1, <1>2

-----------------------------------------------------------------------------
(* The order of the list.                                                  *)

Upto(s, i) == {s[j] : j \in 1 .. i}

LEMMA UptoFinite ==
    ASSUME NEW s \in Seq(Block), NEW i \in 0 .. Len(s)
    PROVE  IsFiniteSet(Upto(s, i)) /\ Upto(s, i) \subseteq Block /\ Upto(s, i) \subseteq Range(s)
<1>1. IsFiniteSet(1 .. i) /\ 1 .. i \subseteq DOMAIN s
  BY FS_Interval
<1> DEFINE f == [j \in 1 .. i |-> s[j]]
<1>2. f \in Surjection(1 .. i, Upto(s, i))
  BY DEF Surjection, Upto
<1>3. IsFiniteSet(Upto(s, i))
  <2> HIDE DEF f
  <2> QED BY <1>1, <1>2, FS_Surjection
<1> QED BY <1>1, <1>3 DEF Upto, Range

LEMMA SameElements ==
    ASSUME NEW s, NEW t, NEW i,
           \A j \in 1 .. i : \E m \in 1 .. i : t[j] = s[m],
           \A j \in 1 .. i : \E m \in 1 .. i : s[j] = t[m]
    PROVE  Upto(t, i) = Upto(s, i)
BY DEF Upto

IsMoved(t, s, k, p) ==
    /\ Len(t) = Len(s) /\ t[1] = k
    /\ \A j \in 2 .. Len(s) : t[j] = IF j <= p THEN s[j - 1] ELSE s[j]
IsPut(t, s, k) ==
    /\ Len(t) = Len(s) + 1 /\ t[1] = k
    /\ \A j \in 2 .. Len(s) + 1 : t[j] = s[j - 1]

LEMMA MovedFacts ==
    ASSUME NEW s \in Seq(Block), IsInjective(s), NEW k \in Block
    PROVE  LET t == MovedToFront(s, k) IN
           /\ t \in Seq(Block) /\ IsInjective(t) /\ Range(t) = {k} \cup Range(s)
           /\ k \notin Range(s) => IsPut(t, s, k)
           /\ \A p \in DOMAIN s : s[p] = k => IsMoved(t, s, k, p)
<1> DEFINE u == RemoveFirst(s, k)
           t == <<k>> \o u
<1>1. /\ u \in Seq(Block) /\ IsInjective(u) /\ Range(u) = Range(s) \ {k}
      /\ k \notin Range(s) => u = s
      /\ \A p \in DOMAIN s : s[p] = k => IsWithout(u, s, p)
  BY RemoveFirstFacts
<1> HIDE DEF u
<1>2. /\ t \in Seq(Block) /\ Len(u) \in Nat /\ DOMAIN u = 1 .. Len(u)
      /\ Len(t) = Len(u) + 1 /\ DOMAIN t = 1 .. Len(u) + 1
      /\ \A j \in 1 .. Len(u) + 1 : t[j] = IF j = 1 THEN k ELSE u[j - 1]
      /\ Range(t) = {k} \cup Range(u)
  BY <1>1, PrependFacts
<1> HIDE DEF t
<1>3. IsInjective(t)
  <2> SUFFICES ASSUME NEW a \in DOMAIN t, NEW b \in DOMAIN t, t[a] = t[b] PROVE a = b
    BY DEF IsInjective
  <2>1. \A j \in DOMAIN t : j # 1 => /\ j - 1 \in DOMAIN u /\ t[j] = u[j - 1]
                                    /\ u[j - 1] \in Range(u) /\ u[j - 1] # k
    <3>1. \A j \in DOMAIN t : j # 1 => j - 1 \in DOMAIN u /\ t[j] = u[j - 1]
      BY <1>2
    <3> QED BY <3>1, <1>1 DEF Range
  <2>2. t[1] = k
    BY <1>2
  <2>3. CASE a = 1 \/ b = 1
    BY <2>1, <2>2, <2>3
  <2>4. CASE a # 1 /\ b # 1
    <3>1. a - 1 = b - 1
      BY <2>1, <2>4, <1>1 DEF IsInjective
    <3> QED BY <3>1, <1>2
  <2> QED BY <2>3, <2>4
<1>4. k \notin Range(s) => IsPut(t, s, k)
  BY <1>1, <1>2 DEF IsPut
<1>5. ASSUME NEW p \in DOMAIN s, s[p] = k
      PROVE  IsMoved(t, s, k, p)
  <2>1. IsWithout(u, s, p)
    BY <1>1, <1>5
  <2>2. Len(s) \in Nat /\ p \in 1 .. Len(s)
    OBVIOUS
  <2>3. Len(t) = Len(s) /\ t[1] = k
    BY <2>1, <2>2, <1>2 DEF IsWithout
  <2>4. ASSUME NEW j \in 2 .. Len(s)
        PROVE  t[j] = IF j <= p THEN s[j - 1] ELSE s[j]
    <3>1. t[j] = u[j - 1] /\ j - 1 \in 1 .. Len(s) - 1
      <4>1. j - 1 \in 1 .. Len(s) - 1 /\ Len(u) = Len(s) - 1 /\ j \in 1 .. Len(u) + 1 /\ j # 1
        BY <2>1, <2>2 DEF IsWithout
      <4> QED BY <4>1, <1>2
    <3>2. u[j - 1] = IF j - 1 < p THEN s[j - 1] ELSE s[j - 1 + 1]
      BY <2>1, <3>1 DEF IsWithout
    <3>3. j - 1 + 1 = j /\ (j - 1 < p <=> j <= p)
      BY <2>2
    <3> QED BY <3>1, <3>2, <3>3
  <2> QED BY <2>3, <2>4 DEF IsMoved
<1>6. MovedToFront(s, k) = t
  BY DEF MovedToFront, t, u
<1> QED BY <1>1, <1>2, <1>3, <1>4, <1>5, <1>6

(* The list is what was used last, as far as there is room.                *)
ListOK ==
    /\ recent \in Seq(Block) /\ IsInjective(recent)
    /\ lru \in Seq(Block) /\ Len(lru) <= Len(recent)
    /\ \A j \in 1 .. Len(lru) : lru[j] = recent[j]
    /\ Range(lru) = DOMAIN map
RoomIsUsed ==
    \A i \in DOMAIN recent : i > Len(lru) => TotalSize(Upto(recent, i)) > Capacity
UsedOK == used = TotalSize(DOMAIN map) /\ used <= Capacity
CacheInv == ListOK /\ RoomIsUsed /\ UsedOK

LEMMA ListIsInjective ==
    ASSUME ListOK
    PROVE  /\ IsInjective(lru) /\ Range(lru) = Upto(lru, Len(lru))
           /\ IsFiniteSet(Range(lru)) /\ Range(lru) \subseteq Block
<1>1. Len(lru) \in Nat /\ DOMAIN lru = 1 .. Len(lru) /\ Len(recent) \in Nat /\ DOMAIN recent = 1 .. Len(recent)
  BY DEF ListOK
<1>2. \A j \in DOMAIN lru : j \in DOMAIN recent /\ lru[j] = recent[j]
  BY <1>1 DEF ListOK
<1>3. IsInjective(lru)
  BY <1>2 DEF IsInjective, ListOK
<1>4. Range(lru) = Upto(lru, Len(lru))
  BY <1>1 DEF Range, Upto
<1>5. Len(lru) \in 0 .. Len(lru) /\ lru \in Seq(Block)
  BY <1>1 DEF ListOK
<1> QED BY <1>3, <1>4, <1>5, UptoFinite

(* A block that is in the cache is used again.                             *)
LEMMA HitKeepsList ==
    ASSUME CacheInv, NEW k \in DOMAIN map,
           lru' = MovedToFront(lru, k), recent' = MovedToFront(recent, k),
           map' = map, used' = used
    PROVE  CacheInv'
<1> USE DEF CacheInv
<1>1. /\ Len(lru) \in Nat /\ DOMAIN lru = 1 .. Len(lru) /\ lru \in Seq(Block)
      /\ Len(recent) \in Nat /\ DOMAIN recent = 1 .. Len(recent) /\ recent \in Seq(Block)
      /\ Len(lru) <= Len(recent) /\ IsInjective(recent) /\ Range(lru) = DOMAIN map
      /\ \A j \in 1 .. Len(lru) : lru[j] = recent[j]
  BY DEF ListOK
<1>2. IsInjective(lru) /\ k \in Block
  BY <1>1, ListIsInjective
<1>3. PICK p \in 1 .. Len(lru) : lru[p] = k
  BY <1>1 DEF Range
<1>4. /\ lru' \in Seq(Block) /\ IsInjective(lru') /\ Range(lru') = {k} \cup Range(lru)
      /\ IsMoved(lru', lru, k, p)
  BY <1>1, <1>2, <1>3, MovedFacts
<1>5. recent' \in Seq(Block) /\ IsInjective(recent') /\ IsMoved(recent', recent, k, p)
  <2>1. p \in DOMAIN recent /\ recent[p] = k
    BY <1>1, <1>3
  <2> QED BY <2>1, <1>1, <1>2, MovedFacts
<1>6. /\ Len(lru') = Len(lru) /\ lru'[1] = k
      /\ \A j \in 2 .. Len(lru) : lru'[j] = IF j <= p THEN lru[j - 1] ELSE lru[j]
  BY <1>4 DEF IsMoved
<1>7. /\ Len(recent') = Len(recent) /\ recent'[1] = k
      /\ \A j \in 2 .. Len(recent) : recent'[j] = IF j <= p THEN recent[j - 1] ELSE recent[j]
  BY <1>5 DEF IsMoved
<1>8. ASSUME NEW j \in 1 .. Len(lru)
      PROVE  lru'[j] = recent'[j]
  <2>1. CASE j = 1
    BY <2>1, <1>6, <1>7
  <2>2. CASE j # 1
    <3>1. j \in 2 .. Len(lru) /\ j \in 2 .. Len(recent) /\ j - 1 \in 1 .. Len(lru)
      BY <2>2, <1>1
    <3> QED BY <3>1, <1>1, <1>6, <1>7
  <2> QED BY <2>1, <2>2
<1>9. ListOK'
  <2>1. Range(lru') = DOMAIN map'
    BY <1>1, <1>4
  <2>2. \A j \in 1 .. Len(lru') : lru'[j] = recent'[j]
    BY <1>6, <1>8
  <2> QED BY <2>1, <2>2, <1>1, <1>4, <1>5, <1>6, <1>7 DEF ListOK
<1>10. ASSUME NEW i \in 1 .. Len(recent), i > Len(lru)
       PROVE  Upto(recent', i) = Upto(recent, i)
  <2>1. p \in 1 .. i /\ recent[p] = k /\ i \in Nat
    BY <1>1, <1>3, <1>10
  <2>2. ASSUME NEW j \in 1 .. i
        PROVE  \E m \in 1 .. i : recent'[j] = recent[m]
    <3>1. CASE j = 1
      BY <3>1, <2>1, <1>7
    <3>2. CASE j # 1
      <4>1. j \in 2 .. Len(recent) /\ j - 1 \in 1 .. i
        BY <3>2, <2>1, <1>1
      <4> QED BY <4>1, <1>7
    <3> QED BY <3>1, <3>2
  <2>3. ASSUME NEW j \in 1 .. i
        PROVE  \E m \in 1 .. i : recent[j] = recent'[m]
    <3>1. CASE j = p
      <4>1. 1 \in 1 .. i
        BY <2>1
      <4> QED BY <4>1, <3>1, <2>1, <1>7
    <3>2. CASE j < p
      <4>1. j + 1 \in 2 .. Len(recent) /\ j + 1 \in 1 .. i /\ j + 1 <= p /\ j + 1 - 1 = j
        BY <3>2, <2>1, <1>1
      <4>2. recent'[j + 1] = recent[j + 1 - 1]
        BY <4>1, <1>7
      <4> QED BY <4>1, <4>2
    <3>3. CASE j > p
      <4>1. j \in 2 .. Len(recent) /\ ~(j <= p)
        BY <3>3, <2>1, <1>1
      <4> QED BY <4>1, <1>7
    <3> QED BY <3>1, <3>2, <3>3, <2>1
  <2> QED BY <2>2, <2>3, SameElements
<1>11. RoomIsUsed'
  <2> SUFFICES ASSUME NEW i \in DOMAIN recent', i > Len(lru')
               PROVE  TotalSize(Upto(recent', i)) > Capacity
    BY DEF RoomIsUsed
  <2>1. i \in 1 .. Len(recent) /\ i > Len(lru)
    BY <1>5, <1>6, <1>7
  <2>2. TotalSize(Upto(recent, i)) > Capacity
    BY <2>1, <1>1 DEF RoomIsUsed
  <2> QED BY <2>1, <2>2, <1>10
<1>12. UsedOK'
  BY DEF UsedOK
<1> QED BY <1>9, <1>11, <1>12

(* The part of a list behind its first i elements.                         *)
LEMMA RestOfList ==
    ASSUME NEW s \in Seq(Block), IsInjective(s), NEW i \in 0 .. Len(s)
    PROVE  /\ Range(SubSeq(s, i + 1, Len(s))) = Range(s) \ Upto(s, i)
           /\ SubSeq(s, 1, i) \in Seq(Block) /\ Len(SubSeq(s, 1, i)) = i
           /\ \A j \in 1 .. i : SubSeq(s, 1, i)[j] = s[j]
           /\ Range(SubSeq(s, 1, i)) = Upto(s, i)
<1> DEFINE R == SubSeq(s, i + 1, Len(s))
           L == SubSeq(s, 1, i)
<1>1. Len(s) \in Nat /\ DOMAIN s = 1 .. Len(s) /\ i \in Nat /\ i <= Len(s)
  OBVIOUS
<1>2. R \in Seq(Block) /\ DOMAIN R = 1 .. Len(s) - i /\ \A j \in 1 .. Len(s) - i : R[j] = s[i + j]
  BY <1>1
<1>3. L \in Seq(Block) /\ Len(L) = i /\ DOMAIN L = 1 .. i /\ \A j \in 1 .. i : L[j] = s[j]
  BY <1>1
<1> HIDE DEF R, L
<1>4. ASSUME NEW y \in Range(R)
      PROVE  y \in Range(s) \ Upto(s, i)
  <2>1. PICK j \in 1 .. Len(s) - i : y = s[i + j]
    BY <1>2 DEF Range
  <2>2. i + j \in DOMAIN s /\ i + j \notin 1 .. i
    BY <1>1
  <2>3. \A q \in 1 .. i : s[q] # y
    BY <2>1, <2>2, <1>1 DEF IsInjective
  <2> QED BY <2>1, <2>2, <2>3 DEF Range, Upto
<1>5. ASSUME NEW y \in Range(s) \ Upto(s, i)
      PROVE  y \in Range(R)
  <2>1. PICK q \in 1 .. Len(s) : y = s[q]
    BY <1>1 DEF Range
  <2>2. q \notin 1 .. i
    BY <2>1 DEF Upto
  <2>3. q - i \in 1 .. Len(s) - i /\ i + (q - i) = q
    BY <2>2, <1>1
  <2>4. R[q - i] = y
    BY <2>1, <2>3, <1>2
  <2> QED BY <2>3, <2>4, <1>2 DEF Range
<1>6. Range(L) = Upto(s, i)
  BY <1>3 DEF Range, Upto
<1>7. Range(R) = Range(s) \ Upto(s, i)
  BY <1>4, <1>5
<1> QED BY <1>3, <1>6, <1>7 DEF R, L

LEMMA PutInjective ==
    ASSUME NEW s \in Seq(Block), IsInjective(s), NEW k \in Block, k \notin Range(s)
    PROVE  LET t == <<k>> \o s IN
           t \in Seq(Block) /\ IsInjective(t) /\ Range(t) = {k} \cup Range(s) /\ IsPut(t, s, k)
<1> DEFINE t == <<k>> \o s
<1>1. RemoveFirst(s, k) = s
  BY RemoveFirstFacts
<1>2. MovedToFront(s, k) = t
  BY <1>1 DEF MovedToFront
<1> QED BY <1>2, MovedFacts

(* The longest part of a list that fits.                                   *)
IsFit(list, n) ==
    /\ n \in 0 .. Len(list) /\ TotalSize(Upto(list, n)) <= Capacity
    /\ \A i \in 1 .. Len(list) : i > n => TotalSize(Upto(list, i)) > Capacity

LEMMA InsertDoes ==
    ASSUME CacheInv, \A x \in DOMAIN map : map[x] = x,
           NEW r \in Threads, Insert(r), get[r].key \in Block, get[r].block = get[r].key,
           get[r].key \notin DOMAIN map
    PROVE  LET list == <<get[r].key>> \o lru IN
           \E n : /\ IsFit(list, n)
                  /\ lru' = SubSeq(list, 1, n)
                  /\ DOMAIN map' = Upto(list, n)
                  /\ used' = TotalSize(Upto(list, n))
                  /\ recent' = MovedToFront(recent, get[r].key)
<1> DEFINE k == get[r].key
           m == [x \in DOMAIN map \cup {k} |-> IF x = k THEN get[r].block ELSE map[x]]
           list == <<k>> \o lru
           Evicted(n) == Range(SubSeq(list, n + 1, Len(list)))
           UsedBy(n) == used + Size[get[r].block] - Bytes(m, Evicted(n))
           Fits == {0} \cup {i \in DOMAIN list : UsedBy(i) <= Capacity}
           n == Max(Fits)
<1>1. /\ lru' = SubSeq(list, 1, n)
      /\ map' = [x \in DOMAIN m \ Evicted(n) |-> m[x]]
      /\ used' = UsedBy(n)
      /\ recent' = MovedToFront(recent, k)
  BY DEF Insert, CacheKey, Freed
<1> HIDE DEF k
<1>0. k \in Block /\ k \notin DOMAIN map /\ get[r].block = k
  BY DEF k
<1>2. lru \in Seq(Block) /\ IsInjective(lru) /\ Range(lru) = DOMAIN map /\ IsFiniteSet(Range(lru))
  BY ListIsInjective DEF CacheInv, ListOK
<1>3. /\ list \in Seq(Block) /\ IsInjective(list) /\ Range(list) = {k} \cup Range(lru)
      /\ Len(list) \in Nat /\ DOMAIN list = 1 .. Len(list)
  BY <1>0, <1>2, PutInjective
<1>4. DOMAIN m = Range(list) /\ \A x \in DOMAIN m : m[x] = x
  BY <1>0, <1>2, <1>3
<1>5. IsFiniteSet(Range(list)) /\ Range(list) \subseteq Block
  <2>1. Range(list) = Upto(list, Len(list))
    BY <1>3 DEF Range, Upto
  <2> HIDE DEF list
  <2>2. Len(list) \in 0 .. Len(list)
    BY <1>3
  <2> QED BY <2>1, <2>2, <1>3, UptoFinite
<1> HIDE DEF m
<1>6. /\ used \in Nat
      /\ used + Size[k] = TotalSize(Range(list)) /\ TotalSize(Range(list)) \in Nat
  <2> HIDE DEF list
  <2>1. used = TotalSize(Range(lru))
    BY <1>2 DEF CacheInv, UsedOK
  <2>2. {k} \in SUBSET Range(list) /\ Range(list) \ {k} = Range(lru) /\ k \in Range(list)
    BY <1>0, <1>2, <1>3
  <2>3. /\ TotalSize(Range(list)) \in Nat
        /\ \A U \in SUBSET Range(list) :
              /\ TotalSize(U) \in Nat /\ TotalSize(Range(list) \ U) \in Nat
              /\ TotalSize(Range(list)) = TotalSize(U) + TotalSize(Range(list) \ U)
        /\ \A x \in Range(list) : TotalSize({x}) = Size[x] /\ Size[x] \in Nat
    BY <1>5, TotalFacts
  <2>4. /\ TotalSize(Range(list)) = TotalSize({k}) + TotalSize(Range(list) \ {k})
        /\ TotalSize(Range(list) \ {k}) \in Nat
    BY <2>2, <2>3
  <2>5. TotalSize({k}) = Size[k] /\ Size[k] \in Nat
    BY <2>2, <2>3
  <2>6. TotalSize(Range(list) \ {k}) = used
    BY <2>1, <2>2
  <2>7. \A a, b \in Nat : a + b = b + a
    OBVIOUS
  <2> QED BY <2>3, <2>4, <2>5, <2>6, <2>7
<1>7. ASSUME NEW i \in 0 .. Len(list)
      PROVE  /\ UsedBy(i) = TotalSize(Upto(list, i)) /\ UsedBy(i) \in Nat
             /\ Evicted(i) = Range(list) \ Upto(list, i)
  <2> DEFINE E == Evicted(i)
  <2>1. E = Range(list) \ Upto(list, i)
    <3> HIDE DEF list
    <3> QED BY <1>3, RestOfList
  <2>2. Upto(list, i) \in SUBSET Range(list) /\ E \in SUBSET Range(list)
    <3>1. Upto(list, i) \subseteq Range(list)
      <4> HIDE DEF list
      <4> QED BY <1>3, UptoFinite
    <3> QED BY <2>1, <3>1
  <2> HIDE DEF E, list
  <2>3. IsFiniteSet(E) /\ E \subseteq Block /\ \A x \in E : m[x] = x
    BY <2>2, <1>4, <1>5, FS_Subset
  <2>4. Bytes(m, E) = TotalSize(E)
    BY <2>3, BytesAreTotal
  <2>5. /\ TotalSize(Upto(list, i)) \in Nat /\ TotalSize(E) \in Nat
        /\ TotalSize(Range(list)) = TotalSize(Upto(list, i)) + TotalSize(E)
    BY <2>1, <2>2, <1>5, TotalFacts
  <2>6. \A a, b, c \in Nat : a = b + c => a - c = b
    OBVIOUS
  <2>7. TotalSize(Range(list)) - TotalSize(E) = TotalSize(Upto(list, i))
    BY <2>5, <2>6, <1>6
  <2>8. used + Size[get[r].block] - Bytes(m, E) = TotalSize(Upto(list, i))
    <3>1. \A a, b, c \in Nat : a + (b - c) = (a + b) - c
      OBVIOUS
    <3>2. Size[get[r].block] \in Nat /\ Size[get[r].block] = Size[k]
      BY <1>0, TableReadsAssumption
    <3>3. used + (Size[get[r].block] - TotalSize(E)) = (used + Size[get[r].block]) - TotalSize(E)
      BY <3>1, <3>2, <2>5, <1>6
    <3>4. (used + Size[get[r].block]) - TotalSize(E) = TotalSize(Upto(list, i))
      BY <3>2, <2>7, <1>6
    <3> QED BY <2>4, <3>3, <3>4
  <2> QED BY <2>1, <2>5, <2>8 DEF E
<1> HIDE DEF UsedBy, Evicted, list
<1>8. UsedBy(0) <= Capacity
  <2>1. 0 \in 0 .. Len(list)
    BY <1>3
  <2>2. UsedBy(0) = TotalSize(Upto(list, 0))
    BY <2>1, <1>7
  <2>3. Upto(list, 0) = {}
    BY DEF Upto
  <2>4. TotalSize({}) = 0
    BY <1>5, TotalFacts
  <2>5. UsedBy(0) = 0
    BY <2>2, <2>3, <2>4
  <2> QED BY <2>5, TableReadsAssumption
<1>9. /\ n \in 0 .. Len(list) /\ UsedBy(n) <= Capacity
      /\ \A i \in 1 .. Len(list) : i > n => ~(UsedBy(i) <= Capacity)
  <2>1. Fits \in SUBSET Nat /\ Fits # {} /\ \A x \in Fits : x <= Len(list) /\ x \in 0 .. Len(list)
    BY <1>3
  <2>2. n \in Fits /\ \A x \in Fits : x <= n
    <3> HIDE DEF Fits
    <3> QED BY <2>1, <1>3, GreatestOfBounded
  <2>3. n \in Nat
    BY <2>1, <2>2
  <2> HIDE DEF n
  <2>4. n \in 0 .. Len(list)
    BY <2>1, <2>2
  <2>5. UsedBy(n) <= Capacity
    BY <2>2, <1>8
  <2>6. ASSUME NEW i \in 1 .. Len(list), i > n, UsedBy(i) <= Capacity
        PROVE  FALSE
    <3>1. i \in Fits
      BY <2>6, <1>3
    <3>2. i <= n
      BY <3>1, <2>2
    <3> QED BY <3>2, <2>3, <2>6
  <2> QED BY <2>4, <2>5, <2>6
<1> HIDE DEF n
<1>10. IsFit(list, n)
  <2>1. \A i \in 1 .. Len(list) : UsedBy(i) = TotalSize(Upto(list, i)) /\ UsedBy(i) \in Nat
    BY <1>3, <1>7
  <2>2. Capacity \in Nat
    BY TableReadsAssumption
  <2>3. \A i \in 1 .. Len(list) : i > n => TotalSize(Upto(list, i)) > Capacity
    BY <2>1, <2>2, <1>9
  <2>4. TotalSize(Upto(list, n)) <= Capacity
    BY <1>7, <1>9
  <2> QED BY <2>3, <2>4, <1>9 DEF IsFit
<1>11. DOMAIN map' = Upto(list, n)
  <2>1. DOMAIN map' = Range(list) \ Evicted(n)
    BY <1>1, <1>4
  <2>2. Evicted(n) = Range(list) \ Upto(list, n)
    BY <1>7, <1>9
  <2>3. Upto(list, n) \subseteq Range(list)
    BY <1>3, <1>9, UptoFinite
  <2> QED BY <2>1, <2>2, <2>3
<1>12. used' = TotalSize(Upto(list, n))
  BY <1>1, <1>7, <1>9
<1>13. /\ IsFit(list, n) /\ lru' = SubSeq(list, 1, n) /\ DOMAIN map' = Upto(list, n)
       /\ used' = TotalSize(Upto(list, n)) /\ recent' = MovedToFront(recent, k)
  BY <1>1, <1>10, <1>11, <1>12
<1> QED BY <1>13 DEF list, k

(* The first n of list are the last n used, and there is no room for more. *)
IsLatest(list, s, n) ==
    /\ s \in Seq(Block) /\ IsInjective(s) /\ n \in 0 .. Len(s)
    /\ \A j \in 1 .. n : list[j] = s[j]
    /\ \A i \in DOMAIN s : i > n => TotalSize(Upto(s, i)) > Capacity

(* Behind what fits there is, with the new block, no room either.          *)
LEMMA PutKeepsRoom ==
    ASSUME NEW l \in Seq(Block), NEW s, IsLatest(l, s, Len(l)),
           NEW k \in Block, k \notin Range(l),
           NEW list, list = <<k>> \o l,
           NEW t, t = MovedToFront(s, k), NEW n, IsFit(list, n)
    PROVE  IsLatest(list, t, n)
<1>0. /\ s \in Seq(Block) /\ IsInjective(s) /\ Len(l) <= Len(s)
      /\ \A j \in 1 .. Len(l) : l[j] = s[j]
      /\ \A i \in DOMAIN s : i > Len(l) => TotalSize(Upto(s, i)) > Capacity
  BY DEF IsLatest
<1>1. /\ Len(l) \in Nat /\ DOMAIN l = 1 .. Len(l)
      /\ Len(s) \in Nat /\ DOMAIN s = 1 .. Len(s)
  BY <1>0
<1>2. t \in Seq(Block) /\ IsInjective(t) /\ Len(t) \in Nat /\ DOMAIN t = 1 .. Len(t)
  <2>1. t \in Seq(Block) /\ IsInjective(t)
    BY <1>0, MovedFacts
  <2> QED BY <2>1
<1>3. /\ list \in Seq(Block) /\ Len(list) = Len(l) + 1 /\ list[1] = k
      /\ \A j \in 2 .. Len(l) + 1 : list[j] = l[j - 1]
  BY <1>1, PrependFacts
<1>4. /\ n \in 0 .. Len(l) + 1
      /\ \A i \in 1 .. Len(l) + 1 : i > n => TotalSize(Upto(list, i)) > Capacity
  BY <1>3 DEF IsFit
(* Where s has k, that is behind l.                                        *)
<1>5. /\ Len(l) + 1 <= Len(t) /\ t[1] = k
      /\ \A j \in 2 .. Len(l) + 1 : t[j] = s[j - 1]
      /\ \A i \in 1 .. Len(t) : i > 1 => i - 1 \in 1 .. Len(s)
      /\ \A i \in 2 .. Len(t) : \A j \in 1 .. i - 1 : \E m \in 1 .. i : s[j] = t[m]
  <2>1. CASE k \notin Range(s)
    <3>1. /\ Len(t) = Len(s) + 1 /\ t[1] = k
          /\ \A j \in 2 .. Len(s) + 1 : t[j] = s[j - 1]
      BY <1>0, <2>1, MovedFacts DEF IsPut
    <3>2. \A j \in 2 .. Len(l) + 1 : t[j] = s[j - 1]
      BY <1>0, <1>1, <3>1
    <3>3. ASSUME NEW i \in 2 .. Len(t), NEW j \in 1 .. i - 1
          PROVE  \E m \in 1 .. i : s[j] = t[m]
      <4>1. j + 1 \in 2 .. Len(s) + 1 /\ j + 1 \in 1 .. i /\ j + 1 - 1 = j
        BY <1>0, <1>1, <3>1
      <4>2. t[j + 1] = s[j + 1 - 1]
        BY <4>1, <3>1
      <4> QED BY <4>1, <4>2
    <3>4. \A i \in 1 .. Len(t) : i > 1 => i - 1 \in 1 .. Len(s)
      BY <1>1, <3>1
    <3>5. Len(l) + 1 <= Len(t)
      BY <1>0, <1>1, <3>1
    <3> QED BY <3>1, <3>2, <3>3, <3>4, <3>5
  <2>2. CASE k \in Range(s)
    <3>1. PICK p \in DOMAIN s : s[p] = k
      BY <2>2 DEF Range
    <3>2. /\ Len(t) = Len(s) /\ t[1] = k
          /\ \A j \in 2 .. Len(s) : t[j] = IF j <= p THEN s[j - 1] ELSE s[j]
      <4>1. \A q \in DOMAIN s : s[q] = k => IsMoved(MovedToFront(s, k), s, k, q)
        BY <1>0, MovedFacts
      <4>2. IsMoved(t, s, k, p)
        BY <3>1, <4>1
      <4> QED BY <4>2 DEF IsMoved
    <3>3. p > Len(l) /\ p \in 1 .. Len(s)
      <4>1. p \notin 1 .. Len(l)
        BY <3>1, <1>0, <1>1 DEF Range
      <4> QED BY <4>1, <3>1, <1>1
    <3>4. \A j \in 2 .. Len(l) + 1 : t[j] = s[j - 1]
      <4> TAKE j \in 2 .. Len(l) + 1
      <4>1. j \in 2 .. Len(s) /\ j <= p
        BY <1>1, <3>3
      <4> QED BY <3>2, <4>1
    <3>5. ASSUME NEW i \in 2 .. Len(t), NEW j \in 1 .. i - 1
          PROVE  \E m \in 1 .. i : s[j] = t[m]
      <4>1. i \in Nat /\ j \in Nat /\ i <= Len(s) /\ 1 <= j /\ j + 1 <= i
        BY <1>1, <3>2
      <4>2. CASE j = p
        <5>1. 1 \in 1 .. i
          BY <4>1
        <5> QED BY <5>1, <4>2, <3>1, <3>2
      <4>3. CASE j < p
        <5>1. j + 1 \in 2 .. Len(s) /\ j + 1 <= p /\ j + 1 - 1 = j /\ j + 1 \in 1 .. i
          BY <4>1, <4>3, <3>3, <1>1
        <5>2. t[j + 1] = s[j + 1 - 1]
          BY <5>1, <3>2
        <5> QED BY <5>1, <5>2
      <4>4. CASE j > p
        <5>1. j \in 2 .. Len(s) /\ ~(j <= p) /\ j \in 1 .. i
          BY <4>1, <4>4, <3>3, <1>1
        <5>2. t[j] = s[j]
          BY <5>1, <3>2
        <5> QED BY <5>1, <5>2
      <4> QED BY <4>1, <4>2, <4>3, <4>4, <3>3
    <3>6. \A i \in 1 .. Len(t) : i > 1 => i - 1 \in 1 .. Len(s)
      BY <1>1, <3>2
    <3>7. Len(l) + 1 <= Len(t)
      BY <1>1, <3>2, <3>3
    <3> QED BY <3>2, <3>4, <3>5, <3>6, <3>7
  <2> QED BY <2>1, <2>2
<1>6. ASSUME NEW j \in 1 .. Len(l) + 1
      PROVE  list[j] = t[j]
  <2>1. CASE j = 1
    BY <2>1, <1>3, <1>5
  <2>2. CASE j # 1
    <3>1. j \in 2 .. Len(l) + 1 /\ j - 1 \in 1 .. Len(l)
      BY <2>2, <1>1
    <3> QED BY <3>1, <1>0, <1>3, <1>5
  <2> QED BY <2>1, <2>2
<1>7. ASSUME NEW i \in DOMAIN t, i > n
      PROVE  TotalSize(Upto(t, i)) > Capacity
  <2>1. i \in 1 .. Len(t) /\ i \in Nat
    BY <1>2
  <2>2. CASE i <= Len(l) + 1
    <3>1. i \in 1 .. Len(l) + 1
      BY <2>1, <2>2, <1>1
    <3>2. Upto(t, i) = Upto(list, i)
      <4>1. \A j \in 1 .. i : j \in 1 .. Len(l) + 1
        BY <3>1, <1>1
      <4>2. \A j \in 1 .. i : list[j] = t[j]
        BY <4>1, <1>6
      <4> QED BY <4>2 DEF Upto
    <3> QED BY <3>1, <3>2, <1>4, <1>7
  <2>3. CASE ~(i <= Len(l) + 1)
    <3>1. i \in 2 .. Len(t) /\ i > 1 /\ i - 1 > Len(l)
      BY <2>1, <2>3, <1>1
    <3>2. i - 1 \in DOMAIN s
      BY <2>1, <3>1, <1>1, <1>5
    <3>3. TotalSize(Upto(s, i - 1)) > Capacity
      BY <1>0, <3>1, <3>2
    <3>4. Upto(s, i - 1) \in SUBSET Upto(t, i)
      BY <3>1, <1>5 DEF Upto
    <3>5. IsFiniteSet(Upto(t, i)) /\ Upto(t, i) \subseteq Block
      BY <2>1, <1>2, UptoFinite
    <3>6. /\ TotalSize(Upto(s, i - 1)) \in Nat /\ TotalSize(Upto(t, i)) \in Nat
          /\ TotalSize(Upto(s, i - 1)) <= TotalSize(Upto(t, i))
      BY <3>4, <3>5, PartIsSmaller
    <3> QED BY <3>3, <3>6, TableReadsAssumption
  <2> QED BY <2>2, <2>3
<1>8. \A j \in 1 .. n : list[j] = t[j]
  <2>1. \A j \in 1 .. n : j \in 1 .. Len(l) + 1
    BY <1>1, <1>4
  <2> QED BY <2>1, <1>6
<1>9. n \in 0 .. Len(t)
  BY <1>1, <1>2, <1>4, <1>5
<1> QED BY <1>2, <1>7, <1>8, <1>9 DEF IsLatest

LEMMA InsertKeepsCache ==
    ASSUME CacheInv, \A x \in DOMAIN map : map[x] = x,
           NEW r \in Threads, Insert(r), get[r].key \in Block, get[r].block = get[r].key,
           get[r].key \notin DOMAIN map
    PROVE  CacheInv'
<1>0. PICK k, list : k = get[r].key /\ list = <<k>> \o lru
  OBVIOUS
<1>1. PICK n : /\ IsFit(list, n) /\ lru' = SubSeq(list, 1, n) /\ DOMAIN map' = Upto(list, n)
               /\ used' = TotalSize(Upto(list, n)) /\ recent' = MovedToFront(recent, k)
  BY <1>0, InsertDoes
<1>2. /\ lru \in Seq(Block) /\ IsInjective(lru) /\ Range(lru) = DOMAIN map
      /\ recent \in Seq(Block) /\ IsInjective(recent) /\ Len(lru) <= Len(recent)
      /\ \A j \in 1 .. Len(lru) : lru[j] = recent[j]
      /\ \A i \in DOMAIN recent : i > Len(lru) => TotalSize(Upto(recent, i)) > Capacity
  BY ListIsInjective DEF CacheInv, ListOK, RoomIsUsed
<1>3. k \in Block /\ k \notin Range(lru)
  BY <1>0, <1>2
<1>4. list \in Seq(Block) /\ IsInjective(list)
  BY <1>0, <1>2, <1>3, PutInjective
<1>5. IsLatest(list, recent', n)
  <2>1. PICK l, s, t : l = lru /\ s = recent /\ t = recent'
    OBVIOUS
  <2>2. IsLatest(lru, recent, Len(lru))
    BY <1>2 DEF IsLatest
  <2>3. l \in Seq(Block) /\ IsLatest(l, s, Len(l)) /\ k \in Block /\ k \notin Range(l)
    BY <2>1, <2>2, <1>2, <1>3
  <2>4. list = <<k>> \o l /\ t = MovedToFront(s, k)
    BY <2>1, <1>0, <1>1
  <2>5. IsLatest(list, t, n)
    BY <2>3, <2>4, <1>1, PutKeepsRoom
  <2> QED BY <2>1, <2>5
<1>6. n \in 0 .. Len(list) /\ n \in Nat /\ TotalSize(Upto(list, n)) <= Capacity
  BY <1>1, <1>4 DEF IsFit
<1>7. /\ lru' \in Seq(Block) /\ Len(lru') = n /\ \A j \in 1 .. n : lru'[j] = list[j]
      /\ Range(lru') = Upto(list, n)
  BY <1>1, <1>4, <1>6, RestOfList
<1>8. ListOK'
  <2>1. recent' \in Seq(Block) /\ IsInjective(recent') /\ Len(lru') <= Len(recent')
    BY <1>5, <1>7 DEF IsLatest
  <2>2. \A j \in 1 .. Len(lru') : lru'[j] = recent'[j]
    BY <1>5, <1>7 DEF IsLatest
  <2> QED BY <2>1, <2>2, <1>1, <1>7 DEF ListOK
<1>9. RoomIsUsed'
  BY <1>5, <1>7 DEF RoomIsUsed, IsLatest
<1>10. UsedOK'
  BY <1>1, <1>6 DEF UsedOK
<1> QED BY <1>8, <1>9, <1>10 DEF CacheInv

-----------------------------------------------------------------------------
(* What uses the cache, and what does not.                                 *)

LEMMA FindKeepsCache ==
    ASSUME Inv, CacheInv, NEW r \in Threads, Find(r)
    PROVE  CacheInv'
<1> DEFINE k == get[r].key
<1>1. CASE k \in DOMAIN map
  <2>1. /\ lru' = MovedToFront(lru, k) /\ recent' = MovedToFront(recent, k)
        /\ map' = map /\ used' = used
    BY <1>1 DEF Find, CacheKey, Spliced
  <2> HIDE DEF k
  <2> QED BY <2>1, <1>1, HitKeepsList
<1>2. CASE k \notin DOMAIN map
  <2>1. UNCHANGED cache
    BY <1>2 DEF Find, CacheKey, cache
  <2> QED BY <2>1 DEF cache, CacheInv, ListOK, RoomIsUsed, UsedOK
<1> QED BY <1>1, <1>2

LEMMA InsideKeepsCache ==
    ASSUME Inv, CacheInv, NEW r \in Threads, Inside(r)
    PROVE  CacheInv'
<1>1. CASE Find(r)
  BY <1>1, FindKeepsCache
<1>2. CASE Insert(r)
  <2>1. get[r].pc = "insert"
    BY <1>2 DEF Insert, At
  <2>2. /\ get[r].key \in Block /\ get[r].block = get[r].key /\ get[r].key \notin DOMAIN map
        /\ \A x \in DOMAIN map : map[x] = x
    BY <2>1 DEF Inv, Typed, CacheIsTrue, Absent
  <2> QED BY <1>2, <2>2, InsertKeepsCache
<1>3. CASE ~(Find(r) \/ Insert(r))
  <2>1. UNCHANGED cache
    BY <1>3 DEF Inside, AlreadyOpen, OpenFails, Open, LoadFooter, LoadFooterFails, HaveBloom,
                LoadBloom, LoadBloomFails, LoadBloomWithoutFooter, LoadIndex, LoadIndexFails,
                ReadBlock, ReadBlockFails, Answer, handles
  <2> QED BY <2>1 DEF cache, CacheInv, ListOK, RoomIsUsed, UsedOK
<1> QED BY <1>1, <1>2, <1>3

LEMMA CacheInvIsInvariant == Spec => []CacheInv
<1>1. Init => CacheInv
  <2> SUFFICES ASSUME Init PROVE CacheInv
    OBVIOUS
  <2>1. lru = <<>> /\ recent = <<>> /\ DOMAIN map = {} /\ used = 0
    BY DEF Init
  <2>2. ListOK
    BY <2>1 DEF ListOK, IsInjective, Range
  <2>3. RoomIsUsed
    BY <2>1 DEF RoomIsUsed
  <2>4. IsFiniteSet({}) /\ {} \subseteq Block
    BY FS_EmptySet
  <2>5. TotalSize({}) = 0
    BY <2>4, TotalFacts
  <2>6. UsedOK
    BY <2>1, <2>5, TableReadsAssumption DEF UsedOK
  <2> QED BY <2>2, <2>3, <2>6 DEF CacheInv
<1>2. Inv /\ CacheInv /\ [Next]_vars => CacheInv'
  <2> SUFFICES ASSUME Inv, CacheInv, [Next]_vars PROVE CacheInv'
    OBVIOUS
  <2>1. ASSUME NEW r \in Threads, Inside(r) PROVE CacheInv'
    BY <2>1, InsideKeepsCache
  <2>2. CASE UNCHANGED cache
    BY <2>2 DEF cache, CacheInv, ListOK, RoomIsUsed, UsedOK
  <2>3. CASE UNCHANGED vars
    BY <2>2, <2>3 DEF vars
  <2>4. ASSUME NEW r \in Threads, NEW k \in Block, Call(r, k) PROVE CacheInv'
    BY <2>2, <2>4 DEF Call
  <2>5. ASSUME NEW r \in Threads, Lock(r) PROVE CacheInv'
    BY <2>2, <2>5 DEF Lock
  <2> QED BY <2>1, <2>3, <2>4, <2>5 DEF Next
<1> QED BY <1>1, <1>2, InvIsInvariant, PTL DEF Spec

(* BlockCache::get and insert (table_reader.cpp) keep the list, the map    *)
(* and used_ in step, and insert evicts until used_ is within the          *)
(* capacity: after any hits, insertions and evictions, of any sizes.       *)
THEOREM CacheAgreesHolds == Spec => []CacheAgrees
<1>1. Inv /\ CacheInv => CacheAgrees
  <2> SUFFICES ASSUME Inv, CacheInv PROVE CacheAgrees
    OBVIOUS
  <2>1. /\ IsInjective(lru) /\ Range(lru) = DOMAIN map
        /\ IsFiniteSet(DOMAIN map) /\ DOMAIN map \subseteq Block
    BY ListIsInjective DEF CacheInv, ListOK
  <2>2. \A k \in DOMAIN map : map[k] = k
    BY DEF Inv, CacheIsTrue
  <2>3. Bytes(map, DOMAIN map) = TotalSize(DOMAIN map)
    BY <2>1, <2>2, BytesAreTotal
  <2>4. used = TotalSize(DOMAIN map) /\ used <= Capacity
    BY DEF CacheInv, UsedOK
  <2> QED BY <2>1, <2>3, <2>4 DEF CacheAgrees
<1> QED BY <1>1, InvIsInvariant, CacheInvIsInvariant, PTL

(* BlockCache evicts from the back of lru_, and get moves what it finds to *)
(* the front: a block is read from disk again only if it and all that was  *)
(* used since do not fit.                                                  *)
THEOREM WarmBlocksStayHolds == Spec => []WarmBlocksStay
<1>1. CacheInv => WarmBlocksStay
  <2> SUFFICES ASSUME CacheInv, NEW i \in DOMAIN recent, TotalSize(UsedSince(i)) <= Capacity
               PROVE  recent[i] \in DOMAIN map
    BY DEF WarmBlocksStay
  <2>1. /\ recent \in Seq(Block) /\ lru \in Seq(Block) /\ Range(lru) = DOMAIN map
        /\ \A j \in 1 .. Len(lru) : lru[j] = recent[j]
    BY DEF CacheInv, ListOK
  <2>2. i \in 1 .. Len(recent) /\ Len(lru) \in Nat /\ i \in 0 .. Len(recent)
    BY <2>1
  <2>3. CASE i <= Len(lru)
    <3>1. i \in 1 .. Len(lru) /\ i \in DOMAIN lru
      BY <2>1, <2>2, <2>3
    <3> QED BY <3>1, <2>1 DEF Range
  <2>4. CASE ~(i <= Len(lru))
    <3>1. i > Len(lru)
      BY <2>2, <2>4
    <3>2. TotalSize(Upto(recent, i)) > Capacity
      BY <3>1 DEF CacheInv, RoomIsUsed
    <3>3. Upto(recent, i) = UsedSince(i)
      BY DEF Upto, UsedSince
    <3>4. TotalSize(Upto(recent, i)) \in Nat
      <4>1. IsFiniteSet(Upto(recent, i)) /\ Upto(recent, i) \subseteq Block
        BY <2>1, <2>2, UptoFinite
      <4> QED BY <4>1, TotalFacts
    <3> QED BY <3>2, <3>3, <3>4, TableReadsAssumption
  <2> QED BY <2>3, <2>4
<1> QED BY <1>1, CacheInvIsInvariant, PTL
=============================================================================
