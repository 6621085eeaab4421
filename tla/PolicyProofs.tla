---------------------------- MODULE PolicyProofs ----------------------------
(***************************************************************************)
(* Proofs about module CompactionPolicy: for every fan-in, ratio, trigger, *)
(* stall limit and queue length, and any number of tables of any sizes,    *)
(* the loop of pick_compaction chooses the window its description names,   *)
(* and the write stall bounds what piles up.                               *)
(***************************************************************************)
EXTENDS CompactionPolicy, CommonLemmas, SequenceTheorems

-----------------------------------------------------------------------------
(* The picker.                                                             *)

Sizes == 1 .. MaxSize

(* A window has at least two tables.                                       *)
LEMMA WindowsAreWide == WindowSize \in Nat /\ WindowSize >= 2
<1>1. FanIn \in Nat
  BY PolicyAssumption
<1>. QED
  BY <1>1, GreaterOfTwo DEF WindowSize

(* The windows of a list are the first of its positions.                   *)
LEMMA WindowsOfAList ==
    ASSUME NEW s \in Seq(Sizes)
    PROVE  /\ Cardinality(Windows(s)) \in 0 .. Len(s)
           /\ Windows(s) = 1 .. Cardinality(Windows(s))
           /\ \A i \in Windows(s) : i \in 1 .. Len(s) /\ i + WindowSize - 1 \in 1 .. Len(s)
<1>1. Len(s) \in Nat /\ WindowSize \in Nat /\ WindowSize >= 2
  BY WindowsAreWide, LenProperties
<1>2. Cardinality(Windows(s)) = IF 1 > Len(s) - WindowSize + 1 THEN 0
                                ELSE Len(s) - WindowSize + 1
  <2>. DEFINE last == Len(s) - WindowSize + 1
  <2>1. last \in Int
    BY <1>1
  <2>. HIDE DEF last
  <2>2. Cardinality(1 .. last) = IF 1 > last THEN 0 ELSE last - 1 + 1
    BY <2>1, FS_Interval
  <2>. QED
    BY <1>1, <2>1, <2>2 DEF Windows, last
<1>. QED
  BY <1>1, <1>2 DEF Windows

(* The bytes of a window are a natural.                                    *)
LEMMA BytesTyped ==
    ASSUME NEW s \in Seq(Sizes), NEW i \in Windows(s)
    PROVE  TotalBytes(s, i) \in Nat
<1>. DEFINE Adds(f) == f = [j \in 0 .. WindowSize |->
                               IF j = 0 THEN 0 ELSE s[i + j - 1] + f[j - 1]]
            sum == CHOOSE f : Adds(f)
            T == {n \in Nat : n <= WindowSize => sum[n] \in Nat}
<1>1. ASSUME NEW j \in 1 .. WindowSize
      PROVE  s[i + j - 1] \in Nat
  <2>1. i + j - 1 \in 1 .. Len(s)
    BY WindowsAreWide, WindowsOfAList, LenProperties
  <2>2. s[i + j - 1] \in Sizes /\ MaxSize \in Nat
    BY <2>1, ElementOfSeq, PolicyAssumption
  <2>. QED
    BY <2>2 DEF Sizes
<1>2. \E f : Adds(f)
  <2>. DEFINE step == [j \in 1 .. WindowSize |-> [a \in Nat |-> s[i + j - 1] + a]]
  <2>1. IsStep(step, WindowSize, Nat)
    BY <1>1 DEF IsStep
  <2>2. PICK f : IsRecursion(f, WindowSize, Nat, 0, step)
    <3>. HIDE DEF step
    <3>1. WindowSize \in Nat /\ 0 \in Nat
      BY WindowsAreWide
    <3>. QED
      BY <2>1, <3>1, RecursionExists
  <2>3. f \in [0 .. WindowSize -> Nat] /\ f[0] = 0
    BY <2>2 DEF IsRecursion
  <2>4. ASSUME NEW j \in 0 .. WindowSize
        PROVE  f[j] = IF j = 0 THEN 0 ELSE s[i + j - 1] + f[j - 1]
    <3>1. CASE j = 0
      BY <2>3, <3>1
    <3>2. CASE j # 0
      <4>1. j \in 1 .. WindowSize /\ f[j - 1] \in Nat
        BY <2>3, <3>2, WindowsAreWide
      <4>2. f[j] = step[j][f[j - 1]]
        BY <2>2, <4>1 DEF IsRecursion
      <4>. QED
        BY <3>2, <4>1, <4>2
    <3>. QED
      BY <3>1, <3>2
  <2>. QED
    BY <2>3, <2>4
<1>3. \A j \in 0 .. WindowSize :
          sum[j] = IF j = 0 THEN 0 ELSE s[i + j - 1] + sum[j - 1]
  <2>1. Adds(sum)
    BY <1>2
  <2>. HIDE DEF sum
  <2>. QED
    BY <2>1
<1>. HIDE DEF sum
<1>4. 0 \in T
  BY <1>3, WindowsAreWide
<1>5. ASSUME NEW n \in T
      PROVE  n + 1 \in T
  <2>1. CASE n + 1 <= WindowSize
    <3>1. n + 1 \in 1 .. WindowSize /\ n + 1 \in 0 .. WindowSize
      BY <2>1, WindowsAreWide
    <3>2. sum[n + 1] = s[i + (n + 1) - 1] + sum[n]
      BY <1>3, <3>1
    <3>3. sum[n] \in Nat
      BY <2>1, WindowsAreWide
    <3>4. s[i + (n + 1) - 1] \in Nat
      BY <1>1, <3>1
    <3>. QED
      BY <3>2, <3>3, <3>4
  <2>. QED
    BY <2>1, WindowsAreWide
<1>6. T = Nat
  <2>. HIDE DEF T
  <2>1. T \subseteq Nat
    BY DEF T
  <2>. QED
    BY <1>4, <1>5, <2>1, InductionOnASet
<1>7. sum[WindowSize] \in Nat
  BY <1>6, WindowsAreWide
<1>. QED
  BY <1>7 DEF TotalBytes, sum

(* i is the cheapest of some windows, or 0 and there are none.             *)
IsCheapest(s, i, windows) ==
    IF windows = {} THEN i = 0
    ELSE i \in windows /\ \A j \in windows : TotalBytes(s, i) <= TotalBytes(s, j)

(* The cheapest of one window more.                                        *)
LEMMA BetterIsCheapest ==
    ASSUME NEW s \in Seq(Sizes), NEW windows \in SUBSET Windows(s), NEW best,
           IsCheapest(s, best, windows), NEW i \in Windows(s)
    PROVE  IsCheapest(s, Better(s, i, best), windows \cup {i})
<1>1. \A j \in windows \cup {i} : TotalBytes(s, j) \in Nat /\ j # 0
  BY BytesTyped, WindowsOfAList
<1>2. CASE windows = {}
  <2>1. Better(s, i, best) = i
    BY <1>2 DEF IsCheapest, Better
  <2>. QED
    BY <1>1, <1>2, <2>1 DEF IsCheapest
<1>3. CASE windows # {}
  <2>1. best \in windows /\ best # 0
        /\ \A j \in windows : TotalBytes(s, best) <= TotalBytes(s, j)
    BY <1>1, <1>3 DEF IsCheapest
  <2>2. CASE TotalBytes(s, i) < TotalBytes(s, best)
    BY <1>1, <2>1, <2>2 DEF IsCheapest, Better
  <2>3. CASE ~(TotalBytes(s, i) < TotalBytes(s, best))
    BY <1>1, <2>1, <2>3 DEF IsCheapest, Better
  <2>. QED
    BY <2>2, <2>3
<1>. QED
  BY <1>2, <1>3

(* The loop finds the cheapest size-similar window and the cheapest of all.*)
Similar(s, n) == {i \in 1 .. n : SizeSimilar(s, i)}

Found(s, n, found) == /\ IsCheapest(s, found.best, Similar(s, n))
                      /\ IsCheapest(s, found.fallback, 1 .. n)

(* One window more.                                                        *)
After(s, i, found) ==
    [best |-> IF SizeSimilar(s, i) THEN Better(s, i, found.best) ELSE found.best,
     fallback |-> Better(s, i, found.fallback)]

LEMMA AfterFinds ==
    ASSUME NEW s \in Seq(Sizes), NEW n \in Nat, n + 1 \in Windows(s),
           NEW found, Found(s, n, found)
    PROVE  Found(s, n + 1, After(s, n + 1, found))
<1>1. 1 .. n \subseteq Windows(s) /\ 1 .. n + 1 = (1 .. n) \cup {n + 1}
  BY WindowsOfAList
<1>2. IsCheapest(s, Better(s, n + 1, found.fallback), 1 .. n + 1)
  BY <1>1, BetterIsCheapest DEF Found
<1>3. Similar(s, n) \subseteq Windows(s)
  BY <1>1 DEF Similar
<1>4. CASE SizeSimilar(s, n + 1)
  <2>1. Similar(s, n + 1) = Similar(s, n) \cup {n + 1}
    BY <1>1, <1>4 DEF Similar
  <2>2. IsCheapest(s, Better(s, n + 1, found.best), Similar(s, n + 1))
    BY <1>3, <2>1, BetterIsCheapest DEF Found
  <2>. QED
    BY <1>2, <1>4, <2>2 DEF Found, After
<1>5. CASE ~SizeSimilar(s, n + 1)
  <2>1. Similar(s, n + 1) = Similar(s, n)
    BY <1>1, <1>5 DEF Similar
  <2>. QED
    BY <1>2, <1>5, <2>1 DEF Found, After
<1>. QED
  BY <1>4, <1>5

LEMMA ScanFinds ==
    ASSUME NEW s \in Seq(Sizes)
    PROVE  Found(s, Cardinality(Windows(s)), Scan(s))
<1>. DEFINE Scans(f) == f = [i \in 0 .. Len(s) |->
                                IF i = 0 THEN [best |-> 0, fallback |-> 0]
                                ELSE [best |-> IF SizeSimilar(s, i)
                                               THEN Better(s, i, f[i - 1].best)
                                               ELSE f[i - 1].best,
                                      fallback |-> Better(s, i, f[i - 1].fallback)]]
            A == [best : Nat, fallback : Nat]
            none == [best |-> 0, fallback |-> 0]
            step == [i \in 1 .. Len(s) |-> [found \in A |-> After(s, i, found)]]
            scan == CHOOSE f : Scans(f)
            T == {n \in Nat : n \in 0 .. Cardinality(Windows(s)) => Found(s, n, scan[n])}
<1>1. Len(s) \in Nat
  BY LenProperties
<1>2. \E f : Scans(f)
  <2>1. ASSUME NEW i \in 1 .. Len(s), NEW found \in A
        PROVE  After(s, i, found) \in A
    <3>1. \A b \in Nat : Better(s, i, b) \in Nat
      BY DEF Better
    <3>. QED
      BY <3>1 DEF After
  <2>2. IsStep(step, Len(s), A)
    BY <2>1 DEF IsStep
  <2>3. PICK f : IsRecursion(f, Len(s), A, none, step)
    <3>1. none \in A
      OBVIOUS
    <3>. HIDE DEF step, none, A
    <3>. QED
      BY <1>1, <2>2, <3>1, RecursionExists
  <2>4. f \in [0 .. Len(s) -> A] /\ f[0] = none
    BY <2>3 DEF IsRecursion
  <2>5. ASSUME NEW i \in 0 .. Len(s)
        PROVE  f[i] = IF i = 0 THEN none ELSE After(s, i, f[i - 1])
    <3>1. CASE i = 0
      BY <2>4, <3>1
    <3>2. CASE i # 0
      <4>1. i \in 1 .. Len(s) /\ f[i - 1] \in A
        BY <1>1, <2>4, <3>2
      <4>2. f[i] = step[i][f[i - 1]]
        BY <2>3, <4>1 DEF IsRecursion
      <4>. QED
        BY <3>2, <4>1, <4>2
    <3>. QED
      BY <3>1, <3>2
  <2>. QED
    BY <2>4, <2>5 DEF After
<1>3. /\ scan[0] = none
      /\ \A i \in 1 .. Len(s) : scan[i] = After(s, i, scan[i - 1])
  <2>1. Scans(scan)
    BY <1>2
  <2>. HIDE DEF scan
  <2>. QED
    BY <1>1, <2>1 DEF After
<1>. HIDE DEF scan
<1>4. 0 \in T
  <2>1. Found(s, 0, none)
    BY DEF Found, Similar, IsCheapest
  <2>. QED
    BY <1>3, <2>1
<1>5. ASSUME NEW n \in T
      PROVE  n + 1 \in T
  <2>1. CASE n + 1 \in Windows(s)
    <3>1. Found(s, n, scan[n])
      BY <2>1, WindowsOfAList
    <3>2. scan[n + 1] = After(s, n + 1, scan[n])
      BY <1>3, <2>1, WindowsOfAList
    <3>3. Found(s, n + 1, scan[n + 1])
      BY <2>1, <3>1, <3>2, AfterFinds
    <3>. QED
      BY <3>3
  <2>2. CASE n + 1 \notin Windows(s)
    BY <2>2, WindowsOfAList
  <2>. QED
    BY <2>1, <2>2
<1>6. T = Nat
  <2>. HIDE DEF T
  <2>1. T \subseteq Nat
    BY DEF T
  <2>. QED
    BY <1>4, <1>5, <2>1, InductionOnASet
<1>7. Found(s, Cardinality(Windows(s)), scan[Cardinality(Windows(s))])
  BY <1>6, WindowsOfAList
<1>. QED
  BY <1>7 DEF Scan, scan

(* What pick_compaction answers.                                           *)
LEMMA PickIsCheapest ==
    ASSUME NEW s \in Seq(Sizes)
    PROVE  LET similar == {i \in Windows(s) : SizeSimilar(s, i)}
           IN IsCheapest(s, Pick(s), IF similar # {} THEN similar ELSE Windows(s))
<1>. DEFINE n == Cardinality(Windows(s))
<1>1. /\ IsCheapest(s, Scan(s).best, Similar(s, n))
      /\ IsCheapest(s, Scan(s).fallback, Windows(s))
  BY ScanFinds, WindowsOfAList DEF Found
<1>2. Similar(s, n) = {i \in Windows(s) : SizeSimilar(s, i)} /\ 0 \notin Similar(s, n)
  BY WindowsOfAList DEF Similar
<1>. QED
  BY <1>1, <1>2 DEF Pick, IsCheapest

-----------------------------------------------------------------------------
(* The tables.                                                             *)

(* A flush adds a table in front.                                          *)
LEMMA FlushAdds ==
    ASSUME NEW s \in Seq(Sizes), NEW size \in Sizes
    PROVE  <<size>> \o s \in Seq(Sizes) /\ Len(<<size>> \o s) = Len(s) + 1
<1>1. <<size>> \in Seq(Sizes) /\ Len(<<size>>) = 1
  OBVIOUS
<1>. QED
  BY <1>1, ConcatProperties, LenProperties

(* A compaction leaves fewer tables.                                       *)
LEMMA CompactionShrinks ==
    ASSUME NEW s \in Seq(Sizes), NEW i \in Windows(s), NEW out \in Outputs(s, i)
    PROVE  LET t == SubSeq(s, 1, i - 1) \o out \o SubSeq(s, i + WindowSize, Len(s))
           IN t \in Seq(Sizes) /\ Len(t) < Len(s)
<1>. DEFINE before == SubSeq(s, 1, i - 1)
            after == SubSeq(s, i + WindowSize, Len(s))
<1>1. /\ WindowSize \in Nat /\ WindowSize >= 2 /\ Len(s) \in Nat
      /\ i \in 1 .. Len(s) /\ i + WindowSize - 1 \in 1 .. Len(s)
  BY WindowsAreWide, WindowsOfAList, LenProperties
<1>2. out \in Seq(Sizes) /\ Len(out) \in Nat /\ Len(out) <= 1
  <2>. DEFINE top == Min({MaxSize, TotalBytes(s, i)})
  <2>1. TotalBytes(s, i) \in Nat /\ MaxSize \in Nat
    BY BytesTyped, PolicyAssumption
  <2>2. top \in Nat /\ top <= MaxSize
    BY <2>1, LesserOfTwo
  <2>3. out = <<>> \/ \E size \in 1 .. top : out = <<size>>
    BY DEF Outputs
  <2>. HIDE DEF top
  <2>4. 1 .. top \subseteq Sizes
    BY <2>1, <2>2 DEF Sizes
  <2>5. CASE out = <<>>
    <3>1. <<>> \in Seq(Sizes) /\ Len(<<>>) = 0
      OBVIOUS
    <3>. QED
      BY <2>5, <3>1
  <2>6. CASE \E size \in 1 .. top : out = <<size>>
    <3>1. PICK size \in Sizes : out = <<size>>
      BY <2>4, <2>6
    <3>2. <<size>> \in Seq(Sizes) /\ Len(<<size>>) = 1
      OBVIOUS
    <3>3. Len(out) = 1 /\ out \in Seq(Sizes)
      BY <3>1, <3>2
    <3>. QED
      BY <3>3
  <2>. QED
    BY <2>3, <2>5, <2>6
<1>3. \A j \in 1 .. Len(s) : s[j] \in Sizes
  BY ElementOfSeq
<1>4. before \in Seq(Sizes) /\ Len(before) = i - 1
  <2>1. i - 1 \in Int /\ \A j \in 1 .. i - 1 : s[j] \in Sizes
    BY <1>1, <1>3
  <2>2. before \in Seq(Sizes) /\ Len(before) = IF 1 <= i - 1 THEN i - 1 - 1 + 1 ELSE 0
    BY <2>1, SubSeqProperties
  <2>. QED
    BY <1>1, <2>2
<1>5. after \in Seq(Sizes) /\ Len(after) = Len(s) - WindowSize - i + 1
  <2>. DEFINE m == i + WindowSize
  <2>1. m \in Int /\ Len(s) \in Int /\ \A j \in m .. Len(s) : s[j] \in Sizes
    BY <1>1, <1>3
  <2>2. after \in Seq(Sizes) /\ Len(after) = IF m <= Len(s) THEN Len(s) - m + 1 ELSE 0
    <3>. HIDE DEF m
    <3>. QED
      BY <2>1, SubSeqProperties DEF m
  <2>. QED
    BY <1>1, <2>2
<1>. HIDE DEF before, after
<1>. DEFINE most == before \o out
<1>6. most \in Seq(Sizes) /\ Len(most) = Len(before) + Len(out)
  BY <1>2, <1>4, ConcatProperties
<1>. HIDE DEF most
<1>7. most \o after \in Seq(Sizes) /\ Len(most \o after) = Len(most) + Len(after)
  BY <1>5, <1>6, ConcatProperties
<1>8. Len(most \o after) < Len(s)
  <2>1. Len(most \o after) = (i - 1) + Len(out) + (Len(s) - WindowSize - i + 1)
    BY <1>4, <1>5, <1>6, <1>7
  <2>. QED
    BY <1>1, <1>2, <2>1
<1>. QED
  BY <1>7, <1>8 DEF most, before, after

(* What a compaction of the picked window does to the tables.              *)
LEMMA PickedWindowShrinks ==
    ASSUME tables \in Seq(Sizes), CompactWindow(Pick(tables))
    PROVE  tables' \in Seq(Sizes) /\ Len(tables') < Len(tables)
<1>1. Pick(tables) # 0
  BY DEF CompactWindow
<1>2. Pick(tables) \in Windows(tables)
  BY <1>1, PickIsCheapest DEF IsCheapest
<1>. QED
  BY <1>2, CompactionShrinks DEF CompactWindow

-----------------------------------------------------------------------------
(* What piles up.  One more than the limit is reached by the rotation that *)
(* ends a put; while a put is under way the one is still to come.          *)

Backlog == Len(tables) + queue

PolicyInv == TypeOK /\ Backlog <= Stop + MaxImm + (IF writer = "idle" THEN 1 ELSE 0)

(* The policy's steps keep the invariant.                                  *)
LEMMA PolicyStep == PolicyInv /\ [Next]_vars => PolicyInv'
<1>. SUFFICES ASSUME PolicyInv, [Next]_vars PROVE PolicyInv'
  OBVIOUS
<1>1. /\ tables \in Seq(Sizes) /\ Len(tables) \in Nat /\ queue \in 0 .. MaxImm
      /\ Stop \in Nat /\ MaxImm \in Nat
  BY PolicyAssumption, LenProperties DEF PolicyInv, TypeOK, Sizes
<1>2. CASE StartPut
  BY <1>1, <1>2 DEF StartPut, WriteStall, PolicyInv, TypeOK, Backlog
<1>3. CASE Unblock
  BY <1>1, <1>3 DEF Unblock, PolicyInv, TypeOK, Backlog
<1>4. CASE ApplyPut
  <2>1. queue' \in 0 .. MaxImm /\ queue' <= queue + 1
    BY <1>1, <1>4 DEF ApplyPut, MayRotate, HasRoom
  <2>2. /\ writer = "admitted" /\ writer' = "idle" /\ full' \in BOOLEAN
        /\ UNCHANGED <<tables, worker, paused>>
    BY <1>4 DEF ApplyPut, PolicyInv, TypeOK
  <2>3. Backlog' <= Stop + MaxImm + 1
    BY <1>1, <2>1, <2>2 DEF PolicyInv, Backlog
  <2>4. TypeOK'
    BY <2>1, <2>2 DEF PolicyInv, TypeOK
  <2>. QED
    BY <2>2, <2>3, <2>4 DEF PolicyInv
<1>5. CASE Flush
  <2>1. tables' \in Seq(Sizes) /\ Len(tables') = Len(tables) + 1
    BY <1>1, <1>5, FlushAdds DEF Flush, Sizes
  <2>2. /\ queue' = queue - 1 /\ queue > 0
        /\ UNCHANGED <<full, writer, worker, paused>>
    BY <1>5 DEF Flush
  <2>3. Backlog' = Backlog /\ queue' \in 0 .. MaxImm
    BY <1>1, <2>1, <2>2 DEF Backlog
  <2>4. Backlog' <= Stop + MaxImm + (IF writer' = "idle" THEN 1 ELSE 0)
    BY <2>2, <2>3 DEF PolicyInv
  <2>5. TypeOK'
    BY <2>1, <2>2, <2>3 DEF PolicyInv, TypeOK, Sizes
  <2>. QED
    BY <2>4, <2>5 DEF PolicyInv
<1>6. CASE WorkerCompact
  <2>1. /\ tables' \in Seq(Sizes)
        /\ Len(tables') \in Nat /\ Len(tables') <= Len(tables)
    BY <1>1, <1>6, PickedWindowShrinks, LenProperties DEF WorkerCompact
  <2>. QED
    BY <1>1, <1>6, <2>1 DEF WorkerCompact, PolicyInv, TypeOK, Backlog, Sizes
<1>7. CASE UserCompact
  <2>1. /\ tables' \in Seq(Sizes)
        /\ Len(tables') \in Nat /\ Len(tables') <= Len(tables)
    BY <1>1, <1>7, PickedWindowShrinks, LenProperties DEF UserCompact
  <2>. QED
    BY <1>1, <1>7, <2>1 DEF UserCompact, PolicyInv, TypeOK, Backlog, Sizes
<1>8. CASE WorkerTick \/ WorkerFails \/ SetPaused \/ UNCHANGED vars
  BY <1>8 DEF WorkerTick, WorkerFails, SetPaused, vars, PolicyInv, TypeOK, Backlog
<1>. QED
  BY <1>2, <1>3, <1>4, <1>5, <1>6, <1>7, <1>8 DEF Next

(* The invariant holds of an empty store.                                  *)
LEMMA PolicyStart == Init => PolicyInv
<1>1. Stop \in Nat /\ MaxImm \in Nat /\ <<>> \in Seq(Sizes) /\ Len(<<>>) = 0
  BY PolicyAssumption
<1>2. SUFFICES ASSUME Init PROVE PolicyInv
  OBVIOUS
<1>3. TypeOK
  <2>1. tables \in Seq(Sizes) /\ queue \in 0 .. MaxImm
    BY <1>1, <1>2 DEF Init
  <2>2. /\ full \in BOOLEAN /\ paused \in BOOLEAN
        /\ writer \in {"idle", "waiting", "admitted"} /\ worker \in {"asleep", "going"}
    BY <1>2 DEF Init
  <2>. QED
    BY <2>1, <2>2 DEF TypeOK, Sizes
<1>4. Backlog = 0
  BY <1>1, <1>2 DEF Init, Backlog
<1>. QED
  BY <1>1, <1>3, <1>4 DEF PolicyInv

(* The state is of its type; above all the flush queue never outgrows      *)
(* max_immutable_tables, though its room is checked by the write before it *)
(* rotates, and what a compaction leaves is a list of tables.              *)
THEOREM PolicyTyped == Spec => []TypeOK
<1>1. PolicyInv => TypeOK
  BY DEF PolicyInv
<1>. QED
  BY PolicyStart, PolicyStep, <1>1, PTL DEF Spec

(* The stall of ensure_write_capacity bounds the tables and the queued     *)
(* memtables together, whatever the flushes and compactions do.            *)
THEOREM StallBoundsBacklog == Spec => []BacklogIsBounded
<1>1. PolicyInv => BacklogIsBounded
  BY PolicyAssumption, LenProperties DEF PolicyInv, TypeOK, Backlog, BacklogIsBounded
<1>. QED
  BY PolicyStart, PolicyStep, <1>1, PTL DEF Spec

(* The single pass of pick_compaction chooses, for every list of tables,   *)
(* the size-similar window with the fewest bytes, or the cheapest of all.  *)
THEOREM PickIsRight == Spec => []PickIsTheReference
<1>1. TypeOK => PickIsTheReference
  BY PickIsCheapest DEF TypeOK, Sizes, PickIsTheReference, IsCheapest
<1>. QED
  BY PolicyTyped, <1>1, PTL
=============================================================================
