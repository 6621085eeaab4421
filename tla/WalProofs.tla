----------------------------- MODULE WalProofs -----------------------------
(***************************************************************************)
(* Proofs about module Wal.                                                *)
(*                                                                         *)
(* First what the operators on segment files do: a file is a finite        *)
(* function from positive ids to a header flag and a sequence of items,    *)
(* and a step adds a segment, appends an item, marks the last one,         *)
(* removes segments or cuts a tail.  Typed says that this is all there     *)
(* is, and how the record under way is placed.  KindsOfSteps sorts the     *)
(* actions by what they do to the files; on it rest the order of replay    *)
(* (OrderInv, StrictInv) and cleanup (CleanupInv).  WholeInv and RiskInv   *)
(* are about what failed calls and crashes leave: nothing acknowledged     *)
(* behind a bad record, and little of it not yet on the disk.  Last the    *)
(* refinement of DurableLog: what a restart would replay are the records   *)
(* that stand in the files, the one under way apart.                       *)
(***************************************************************************)
EXTENDS Wal, CommonLemmas, SequenceTheorems, FiniteSetTheorems, TLAPS

-----------------------------------------------------------------------------
(* About finite sets, items and segments.                                  *)

(* A finite set of naturals that is not empty has a greatest element.      *)
LEMMA GreatestOfFinite ==
    ASSUME NEW S \in SUBSET Nat, S # {}, IsFiniteSet(S)
    PROVE  Max(S) \in S /\ \A n \in S : n <= Max(S)
<1>. DEFINE above == {{k \in S : k >= n} : n \in S}
<1>1. above \subseteq FiniteSubsetsOf(Nat) /\ above # {}
  <2>1. \A n \in S : IsFiniteSet({k \in S : k >= n})
    <3>1. \A n \in S : {k \in S : k >= n} \in SUBSET S
      OBVIOUS
    <3>. QED
      BY <3>1, FS_Subset
  <2>. QED
    BY <2>1 DEF FiniteSubsetsOf
<1>2. PICK b \in above : \A c \in above : ~(<<c, b>> \in StrictSubsetOrdering(Nat))
  BY <1>1, FS_StrictSubsetOrderingWellFounded, WFMin
<1>3. PICK n \in S : b = {k \in S : k >= n}
  OBVIOUS
<1>4. ASSUME NEW m \in S, m > n
      PROVE  FALSE
  <2>. DEFINE c == {k \in S : k >= m}
  <2>1. c \in above /\ c \subseteq b
    <3>1. c \in above
      OBVIOUS
    <3>2. \A k \in S : k >= m => k >= n
      BY <1>4
    <3>. QED
      BY ONLY <1>3, <3>1, <3>2 DEF c
  <2>2. n \in b /\ n \notin c
    BY <1>3, <1>4
  <2>3. <<c, b>> \in StrictSubsetOrdering(Nat)
    BY <1>3, <2>1, <2>2 DEF StrictSubsetOrdering
  <2>. QED
    BY <1>2, <2>1, <2>3
<1>5. \A m \in S : n >= m
  BY <1>4
<1>. QED
  BY <1>5 DEF Max

(* The image of 1 .. n under a function is finite.                         *)
LEMMA FiniteImage ==
    ASSUME NEW S, IsFiniteSet(S), NEW f \in [S -> Nat]
    PROVE  IsFiniteSet({f[x] : x \in S}) /\ {f[x] : x \in S} \subseteq Nat
<1>. DEFINE T == {f[x] : x \in S}
<1>1. f \in Surjection(S, T)
  BY DEF Surjection
<1>2. IsFiniteSet(T)
  BY <1>1, FS_Surjection
<1>. QED
  BY <1>2

(* What a segment file can hold.                                           *)
GoodItems == [good : {TRUE}, seq : Nat \ {0}, op : Op, acked : BOOLEAN]
ItemSet == GoodItems \cup {Torn}
Segments == [hdr : BOOLEAN, items : Seq(ItemSet)]

IsDisk(d) == /\ IsFiniteSet(DOMAIN d) /\ DOMAIN d \subseteq Nat \ {0}
             /\ d \in [DOMAIN d -> Segments]
IsNewest(d, s) == s \in DOMAIN d /\ \A t \in DOMAIN d : t <= s

LEMMA ItemFields ==
    ASSUME NEW i \in ItemSet
    PROVE  /\ i.good \in BOOLEAN /\ i.seq \in Nat /\ i.acked \in BOOLEAN
           /\ i.good => i.seq # 0 /\ i.op \in Op /\ i \in GoodItems
           /\ ~i.good => i = Torn /\ ~i.acked
<1>1. CASE i \in GoodItems
  BY <1>1 DEF GoodItems
<1>2. CASE i = Torn
  BY <1>2 DEF Torn
<1>. QED
  BY <1>1, <1>2 DEF ItemSet

LEMMA ItemIsGood ==
    ASSUME NEW n \in Nat \ {0}, NEW o \in Op
    PROVE  /\ Item(n, o) \in ItemSet
           /\ Item(n, o).good /\ Item(n, o).seq = n /\ ~Item(n, o).acked
<1>. QED
  BY DEF ItemSet, GoodItems, Item

LEMMA TornIsItem == Torn \in ItemSet /\ ~Torn.good /\ ~Torn.acked
<1>. QED
  BY DEF ItemSet, Torn

LEMMA SegmentOf ==
    ASSUME NEW d, IsDisk(d), NEW s \in DOMAIN d
    PROVE  /\ s \in Nat \ {0} /\ d[s].hdr \in BOOLEAN /\ d[s].items \in Seq(ItemSet)
           /\ Len(d[s].items) \in Nat /\ DOMAIN d[s].items = 1 .. Len(d[s].items)
           /\ \A i \in 1 .. Len(d[s].items) : d[s].items[i] \in ItemSet
<1>1. d[s] \in Segments
  BY DEF IsDisk
<1>2. d[s].items \in Seq(ItemSet) /\ d[s].hdr \in BOOLEAN
  BY <1>1 DEF Segments
<1>3. s \in Nat \ {0}
  BY DEF IsDisk
<1>. QED
  BY <1>2, <1>3, LenProperties, ElementOfSeq

(* The newest segment, where there is one.                                 *)
LEMMA NewestOf ==
    ASSUME NEW d, IsDisk(d)
    PROVE  /\ DOMAIN d # {} => IsNewest(d, Max(DOMAIN d))
           /\ \A s : IsNewest(d, s) => s = Max(DOMAIN d)
<1>1. DOMAIN d # {} => IsNewest(d, Max(DOMAIN d))
  BY GreatestOfFinite DEF IsDisk, IsNewest
<1>2. ASSUME NEW s, IsNewest(d, s)
      PROVE  s = Max(DOMAIN d)
  <2>1. IsNewest(d, Max(DOMAIN d))
    BY <1>1, <1>2 DEF IsNewest
  <2>2. s \in Nat /\ Max(DOMAIN d) \in Nat
    BY <1>2, <2>1 DEF IsDisk, IsNewest
  <2>3. s <= Max(DOMAIN d) /\ Max(DOMAIN d) <= s
    BY <1>2, <2>1 DEF IsNewest
  <2>. QED
    BY <2>2, <2>3
<1>. QED
  BY <1>1, <1>2

(* The highest seqNo of some items.                                        *)
LEMMA HighestSeqno ==
    ASSUME NEW items \in Seq(ItemSet)
    PROVE  /\ MaxSeqnoOf(items) \in Nat
           /\ \A i \in 1 .. Len(items) : items[i].seq <= MaxSeqnoOf(items)
           /\ \/ MaxSeqnoOf(items) = 0
              \/ \E i \in 1 .. Len(items) : items[i].seq = MaxSeqnoOf(items)
<1>1. Len(items) \in Nat /\ DOMAIN items = 1 .. Len(items)
  BY LenProperties
<1>2. \A i \in 1 .. Len(items) : items[i].seq \in Nat
  BY ElementOfSeq, ItemFields
<1>. DEFINE f == [i \in 1 .. Len(items) |-> items[i].seq]
<1>3. f \in [1 .. Len(items) -> Nat]
  BY <1>2
<1>4. SeqnosOf(items) = {f[i] : i \in 1 .. Len(items)}
  BY <1>1 DEF SeqnosOf
<1>5. IsFiniteSet(SeqnosOf(items)) /\ SeqnosOf(items) \subseteq Nat
  <2>1. IsFiniteSet(1 .. Len(items))
    BY <1>1, FS_Interval
  <2>2. IsFiniteSet({f[i] : i \in 1 .. Len(items)}) /\ {f[i] : i \in 1 .. Len(items)} \subseteq Nat
    BY <1>3, <2>1, FiniteImage
  <2>. QED
    BY <1>4, <2>2
<1>6. IsFiniteSet({0} \cup SeqnosOf(items))
  BY <1>5, FS_Union, FS_Singleton
<1>7. /\ Max({0} \cup SeqnosOf(items)) \in {0} \cup SeqnosOf(items)
      /\ \A n \in {0} \cup SeqnosOf(items) : n <= Max({0} \cup SeqnosOf(items))
  <2>1. {0} \cup SeqnosOf(items) \in SUBSET Nat /\ {0} \cup SeqnosOf(items) # {}
    BY <1>5
  <2>. QED
    BY <1>6, <2>1, GreatestOfFinite
<1>8. \A i \in 1 .. Len(items) : items[i].seq \in SeqnosOf(items)
  BY <1>1 DEF SeqnosOf
<1>9. Max({0} \cup SeqnosOf(items)) \in Nat
  BY <1>5, <1>7
<1>10. \A n \in SeqnosOf(items) : \E i \in 1 .. Len(items) : items[i].seq = n
  BY <1>1 DEF SeqnosOf
<1>. QED
  BY <1>7, <1>8, <1>9, <1>10 DEF MaxSeqnoOf

-----------------------------------------------------------------------------
(* What the operations make of a disk.                                     *)

(* Nothing but what d1 holds, at the same place.                           *)
Keeps(d2, d1) ==
    \A s \in DOMAIN d2 : \A i \in 1 .. Len(d2[s].items) :
        d2[s].items[i].good =>
            /\ s \in DOMAIN d1 /\ i \in 1 .. Len(d1[s].items)
            /\ d2[s].items[i] = d1[s].items[i]

(* The readable part of a segment: its good items, up to a bad one.        *)
LEMMA ReadableItems ==
    ASSUME NEW g \in Segments
    PROVE  /\ Readable(g) \in Seq(ItemSet) /\ Len(Readable(g)) \in 0 .. Len(g.items)
           /\ DOMAIN Readable(g) = 1 .. Len(Readable(g))
           /\ \A i \in 1 .. Len(Readable(g)) :
                 Readable(g)[i] = g.items[i] /\ g.items[i].good
           /\ g.hdr => \/ Len(Readable(g)) = Len(g.items)
                       \/ ~g.items[Len(Readable(g)) + 1].good
<1>. DEFINE items == g.items
            bad == {i \in DOMAIN items : ~items[i].good}
<1>1. /\ items \in Seq(ItemSet) /\ Len(items) \in Nat /\ DOMAIN items = 1 .. Len(items)
      /\ g.hdr \in BOOLEAN
  BY LenProperties DEF Segments
<1>2. CASE ~g.hdr
  <2>1. Readable(g) = <<>>
    BY <1>2 DEF Readable
  <2>2. <<>> \in Seq(ItemSet) /\ Len(<<>>) = 0 /\ DOMAIN <<>> = 1 .. 0
    BY EmptySeq
  <2>. QED
    BY <1>1, <1>2, <2>1, <2>2
<1>3. CASE g.hdr /\ bad = {}
  <2>1. Readable(g) = items
    BY <1>3 DEF Readable
  <2>2. \A i \in 1 .. Len(items) : items[i].good
    BY <1>1, <1>3
  <2>. QED
    BY <1>1, <1>3, <2>1, <2>2
<1>4. CASE g.hdr /\ bad # {}
  <2>1. bad \in SUBSET Nat
    BY <1>1
  <2>. HIDE DEF bad
  <2>2. Min(bad) \in bad /\ \A n \in bad : Min(bad) <= n
    BY <1>4, <2>1, LeastOfNaturals
  <2>3. PICK m : m = Min(bad)
    OBVIOUS
  <2>4. m \in 1 .. Len(items) /\ ~items[m].good
    BY <1>1, <2>2, <2>3 DEF bad
  <2>5. ASSUME NEW i \in 1 .. m - 1
        PROVE  items[i].good
    <3>1. i \in DOMAIN items /\ i < m
      BY <1>1, <2>4
    <3>2. ~items[i].good => i \in bad
      BY <3>1 DEF bad
    <3>. QED
      BY <2>2, <2>3, <2>4, <3>1, <3>2
  <2>6. Readable(g) = SubSeq(items, 1, m - 1)
    BY <1>4, <2>3 DEF Readable, bad
  <2>7. \A i \in 1 .. m - 1 : items[i] \in ItemSet
    BY <1>1, <2>4, ElementOfSeq
  <2>8. /\ SubSeq(items, 1, m - 1) \in Seq(ItemSet)
        /\ Len(SubSeq(items, 1, m - 1)) = m - 1
        /\ \A i \in 1 .. m - 1 : SubSeq(items, 1, m - 1)[i] = items[i]
    <3>1. m - 1 \in Int /\ 1 \in Int
      BY <2>4
    <3>2. /\ SubSeq(items, 1, m - 1) \in Seq(ItemSet)
          /\ Len(SubSeq(items, 1, m - 1)) = IF 1 <= m - 1 THEN m - 1 - 1 + 1 ELSE 0
          /\ \A i \in 1 .. m - 1 - 1 + 1 : SubSeq(items, 1, m - 1)[i] = items[1 + i - 1]
      BY ONLY <2>7, <3>1, SubSeqProperties
    <3>. QED
      BY <2>4, <3>2
  <2>9. DOMAIN SubSeq(items, 1, m - 1) = 1 .. Len(SubSeq(items, 1, m - 1))
    BY <2>8, LenProperties
  <2>. QED
    BY <1>1, <2>4, <2>5, <2>6, <2>8, <2>9
<1>. QED
  BY <1>1, <1>2, <1>3, <1>4

(* A new segment, newer than all others.                                   *)
FreshSegments == {NewSegment(TRUE), NewSegment(FALSE)}
IsAbove(n, d) == \A t \in DOMAIN d : t < n
Adds(e, d, n, g) ==
    /\ IsDisk(e) /\ IsNewest(e, n) /\ DOMAIN e = DOMAIN d \cup {n} /\ n \notin DOMAIN d
    /\ e[n] = g /\ e[n].items = <<>> /\ Len(e[n].items) = 0
    /\ \A t \in DOMAIN d : e[t] = d[t]
    /\ Keeps(e, d)

LEMMA NewSegmentAdded ==
    ASSUME NEW d, IsDisk(d), NEW n \in Nat \ {0}, IsAbove(n, d),
           NEW g \in FreshSegments, NEW e, e = Put(d, n, g)
    PROVE  Adds(e, d, n, g)
<1>1. DOMAIN e = DOMAIN d \cup {n} /\ n \notin DOMAIN d
  BY DEF IsDisk, Put, IsAbove
<1>2. e[n] = g /\ \A t \in DOMAIN d : e[t] = d[t]
  BY <1>1 DEF Put
<1>3. g \in Segments /\ g.items = <<>>
  <2>1. \A h \in BOOLEAN : NewSegment(h) \in Segments /\ NewSegment(h).items = <<>>
    BY EmptySeq DEF NewSegment, Segments
  <2>. QED
    BY <2>1 DEF FreshSegments
<1>4. e \in [DOMAIN e -> Segments]
  <2>1. \A t \in DOMAIN e : e[t] \in Segments
    BY <1>1, <1>2, <1>3 DEF IsDisk
  <2>2. e = [t \in DOMAIN e |-> e[t]]
    BY DEF Put
  <2>. QED
    BY <2>1, <2>2
<1>5. IsFiniteSet(DOMAIN e)
  BY <1>1, FS_AddElement DEF IsDisk
<1>6. IsDisk(e)
  BY <1>1, <1>4, <1>5 DEF IsDisk
<1>7. IsNewest(e, n)
  BY <1>1 DEF IsNewest, IsDisk, IsAbove
<1>8. Len(e[n].items) = 0
  BY <1>2, <1>3, EmptySeq
<1>9. Keeps(e, d)
  <2>1. ASSUME NEW s \in DOMAIN e, NEW i \in 1 .. Len(e[s].items)
        PROVE  s \in DOMAIN d /\ e[s] = d[s]
    <3>1. s # n
      BY <1>8
    <3>. QED
      BY <1>1, <1>2, <3>1
  <2>. QED
    BY <2>1 DEF Keeps
<1>. QED
  BY <1>1, <1>2, <1>3, <1>6, <1>7, <1>8, <1>9 DEF Adds

(* Other items in one segment.                                             *)
WithItems(d, s, items) == [d EXCEPT ![s].items = items]

LEMMA ItemsReplaced ==
    ASSUME NEW d, IsDisk(d), NEW s \in DOMAIN d, NEW items \in Seq(ItemSet),
           NEW e, e = WithItems(d, s, items)
    PROVE  /\ IsDisk(e) /\ DOMAIN e = DOMAIN d
           /\ e[s].items = items /\ e[s].hdr = d[s].hdr
           /\ \A t \in DOMAIN d \ {s} : e[t] = d[t]
           /\ \A t : IsNewest(d, t) => IsNewest(e, t)
<1>1. DOMAIN e = DOMAIN d /\ d[s] \in Segments
  BY DEF IsDisk, WithItems
<1>2. /\ e[s] = [d[s] EXCEPT !.items = items]
      /\ \A t \in DOMAIN d \ {s} : e[t] = d[t]
  BY DEF IsDisk, WithItems
<1>3. e[s] \in Segments /\ e[s].items = items /\ e[s].hdr = d[s].hdr
  BY <1>1, <1>2 DEF Segments
<1>4. e \in [DOMAIN d -> Segments]
  BY <1>1, <1>2, <1>3 DEF IsDisk, WithItems
<1>. QED
  BY <1>1, <1>2, <1>3, <1>4 DEF IsDisk, IsNewest

(* ... which are a beginning of those it had, and perhaps a torn one.      *)
LEMMA ItemsCut ==
    ASSUME NEW d, IsDisk(d), NEW s \in DOMAIN d,
           NEW items \in Seq(ItemSet),
           \A i \in 1 .. Len(items) : items[i].good =>
               i \in 1 .. Len(d[s].items) /\ items[i] = d[s].items[i],
           NEW e, e = WithItems(d, s, items)
    PROVE  Keeps(e, d)
<1>1. /\ DOMAIN e = DOMAIN d /\ e[s].items = items
      /\ \A t \in DOMAIN d \ {s} : e[t] = d[t]
  BY ItemsReplaced
<1>. QED
  BY <1>1 DEF Keeps

(* Some segments fewer.                                                    *)
LEMMA SegmentsRemoved ==
    ASSUME NEW d, IsDisk(d), NEW gone, NEW e, e = Restrict(d, DOMAIN d \ gone)
    PROVE  /\ IsDisk(e) /\ DOMAIN e = DOMAIN d \ gone
           /\ \A t \in DOMAIN d \ gone : e[t] = d[t]
           /\ \A t \in DOMAIN d \ gone : IsNewest(d, t) => IsNewest(e, t)
           /\ Keeps(e, d)
<1>1. DOMAIN e = DOMAIN d \ gone /\ \A t \in DOMAIN d \ gone : e[t] = d[t]
  BY DEF Restrict
<1>2. IsFiniteSet(DOMAIN e)
  <2>1. IsFiniteSet(DOMAIN d)
    BY DEF IsDisk
  <2>. QED
    BY <1>1, <2>1, FS_Difference
<1>3. e \in [DOMAIN e -> Segments]
  BY <1>1 DEF Restrict, IsDisk
<1>. QED
  BY <1>1, <1>2, <1>3 DEF IsDisk, IsNewest, Keeps

(* One more item in a segment.                                             *)
Longer(d, s, item) == [d EXCEPT ![s].items = Append(@, item)]
Appends(e, d, s, item) ==
    /\ IsDisk(e) /\ DOMAIN e = DOMAIN d
    /\ e[s].hdr = d[s].hdr
    /\ e[s].items = Append(d[s].items, item)
    /\ e[s].items # <<>> /\ Len(e[s].items) = Len(d[s].items) + 1
    /\ \A i \in 1 .. Len(d[s].items) : e[s].items[i] = d[s].items[i]
    /\ e[s].items[Len(e[s].items)] = item
    /\ \A t \in DOMAIN d \ {s} : e[t] = d[t]
    /\ \A t : IsNewest(d, t) => IsNewest(e, t)
    /\ ~item.good => Keeps(e, d)

LEMMA ItemAppended ==
    ASSUME NEW d, IsDisk(d), NEW s \in DOMAIN d, NEW item \in ItemSet,
           NEW e, e = Longer(d, s, item)
    PROVE  Appends(e, d, s, item)
<1>1. PICK items : items = d[s].items
  OBVIOUS
<1>. items \in Seq(ItemSet) /\ Len(items) \in Nat
  BY <1>1, SegmentOf
<1>2. /\ Append(items, item) \in Seq(ItemSet)
      /\ Append(items, item) # <<>>
      /\ Len(Append(items, item)) = Len(items) + 1
      /\ \A i \in 1 .. Len(items) : Append(items, item)[i] = items[i]
      /\ Append(items, item)[Len(items) + 1] = item
  BY AppendProperties
<1>3. PICK longer : longer = Append(items, item)
  OBVIOUS
<1>4. longer \in Seq(ItemSet) /\ e = WithItems(d, s, longer)
  <2>1. e = WithItems(d, s, Append(d[s].items, item))
    BY DEF WithItems, Longer
  <2>. QED
    BY ONLY <1>1, <1>2, <1>3, <2>1
<1>5. /\ IsDisk(e) /\ DOMAIN e = DOMAIN d
      /\ e[s].items = longer /\ e[s].hdr = d[s].hdr
      /\ \A t \in DOMAIN d \ {s} : e[t] = d[t]
      /\ \A t : IsNewest(d, t) => IsNewest(e, t)
  BY ONLY <1>4, IsDisk(d), s \in DOMAIN d, ItemsReplaced
<1>6. ASSUME ~item.good
      PROVE  Keeps(e, d)
  <2>1. \A i \in 1 .. Len(longer) : longer[i].good =>
            i \in 1 .. Len(d[s].items) /\ longer[i] = d[s].items[i]
    BY <1>1, <1>2, <1>3, <1>6
  <2>. QED
    BY ONLY <1>4, <2>1, IsDisk(d), s \in DOMAIN d, ItemsCut
<1>. QED
  BY ONLY <1>1, <1>2, <1>3, <1>5, <1>6 DEF Appends

(* One item marked as acknowledged.                                        *)
Marked(d, s, n) == [d EXCEPT ![s].items[n].acked = TRUE]
Marks(e, d, s, n) ==
    /\ IsDisk(e) /\ DOMAIN e = DOMAIN d
    /\ e[s].hdr = d[s].hdr /\ Len(e[s].items) = Len(d[s].items)
    /\ e[s].items[n] = [d[s].items[n] EXCEPT !.acked = TRUE]
    /\ e[s].items[n].good /\ e[s].items[n].acked
    /\ e[s].items[n].seq = d[s].items[n].seq
    /\ e[s].items[n].op = d[s].items[n].op
    /\ \A i \in 1 .. Len(d[s].items) \ {n} : e[s].items[i] = d[s].items[i]
    /\ \A t \in DOMAIN d \ {s} : e[t] = d[t]
    /\ \A t : IsNewest(d, t) => IsNewest(e, t)

LEMMA ItemAcknowledged ==
    ASSUME NEW d, IsDisk(d), NEW s \in DOMAIN d, NEW n \in 1 .. Len(d[s].items),
           d[s].items[n].good,
           NEW e, e = Marked(d, s, n)
    PROVE  Marks(e, d, s, n)
<1>. DEFINE old == d[s].items[n]
            new == [old EXCEPT !.acked = TRUE]
            items == [d[s].items EXCEPT ![n] = new]
<1>1. d[s].items \in Seq(ItemSet) /\ old \in ItemSet
  BY SegmentOf
<1>2. /\ new \in ItemSet /\ new.good /\ new.acked
      /\ new.seq = old.seq /\ new.op = old.op
  <2>1. old \in GoodItems
    BY <1>1, ItemFields
  <2>2. new \in GoodItems
    BY <2>1 DEF GoodItems
  <2>. QED
    BY <2>1, <2>2 DEF GoodItems, ItemSet
<1>. HIDE DEF new
<1>3. /\ items \in Seq(ItemSet) /\ Len(items) = Len(d[s].items)
      /\ \A j \in 1 .. Len(d[s].items) : items[j] = IF j = n THEN new ELSE d[s].items[j]
  BY <1>1, <1>2, ExceptSeq
<1>4. e = WithItems(d, s, items)
  BY DEF new, WithItems, Marked
<1>. HIDE DEF items
<1>5. /\ IsDisk(e) /\ DOMAIN e = DOMAIN d
      /\ e[s].items = items /\ e[s].hdr = d[s].hdr
      /\ \A t \in DOMAIN d \ {s} : e[t] = d[t]
      /\ \A t : IsNewest(d, t) => IsNewest(e, t)
  BY <1>3, <1>4, ItemsReplaced
<1>6. items[n] = new /\ \A i \in 1 .. Len(d[s].items) \ {n} : items[i] = d[s].items[i]
  BY <1>3
<1>. QED
  BY <1>2, <1>3, <1>5, <1>6 DEF new, Marks

(* What a crash leaves of the newest segment.                              *)
LEMMA SurvivingItems ==
    ASSUME Items \in Seq(ItemSet), NEW n \in 0 .. Len(Items), NEW left \in Survivors(n)
    PROVE  /\ left \in Seq(ItemSet) /\ Len(left) \in n .. n + 1 /\ Len(left) <= Len(Items)
           /\ \A i \in 1 .. n : left[i] = Items[i]
           /\ Len(left) = n + 1 => left[n + 1] = Torn
           /\ \A i \in 1 .. Len(left) : left[i].good =>
                 i \in 1 .. Len(Items) /\ left[i] = Items[i]
<1>1. PICK old : old = Items
  OBVIOUS
<1>2. old \in Seq(ItemSet) /\ Len(old) \in Nat
  BY <1>1, LenProperties
<1>3. PICK first : first = SubSeq(old, 1, n)
  OBVIOUS
<1>4. /\ first \in Seq(ItemSet) /\ Len(first) = n
      /\ \A i \in 1 .. n : first[i] = old[i]
  <2>1. \A i \in 1 .. n : old[i] \in ItemSet
    BY <1>1, <1>2, ElementOfSeq
  <2>2. n \in Int /\ 1 \in Int /\ n \in Nat
    BY <1>2
  <2>3. /\ first \in Seq(ItemSet)
        /\ Len(first) = IF 1 <= n THEN n - 1 + 1 ELSE 0
        /\ \A i \in 1 .. n - 1 + 1 : first[i] = old[1 + i - 1]
    BY ONLY <1>3, <2>1, <2>2, SubSeqProperties
  <2>. QED
    BY <2>2, <2>3
<1>5. CASE left = first
  <2>1. Len(left) = n /\ n <= Len(old) /\ n \in Nat
    BY <1>1, <1>2, <1>4, <1>5
  <2>. QED
    BY <1>1, <1>2, <1>4, <1>5, <2>1
<1>6. CASE left = Append(first, Torn) /\ n < Len(old)
  <2>1. /\ left \in Seq(ItemSet) /\ Len(left) = n + 1
        /\ \A i \in 1 .. n : left[i] = first[i]
        /\ left[n + 1] = Torn
    BY <1>4, <1>6, TornIsItem, AppendProperties
  <2>2. \A i \in 1 .. n + 1 : left[i].good => i \in 1 .. n
    BY <1>2, <2>1, TornIsItem
  <2>. QED
    BY <1>1, <1>2, <1>4, <1>6, <2>1, <2>2
<1>7. left = first \/ (left = Append(first, Torn) /\ n < Len(old))
  BY <1>1, <1>3 DEF Survivors
<1>. QED
  BY <1>5, <1>6, <1>7

(* What open() makes of a disk.                                            *)
LEMMA Opened ==
    ASSUME IsDisk(disk), floor \in Nat, synced \in Nat, Open
    PROVE  /\ IsDisk(disk') /\ IsNewest(disk', activeId') /\ Keeps(disk', disk)
           /\ DOMAIN disk' = DOMAIN disk \cup {activeId'}
           /\ IF DOMAIN disk = {} THEN activeId' = 1 /\ disk'[1] = NewSegment(TRUE)
              ELSE activeId' = Newest
           /\ \A s \in DOMAIN disk : disk'[s].items = Readable(disk[s])
           /\ \A s \in DOMAIN disk : disk'[s].hdr = (disk[s].hdr \/ s = activeId')
           /\ disk'[activeId'].hdr
<1>. DEFINE first == DOMAIN disk = {}
<1>1. CASE first
  <2>1. activeId' = 1
    BY <1>1 DEF Open, ActiveAtOpen
  <2>2. disk' = [s \in {1} |-> NewSegment(TRUE)]
    BY <1>1 DEF Open, ActiveAtOpen
  <2>3. NewSegment(TRUE) \in Segments /\ NewSegment(TRUE).hdr /\ NewSegment(TRUE).items = <<>>
    BY EmptySeq DEF NewSegment, Segments
  <2>4. DOMAIN disk' = {1} /\ disk'[1] = NewSegment(TRUE) /\ disk' \in [{1} -> Segments]
    BY <2>2, <2>3
  <2>5. IsDisk(disk') /\ IsNewest(disk', 1)
    <3>1. IsFiniteSet({1}) /\ {1} \subseteq Nat \ {0} /\ \A t \in {1} : t <= 1
      <4>1. IsFiniteSet({1})
        BY FS_Singleton
      <4>. QED
        BY <4>1
    <3>2. DOMAIN disk' = {1} /\ disk' \in [DOMAIN disk' -> Segments]
      BY <2>4
    <3>3. \A t \in DOMAIN disk' : t <= 1
      BY <3>1, <3>2
    <3>4. IsFiniteSet(DOMAIN disk') /\ DOMAIN disk' \subseteq Nat \ {0} /\ 1 \in DOMAIN disk'
      BY <3>1, <3>2
    <3>. QED
      BY ONLY <3>2, <3>3, <3>4 DEF IsDisk, IsNewest
  <2>6. Keeps(disk', disk)
    <3>1. Len(disk'[1].items) = 0
      BY <2>3, <2>4, EmptySeq
    <3>2. \A s \in DOMAIN disk' : s = 1
      BY <2>4
    <3>3. \A i \in 1 .. 0 : FALSE
      OBVIOUS
    <3>4. \A s \in DOMAIN disk' : \A i \in 1 .. Len(disk'[s].items) : FALSE
      BY ONLY <3>1, <3>2, <3>3
    <3>. QED
      BY ONLY <3>4 DEF Keeps
  <2>. QED
    BY <1>1, <2>1, <2>3, <2>4, <2>5, <2>6
<1>2. CASE ~first
  <2>1. activeId' = Newest /\ activeId' \in DOMAIN disk /\ IsNewest(disk, activeId')
    BY <1>2, NewestOf DEF Open, ActiveAtOpen, Newest, IsNewest
  <2>2. disk' = [s \in DOMAIN disk |->
                    [hdr |-> disk[s].hdr \/ s = activeId', items |-> Readable(disk[s])]]
    <3>1. DOMAIN disk \cup {activeId'} = DOMAIN disk
      BY <2>1
    <3>2. \A s \in DOMAIN disk :
              [t \in DOMAIN disk |-> CutTail(disk[t])][s] = Readable(disk[s])
      BY DEF CutTail
    <3>3. disk' = [s \in DOMAIN disk \cup {activeId'} |->
                     [hdr |-> disk[s].hdr \/ s = activeId',
                      items |-> [t \in DOMAIN disk |-> CutTail(disk[t])][s]]]
      BY <1>2 DEF Open
    <3>. QED
      BY <3>1, <3>2, <3>3
  <2>3. /\ DOMAIN disk' = DOMAIN disk
        /\ \A s \in DOMAIN disk : /\ disk'[s].items = Readable(disk[s])
                                  /\ disk'[s].hdr = (disk[s].hdr \/ s = activeId')
    BY <2>2
  <2>4. disk' \in [DOMAIN disk -> Segments]
    <3>1. ASSUME NEW s \in DOMAIN disk
          PROVE  disk'[s] \in Segments
      <4>1. disk[s] \in Segments
        BY DEF IsDisk
      <4>2. Readable(disk[s]) \in Seq(ItemSet)
        BY <4>1, ReadableItems
      <4>3. (disk[s].hdr \/ s = activeId') \in BOOLEAN
        OBVIOUS
      <4>4. disk'[s] = [hdr |-> disk[s].hdr \/ s = activeId', items |-> Readable(disk[s])]
        BY <2>2
      <4>. QED
        BY <4>2, <4>3, <4>4 DEF Segments
    <3>. QED
      BY <2>2, <3>1
  <2>5. IsDisk(disk') /\ IsNewest(disk', activeId')
    BY <2>1, <2>3, <2>4 DEF IsDisk, IsNewest
  <2>6. Keeps(disk', disk)
    <3>1. ASSUME NEW s \in DOMAIN disk', NEW i \in 1 .. Len(disk'[s].items)
          PROVE  i \in 1 .. Len(disk[s].items) /\ disk'[s].items[i] = disk[s].items[i]
      <4>1. disk[s] \in Segments /\ disk'[s].items = Readable(disk[s])
        BY <2>3 DEF IsDisk
      <4>2. Len(disk[s].items) \in Nat
        BY <2>3, SegmentOf
      <4>. QED
        BY <4>1, <4>2, ReadableItems
    <3>. QED
      BY <2>3, <3>1 DEF Keeps
  <2>7. disk'[activeId'].hdr
    BY <2>1, <2>3
  <2>. QED
    BY <1>2, <2>1, <2>3, <2>5, <2>6, <2>7
<1>. QED
  BY <1>1, <1>2

(* ... and of the counters.                                                *)
LEMMA Seeded ==
    ASSUME IsDisk(disk), floor \in Nat, synced \in Nat, Open
    PROVE  /\ lastSeqno' \in Nat /\ floor <= lastSeqno'
           /\ \A s \in DOMAIN disk' : \A i \in 1 .. Len(disk'[s].items) :
                 disk'[s].items[i].seq <= lastSeqno'
           /\ DOMAIN segMax' = DOMAIN disk /\ segMax' \in [DOMAIN segMax' -> Nat]
           /\ \A s \in DOMAIN segMax' : \A i \in 1 .. Len(disk'[s].items) :
                 disk'[s].items[i].seq <= segMax'[s]
           /\ flushed' \in Nat /\ synced' \in Nat /\ activeRecs' \in Nat
           /\ flushed' = Len(disk'[activeId'].items) /\ activeRecs' = flushed'
           /\ synced' <= synced /\ (synced' < synced => synced' = flushed')
           /\ lastSeqno' = floor \/ \E s \in DOMAIN disk : lastSeqno' = segMax'[s]
<1>1. /\ IsDisk(disk') /\ IsNewest(disk', activeId') /\ Keeps(disk', disk)
      /\ DOMAIN disk' = DOMAIN disk \cup {activeId'}
      /\ DOMAIN disk = {} => activeId' = 1 /\ disk'[1] = NewSegment(TRUE)
      /\ \A s \in DOMAIN disk : disk'[s].items = Readable(disk[s])
  BY Opened
<1>. DEFINE high(s) == MaxSeqnoOf(Readable(disk[s]))
<1>2. \A s \in DOMAIN disk : /\ high(s) \in Nat
                             /\ \A i \in 1 .. Len(disk'[s].items) :
                                   disk'[s].items[i].seq <= high(s)
  <2>1. ASSUME NEW s \in DOMAIN disk
        PROVE  Readable(disk[s]) \in Seq(ItemSet)
    BY ReadableItems DEF IsDisk
  <2>. QED
    BY <1>1, <2>1, HighestSeqno
<1>3. segMax' = [s \in DOMAIN disk |-> high(s)]
  BY DEF Open, CutTail
<1>4. /\ DOMAIN segMax' = DOMAIN disk /\ segMax' \in [DOMAIN disk -> Nat]
      /\ \A s \in DOMAIN disk : segMax'[s] = high(s)
  BY <1>2, <1>3
<1>. HIDE DEF high
<1>5. /\ lastSeqno' \in Nat /\ floor <= lastSeqno'
      /\ \A s \in DOMAIN disk : high(s) <= lastSeqno'
      /\ lastSeqno' = floor \/ \E s \in DOMAIN disk : lastSeqno' = high(s)
  <2>1. CASE DOMAIN disk = {}
    BY <2>1 DEF Open
  <2>2. CASE DOMAIN disk # {}
    <3>. DEFINE S == {segMax'[s] : s \in DOMAIN disk}
    <3>1. lastSeqno' = Max({floor} \cup {high(s) : s \in DOMAIN disk})
      BY <2>2 DEF Open, SeedSeqno, CutTail, high
    <3>2. {high(s) : s \in DOMAIN disk} = S
      BY <1>4
    <3>3. IsFiniteSet(S) /\ S \subseteq Nat
      BY <1>4, FiniteImage DEF IsDisk
    <3>4. IsFiniteSet({floor} \cup S) /\ {floor} \cup S \subseteq Nat
      BY <3>3, FS_Singleton, FS_Union
    <3>5. /\ Max({floor} \cup S) \in {floor} \cup S
          /\ \A n \in {floor} \cup S : n <= Max({floor} \cup S)
      BY <3>4, GreatestOfFinite
    <3>6. lastSeqno' \in {floor} \cup S /\ \A n \in {floor} \cup S : n <= lastSeqno'
      BY <3>1, <3>2, <3>5
    <3>. QED
      BY <1>4, <3>3, <3>6
  <2>. QED
    BY <2>1, <2>2
<1>6. \A s \in DOMAIN disk' : \A i \in 1 .. Len(disk'[s].items) :
          disk'[s].items[i].seq <= lastSeqno'
  <2>1. ASSUME NEW s \in DOMAIN disk', NEW i \in 1 .. Len(disk'[s].items)
        PROVE  disk'[s].items[i].seq <= lastSeqno'
    <3>1. CASE s \in DOMAIN disk
      <4>1. disk'[s].items[i].seq <= high(s) /\ high(s) <= lastSeqno' /\ high(s) \in Nat
        BY <1>2, <1>5, <3>1
      <4>2. disk'[s].items[i].seq \in Nat
        BY <1>1, SegmentOf, ItemFields
      <4>. QED
        BY <1>5, <4>1, <4>2
    <3>2. CASE s \notin DOMAIN disk
      <4>1. DOMAIN disk = {} /\ s = activeId'
        <5>1. s = activeId'
          BY <1>1, <3>2
        <5>2. IsDisk(disk) /\ DOMAIN disk # {} => Newest \in DOMAIN disk
          BY NewestOf DEF IsNewest, Newest
        <5>3. DOMAIN disk # {} => activeId' = Newest
          BY Opened
        <5>. QED
          BY <3>2, <5>1, <5>2, <5>3
      <4>2. disk'[s].items = <<>>
        BY <1>1, <4>1 DEF NewSegment
      <4>. QED
        BY <4>2, EmptySeq
    <3>. QED
      BY <3>1, <3>2
  <2>. QED
    BY <2>1
<1>7. /\ flushed' = Len(disk'[activeId'].items) /\ activeRecs' = flushed'
      /\ synced' = Min({synced, flushed'})
  BY DEF Open
<1>8. flushed' \in Nat
  BY <1>1, <1>7, SegmentOf DEF IsNewest
<1>9. synced' \in Nat /\ synced' <= synced /\ (synced' < synced => synced' = flushed')
  <2>1. {synced, flushed'} \in SUBSET Nat
    BY <1>8
  <2>2. Min({synced, flushed'}) \in {synced, flushed'} /\ Min({synced, flushed'}) <= synced
    BY <2>1, LeastOfNaturals
  <2>. QED
    BY <1>7, <1>8, <2>2
<1>. QED
  BY <1>2, <1>4, <1>5, <1>6, <1>7, <1>8, <1>9

-----------------------------------------------------------------------------
(* Types.                                                                  *)

LastIs(items, item) == items # <<>> /\ items[Len(items)] = item

(* Besides the types: the open file is the newest segment, and a record    *)
(* being appended is the last one in it.                                   *)
Typed ==
    /\ IsDisk(disk)
    /\ isOpen => IsNewest(disk, activeId)
    /\ pc # "idle" => isOpen
    /\ pc \in {"sync", "return"} => LastIs(disk[activeId].items, Item(lastSeqno + 1, op))
    /\ flushed \in Nat /\ synced \in Nat /\ activeId \in Nat /\ activeRecs \in Nat
    /\ lastSeqno \in Nat /\ sinceSync \in Nat /\ floor \in Nat
    /\ segMax \in [DOMAIN segMax -> Nat]
    /\ isOpen \in BOOLEAN /\ op \in Op
    /\ pc \in {"idle", "roll", "write", "sync", "return"}

LEMMA ActiveSegment ==
    ASSUME Typed, isOpen
    PROVE  /\ activeId = Newest /\ activeId \in DOMAIN disk
           /\ Items = disk[activeId].items /\ Items \in Seq(ItemSet)
           /\ Len(Items) \in Nat /\ DOMAIN Items = 1 .. Len(Items)
           /\ IsNewest(disk, activeId) /\ IsDisk(disk)
<1>1. IsDisk(disk) /\ IsNewest(disk, activeId)
  BY DEF Typed
<1>2. activeId = Newest
  BY <1>1, NewestOf DEF Newest
<1>3. activeId \in DOMAIN disk
  BY <1>1 DEF IsNewest
<1>4. Items = disk[activeId].items
  BY <1>2 DEF Items
<1>. QED
  BY <1>1, <1>2, <1>3, <1>4, SegmentOf

(* A disk with no segments is the empty one.                               *)
LEMMA EmptyDisk ==
    ASSUME NEW d, IsDisk(d), d # <<>>
    PROVE  DOMAIN d # {}
<1>1. SUFFICES ASSUME DOMAIN d = {} PROVE d = <<>>
  OBVIOUS
<1>2. d \in [{} -> Segments]
  BY <1>1 DEF IsDisk
<1>. QED
  BY <1>2

LEMMA TypedInit == Init => Typed
<1>1. IsDisk(<<>>)
  <2>1. DOMAIN <<>> = {} /\ <<>> \in [{} -> Segments]
    OBVIOUS
  <2>. QED
    BY <2>1, FS_EmptySet DEF IsDisk
<1>2. <<>> \in [DOMAIN <<>> -> Nat]
  OBVIOUS
<1>3. SUFFICES ASSUME Init PROVE Typed
  OBVIOUS
<1>4. IsDisk(disk) /\ segMax \in [DOMAIN segMax -> Nat]
  <2>1. disk = <<>> /\ segMax = <<>>
    BY <1>3 DEF Init
  <2>. QED
    BY <1>1, <1>2, <2>1
<1>5. /\ isOpen = FALSE /\ pc = "idle" /\ op \in Op
      /\ flushed \in Nat /\ synced \in Nat /\ activeId \in Nat /\ activeRecs \in Nat
      /\ lastSeqno \in Nat /\ sinceSync \in Nat /\ floor \in Nat
  BY <1>3 DEF Init
<1>. QED
  BY ONLY <1>4, <1>5 DEF Typed

(* The steps that start a segment, with a header or without.               *)
LEMMA SegmentStarted ==
    ASSUME Typed, isOpen, NEW g \in FreshSegments,
           disk' = Put(disk, activeId + 1, g)
    PROVE  Adds(disk', disk, activeId + 1, g)
<1>1. IsDisk(disk) /\ IsNewest(disk, activeId) /\ activeId \in Nat
  BY DEF Typed
<1>2. activeId + 1 \in Nat \ {0}
  BY <1>1
<1>3. \A t \in DOMAIN disk : t < activeId + 1
  BY <1>1 DEF IsDisk, IsNewest
<1>4. PICK n : n = activeId + 1
  OBVIOUS
<1>5. n \in Nat \ {0} /\ disk' = Put(disk, n, g) /\ IsAbove(n, disk)
  BY <1>2, <1>3, <1>4 DEF IsAbove
<1>. QED
  BY ONLY <1>1, <1>4, <1>5, g \in FreshSegments, NewSegmentAdded

(* What a crash or a power cut leaves.                                     *)
LEMMA Survived ==
    ASSUME IsDisk(disk), DOMAIN disk # {}, NEW n \in 0 .. Len(Items),
           NEW left \in Survivors(n), disk' = [disk EXCEPT ![Newest].items = left]
    PROVE  /\ Newest \in DOMAIN disk /\ Items \in Seq(ItemSet) /\ Len(Items) \in Nat
           /\ IsNewest(disk', Newest) /\ Items' = left /\ Newest' = Newest
           /\ IsDisk(disk') /\ DOMAIN disk' = DOMAIN disk
           /\ disk'[Newest].items = left /\ disk'[Newest].hdr = disk[Newest].hdr
           /\ \A t \in DOMAIN disk \ {Newest} : disk'[t] = disk[t]
           /\ left \in Seq(ItemSet) /\ Len(left) \in Nat
           /\ Keeps(disk', disk)
<1>1. IsNewest(disk, Newest) /\ Newest \in DOMAIN disk
  BY NewestOf DEF Newest, IsNewest
<1>2. Items = disk[Newest].items /\ Items \in Seq(ItemSet) /\ Len(Items) \in Nat
  BY <1>1, SegmentOf DEF Items
<1>3. /\ left \in Seq(ItemSet) /\ Len(left) \in Nat
      /\ \A i \in 1 .. Len(left) : left[i].good =>
             i \in 1 .. Len(Items) /\ left[i] = Items[i]
  BY <1>2, SurvivingItems, LenProperties
<1>4. PICK s : s = Newest
  OBVIOUS
<1>5. disk' = WithItems(disk, s, left) /\ s \in DOMAIN disk
  BY <1>1, <1>4 DEF WithItems
<1>6. /\ IsDisk(disk') /\ DOMAIN disk' = DOMAIN disk
      /\ disk'[s].items = left /\ disk'[s].hdr = disk[s].hdr
      /\ \A t \in DOMAIN disk \ {s} : disk'[t] = disk[t]
      /\ \A t : IsNewest(disk, t) => IsNewest(disk', t)
  BY <1>3, <1>5, ItemsReplaced
<1>7. \A i \in 1 .. Len(left) : left[i].good =>
          i \in 1 .. Len(disk[s].items) /\ left[i] = disk[s].items[i]
  BY <1>2, <1>3, <1>4
<1>8. Keeps(disk', disk)
  BY <1>3, <1>5, <1>7, ItemsCut
<1>9. IsNewest(disk', s)
  BY <1>1, <1>4, <1>6
<1>10. Newest' = s
  BY <1>6, <1>9, NewestOf DEF Newest
<1>11. Items' = left
  BY <1>6, <1>10 DEF Items
<1>. QED
  BY <1>1, <1>2, <1>3, <1>4, <1>6, <1>8, <1>9, <1>10, <1>11

(* Steps that leave the files alone.                                       *)
SameFiles == UNCHANGED <<disk, activeId, lastSeqno, segMax, op, floor>>

LEMMA TypedSameFiles ==
    ASSUME Typed, SameFiles, pc' \in {"idle", "roll", "write", "sync", "return"},
           isOpen' \in BOOLEAN, isOpen' => isOpen, pc' # "idle" => isOpen',
           pc' = "sync" => pc = "sync", pc' = "return" => pc \in {"sync", "return"},
           flushed' \in Nat, synced' \in Nat, activeRecs' \in Nat, sinceSync' \in Nat
    PROVE  Typed'
<1>1. /\ disk' = disk /\ activeId' = activeId /\ lastSeqno' = lastSeqno
      /\ segMax' = segMax /\ op' = op /\ floor' = floor
  BY DEF SameFiles
<1>2. IsDisk(disk') /\ (isOpen' => IsNewest(disk', activeId'))
  BY <1>1 DEF Typed
<1>3. pc' \in {"sync", "return"} =>
          LastIs(disk'[activeId'].items, Item(lastSeqno' + 1, op'))
  BY <1>1 DEF Typed
<1>. QED
  BY <1>1, <1>2, <1>3 DEF Typed

LEMMA TypedRoll ==
    ASSUME Typed, isOpen, RollSegment, pc' \in {"idle", "write"}
    PROVE  Typed' /\ Adds(disk', disk, activeId + 1, NewSegment(TRUE))
<1>1. Adds(disk', disk, activeId + 1, NewSegment(TRUE))
  BY SegmentStarted DEF RollSegment, FreshSegments
<1>2. /\ activeId' = activeId + 1 /\ activeRecs' = 0 /\ flushed' = 0 /\ synced' = 0
      /\ sinceSync' = 0 /\ isOpen' = isOpen /\ segMax' = segMax
      /\ lastSeqno' = lastSeqno /\ op' = op /\ floor' = floor
  BY DEF RollSegment
<1>3. IsDisk(disk') /\ IsNewest(disk', activeId')
  BY <1>1, <1>2 DEF Adds
<1>4. pc' \notin {"sync", "return"} /\ activeId' \in Nat
  BY <1>2 DEF Typed
<1>5. Typed'
  BY <1>2, <1>3, <1>4 DEF Typed
<1>. QED
  BY <1>1, <1>5

LEMMA TypedWrite ==
    ASSUME Typed, WriteRecord
    PROVE  Typed' /\ isOpen /\ Appends(disk', disk, activeId, Item(lastSeqno + 1, op))
<1>1. isOpen /\ pc = "write"
  BY DEF Typed, WriteRecord
<1>2. IsDisk(disk) /\ IsNewest(disk, activeId) /\ activeId \in DOMAIN disk
  BY <1>1, ActiveSegment
<1>3. PICK item : item = Item(lastSeqno + 1, op)
  OBVIOUS
<1>4. item \in ItemSet
  <2>1. lastSeqno + 1 \in Nat \ {0} /\ op \in Op
    BY DEF Typed
  <2>. QED
    BY <1>3, <2>1, ItemIsGood
<1>5. disk' = Longer(disk, activeId, item)
  BY <1>3 DEF WriteRecord, Longer
<1>6. Appends(disk', disk, activeId, item)
  BY <1>2, <1>4, <1>5, ItemAppended
<1>7. IsDisk(disk') /\ IsNewest(disk', activeId)
  BY <1>2, <1>6 DEF Appends
<1>8. LastIs(disk'[activeId'].items, Item(lastSeqno' + 1, op'))
  BY <1>3, <1>6 DEF LastIs, WriteRecord, Appends
<1>9. pc' \in {"sync", "return"} /\ activeRecs' \in Nat /\ sinceSync' \in Nat
  BY DEF WriteRecord, Typed
<1>10. UNCHANGED <<flushed, synced, isOpen, activeId, segMax, lastSeqno, op, floor>>
  BY DEF WriteRecord
<1>. QED
  BY <1>1, <1>3, <1>6, <1>7, <1>8, <1>9, <1>10 DEF Typed

LEMMA TypedAcknowledge ==
    ASSUME Typed, Acknowledge
    PROVE  /\ Typed' /\ isOpen /\ Len(Items) \in 1 .. Len(Items)
           /\ Items[Len(Items)] = Item(lastSeqno + 1, op) /\ Items[Len(Items)].good
           /\ Items[Len(Items)].seq = lastSeqno + 1
           /\ Marks(disk', disk, activeId, Len(Items))
<1>1. isOpen /\ pc = "return"
  BY DEF Typed, Acknowledge
<1>2. /\ IsDisk(disk) /\ IsNewest(disk, activeId) /\ activeId \in DOMAIN disk
      /\ Items = disk[activeId].items /\ Len(Items) \in Nat
  BY <1>1, ActiveSegment
<1>3. LastIs(Items, Item(lastSeqno + 1, op)) /\ lastSeqno + 1 \in Nat \ {0} /\ op \in Op
  BY <1>1, <1>2 DEF Typed
<1>4. Len(Items) \in 1 .. Len(Items)
  BY <1>2, <1>3, ActiveSegment, <1>1, EmptySeq DEF LastIs
<1>5. /\ Items[Len(Items)].good /\ Items[Len(Items)].seq = lastSeqno + 1
      /\ Items[Len(Items)] = Item(lastSeqno + 1, op)
  BY <1>3, ItemIsGood DEF LastIs
<1>6. Marks(disk', disk, activeId, Len(Items))
  <2>1. PICK n : n = Len(Items)
    OBVIOUS
  <2>2. disk' = Marked(disk, activeId, n)
    BY <2>1 DEF Acknowledge, Marked
  <2>3. n \in 1 .. Len(disk[activeId].items) /\ disk[activeId].items[n].good
    BY <1>2, <1>4, <1>5, <2>1
  <2>. QED
    BY <1>2, <2>1, <2>2, <2>3, ItemAcknowledged
<1>7. segMax' \in [DOMAIN segMax' -> Nat]
  <2>1. segMax' = Put(segMax, activeId, lastSeqno + 1) /\ segMax \in [DOMAIN segMax -> Nat]
    BY DEF Acknowledge, Counted, Typed
  <2>. QED
    BY <1>3, <2>1 DEF Put
<1>8. /\ activeId' = activeId /\ isOpen' = isOpen /\ pc' = "idle"
      /\ lastSeqno' = lastSeqno + 1
      /\ UNCHANGED <<flushed, synced, activeRecs, sinceSync, op, floor>>
  BY DEF Acknowledge
<1>9. IsDisk(disk') /\ IsNewest(disk', activeId)
  BY <1>2, <1>6 DEF Marks
<1>10. Typed'
  BY <1>1, <1>3, <1>7, <1>8, <1>9 DEF Typed
<1>. QED
  BY <1>1, <1>4, <1>5, <1>6, <1>10

LEMMA RemovedSegments ==
    ASSUME Typed, NEW w \in 0 .. lastSeqno, RemoveSegmentsCovered(w)
    PROVE  /\ IsDisk(disk') /\ IsNewest(disk', activeId) /\ activeId \in DOMAIN disk'
           /\ DOMAIN disk' \subseteq DOMAIN disk /\ \A s \in DOMAIN disk' : disk'[s] = disk[s]
           /\ Keeps(disk', disk)
           /\ \A s \in DOMAIN disk \ DOMAIN disk' : s \in DOMAIN segMax /\ segMax[s] <= w
           /\ DOMAIN segMax' \subseteq DOMAIN segMax
           /\ \A s \in DOMAIN segMax' : segMax'[s] = segMax[s]
           /\ \A s \in DOMAIN disk' : s \in DOMAIN segMax => s \in DOMAIN segMax'
           /\ segMax' \in [DOMAIN segMax' -> Nat]
           /\ floor' \in Nat /\ floor <= floor' /\ w <= floor'
<1>. DEFINE gone == {s \in DOMAIN disk \ {activeId} :
                        s \in DOMAIN segMax /\ segMax[s] <= w}
<1>1. IsDisk(disk) /\ IsNewest(disk, activeId) /\ activeId \in DOMAIN disk \ gone
  BY ActiveSegment DEF RemoveSegmentsCovered
<1>2. disk' = Restrict(disk, DOMAIN disk \ gone) /\ segMax' = Restrict(segMax, DOMAIN segMax \ gone)
  BY DEF RemoveSegmentsCovered
<1>3. \A s \in gone : s \in DOMAIN segMax /\ segMax[s] <= w
  OBVIOUS
<1>. HIDE DEF gone
<1>4. /\ IsDisk(disk') /\ DOMAIN disk' = DOMAIN disk \ gone
      /\ \A t \in DOMAIN disk \ gone : disk'[t] = disk[t]
      /\ \A t \in DOMAIN disk \ gone : IsNewest(disk, t) => IsNewest(disk', t)
      /\ Keeps(disk', disk)
  BY <1>1, <1>2, SegmentsRemoved
<1>5. /\ DOMAIN segMax' = DOMAIN segMax \ gone
      /\ \A s \in DOMAIN segMax \ gone : segMax'[s] = segMax[s]
      /\ segMax' \in [DOMAIN segMax' -> Nat]
  BY <1>2 DEF Restrict, Typed
<1>6. floor' = Max({floor, w}) /\ floor \in Nat /\ w \in Nat
  BY DEF RemoveSegmentsCovered, Typed
<1>7. floor' \in Nat /\ floor <= floor' /\ w <= floor'
  BY <1>6, GreaterOfTwo
<1>. QED
  BY <1>1, <1>3, <1>4, <1>5, <1>7

LEMMA TypedRemove ==
    ASSUME Typed, NEW w \in 0 .. lastSeqno, RemoveSegmentsCovered(w)
    PROVE  Typed'
<1>1. /\ IsDisk(disk') /\ IsNewest(disk', activeId)
      /\ segMax' \in [DOMAIN segMax' -> Nat] /\ floor' \in Nat
  BY RemovedSegments
<1>2. /\ isOpen /\ pc = "idle"
      /\ UNCHANGED <<flushed, synced, isOpen, activeId, activeRecs, lastSeqno, sinceSync,
                     pc, op>>
  BY DEF RemoveSegmentsCovered
<1>. QED
  BY <1>1, <1>2 DEF Typed

LEMMA TypedOpen ==
    ASSUME Typed, Open
    PROVE  Typed'
<1>1. IsDisk(disk) /\ floor \in Nat /\ synced \in Nat /\ ~isOpen /\ pc = "idle"
  BY DEF Typed, Open
<1>2. IsDisk(disk') /\ IsNewest(disk', activeId') /\ activeId' \in Nat
  BY <1>1, Opened DEF IsNewest, IsDisk
<1>3. /\ lastSeqno' \in Nat /\ segMax' \in [DOMAIN segMax' -> Nat]
      /\ flushed' \in Nat /\ synced' \in Nat /\ activeRecs' \in Nat
  BY <1>1, Seeded
<1>4. sinceSync' = 0 /\ isOpen' = TRUE /\ UNCHANGED <<pc, op, floor>>
  BY DEF Open
<1>. QED
  BY <1>1, <1>2, <1>3, <1>4 DEF Typed

(* A torn record at the end, or nothing.                                   *)
LEMMA TornWrite ==
    ASSUME Typed, WriteFails
    PROVE  /\ isOpen /\ pc = "write" /\ IsDisk(disk') /\ IsNewest(disk', activeId)
           /\ Keeps(disk', disk) /\ DOMAIN disk' = DOMAIN disk
           /\ \A t \in DOMAIN disk : disk'[t].hdr = disk[t].hdr
           /\ \A t \in DOMAIN disk \ {activeId} : disk'[t] = disk[t]
           /\ Len(disk'[activeId].items) \in Len(Items) .. Len(Items) + 1
           /\ \A i \in 1 .. Len(Items) : disk'[activeId].items[i] = Items[i]
           /\ Len(disk'[activeId].items) = Len(Items) + 1 =>
                 disk'[activeId].items[Len(Items) + 1] = Torn
<1>1. isOpen /\ pc = "write"
  BY DEF Typed, WriteFails
<1>2. /\ IsDisk(disk) /\ IsNewest(disk, activeId) /\ activeId \in DOMAIN disk
      /\ Items = disk[activeId].items /\ Len(Items) \in Nat
  BY <1>1, ActiveSegment
<1>3. CASE disk' = disk
  BY <1>1, <1>2, <1>3 DEF Keeps
<1>4. CASE disk' = [disk EXCEPT ![activeId].items = Append(@, Torn)]
  <2>1. disk' = Longer(disk, activeId, Torn)
    BY <1>4 DEF Longer
  <2>2. Appends(disk', disk, activeId, Torn)
    BY <1>2, <2>1, TornIsItem, ItemAppended
  <2>. QED
    BY <1>1, <1>2, <2>2, TornIsItem DEF Appends
<1>. QED
  BY <1>3, <1>4 DEF WriteFails

LEMMA TypedWriteFails ==
    ASSUME Typed, WriteFails
    PROVE  Typed'
<1>1. isOpen /\ IsDisk(disk') /\ IsNewest(disk', activeId)
  BY TornWrite
<1>2. /\ pc' = "idle"
      /\ UNCHANGED <<segMax, lastSeqno, op, floor, isOpen, flushed, synced, activeId,
                     activeRecs, sinceSync>>
  BY DEF WriteFails, Throw
<1>. QED
  BY <1>1, <1>2 DEF Typed

LEMMA TypedRollFails ==
    ASSUME Typed, isOpen, NEW hdr \in BOOLEAN,
           disk' = Put(disk, activeId + 1, NewSegment(hdr)),
           activeId' = activeId + 1 \/ (activeId' = activeId /\ isOpen' = FALSE),
           isOpen' \in BOOLEAN, pc' = "idle", flushed' = 0, synced' = 0,
           UNCHANGED <<segMax, lastSeqno, op, floor, activeRecs, sinceSync>>
    PROVE  Typed' /\ Adds(disk', disk, activeId + 1, NewSegment(hdr))
<1>1. Adds(disk', disk, activeId + 1, NewSegment(hdr))
  BY SegmentStarted DEF FreshSegments
<1>2. IsDisk(disk') /\ IsNewest(disk', activeId + 1)
  BY <1>1 DEF Adds
<1>3. activeId' \in Nat /\ (isOpen' => activeId' = activeId + 1)
  BY DEF Typed
<1>4. Typed'
  BY <1>2, <1>3 DEF Typed
<1>. QED
  BY <1>1, <1>4

LEMMA TypedCrash ==
    ASSUME Typed, IsDisk(disk'), Die, flushed' \in Nat, synced' \in Nat
    PROVE  Typed'
<1>. QED
  BY DEF Typed, Die, memoryVars

LEMMA CrashedIn ==
    ASSUME Typed, ProcessCrash
    PROVE  /\ isOpen /\ DOMAIN disk # {} /\ ~isOpen'
           /\ \E n \in 0 .. Len(Items) : \E left \in Survivors(n) :
                 n >= flushed /\ disk' = [disk EXCEPT ![Newest].items = left]
<1>1. isOpen /\ Len(Items) \in Nat /\ activeId \in DOMAIN disk /\ flushed \in Nat
  BY ActiveSegment DEF ProcessCrash, Typed
<1>2. PICK n \in flushed .. Len(Items) : \E left \in Survivors(n) :
          disk' = [disk EXCEPT ![Newest].items = left]
  BY DEF ProcessCrash
<1>3. n \in 0 .. Len(Items) /\ n >= flushed
  BY <1>1
<1>4. ~isOpen' /\ DOMAIN disk # {}
  BY <1>1 DEF ProcessCrash, Die
<1>. QED
  BY <1>1, <1>2, <1>3, <1>4

LEMMA PowerWasCut ==
    ASSUME Typed, PowerCut
    PROVE  /\ DOMAIN disk # {} /\ ~isOpen'
           /\ \E n \in 0 .. Len(Items) : \E left \in Survivors(n) :
                 /\ n >= Min({synced, Len(Items)})
                 /\ disk' = [disk EXCEPT ![Newest].items = left]
                 /\ flushed' = Len(left) /\ synced' = Len(left)
<1>1. IsDisk(disk) /\ DOMAIN disk # {} /\ synced \in Nat
  BY EmptyDisk DEF PowerCut, Typed
<1>2. Len(Items) \in Nat
  BY <1>1, NewestOf, SegmentOf DEF Items, Newest, IsNewest
<1>3. Min({synced, Len(Items)}) \in Nat
  BY <1>1, <1>2, LesserOfTwo
<1>4. PICK low : low = Min({synced, Len(Items)})
  OBVIOUS
<1>5. PICK n \in low .. Len(Items) : \E left \in Survivors(n) :
          /\ disk' = [disk EXCEPT ![Newest].items = left]
          /\ flushed' = Len(left) /\ synced' = Len(left)
  BY <1>4 DEF PowerCut
<1>6. n \in 0 .. Len(Items) /\ n >= low
  BY <1>2, <1>3, <1>4
<1>7. ~isOpen'
  BY DEF PowerCut, Die
<1>. QED
  BY <1>1, <1>4, <1>5, <1>6, <1>7

LEMMA TypedStep == Typed /\ [Next]_vars => Typed'
<1>. SUFFICES ASSUME Typed, [Next]_vars
              PROVE  Typed'
  OBVIOUS
<1>1. CASE Open
  BY <1>1, TypedOpen
<1>2. CASE Roll \/ RollForSize
  <2>1. isOpen /\ RollSegment /\ pc' \in {"idle", "write"}
    BY <1>2 DEF Roll, RollForSize, Typed
  <2>. QED
    BY <2>1, TypedRoll
<1>3. CASE Sync \/ Close \/ (\E o \in Op : BeginAppend(o)) \/ SyncRecord \/ SyncFails
           \/ NoNextFile \/ UNCHANGED vars
  <2>1. CASE Sync \/ Close \/ SyncRecord \/ NoNextFile
    <3>1. isOpen
      BY <2>1 DEF Sync, Close, SyncRecord, NoNextFile, Typed
    <3>2. Len(Items) \in Nat
      BY <3>1, ActiveSegment
    <3>3. SameFiles
      BY <2>1 DEF Sync, Close, SyncRecord, NoNextFile, Throw, SameFiles
    <3>4. /\ flushed' = Len(Items) /\ synced' = Len(Items)
          /\ activeRecs' = activeRecs /\ sinceSync' \in {0, sinceSync}
      BY <2>1 DEF Sync, Close, SyncRecord, NoNextFile, Throw
    <3>5. \/ pc' = "idle" /\ (isOpen' = isOpen \/ isOpen' = FALSE)
          \/ pc' = "return" /\ pc = "sync" /\ isOpen' = isOpen
      <4>1. CASE Sync \/ Close
        BY <4>1 DEF Sync, Close
      <4>2. CASE SyncRecord
        BY <4>2 DEF SyncRecord
      <4>3. CASE NoNextFile
        BY <4>3 DEF NoNextFile, Throw
      <4>. QED
        BY <2>1, <4>1, <4>2, <4>3
    <3>6. /\ flushed' \in Nat /\ synced' \in Nat /\ activeRecs' \in Nat /\ sinceSync' \in Nat
          /\ isOpen' \in BOOLEAN
      <4>1. isOpen \in BOOLEAN /\ activeRecs \in Nat /\ sinceSync \in Nat
        BY DEF Typed
      <4>2. isOpen' \in BOOLEAN
        BY <3>5, <4>1
      <4>. QED
        BY <3>2, <3>4, <4>1, <4>2
    <3>. QED
      BY <3>1, <3>3, <3>5, <3>6, TypedSameFiles
  <2>2. CASE SyncFails
    <3>1. SameFiles
      BY <2>2 DEF SyncFails, Throw, SameFiles
    <3>2. /\ flushed' \in Nat /\ synced' \in Nat /\ activeRecs' \in Nat /\ sinceSync' \in Nat
          /\ isOpen' \in BOOLEAN /\ pc' = "idle" /\ isOpen' = isOpen
      BY <2>2 DEF SyncFails, Throw, Typed
    <3>. QED
      BY <3>1, <3>2, TypedSameFiles
  <2>3. CASE \E o \in Op : BeginAppend(o)
    <3>1. PICK o \in Op : BeginAppend(o)
      BY <2>3
    <3>2. /\ pc' \in {"roll", "write"} /\ op' = o /\ isOpen
          /\ UNCHANGED <<disk, flushed, synced, isOpen, memoryVars, floor>>
      BY <3>1 DEF BeginAppend
    <3>. QED
      BY <3>1, <3>2 DEF Typed, memoryVars
  <2>4. CASE UNCHANGED vars
    BY <2>4 DEF vars, memoryVars, boundVars, Typed
  <2>. QED
    BY <1>3, <2>1, <2>2, <2>3, <2>4
<1>4. CASE WriteRecord
  BY <1>4, TypedWrite
<1>5. CASE Acknowledge
  BY <1>5, TypedAcknowledge
<1>6. CASE \E w \in 0 .. lastSeqno : RemoveSegmentsCovered(w)
  BY <1>6, TypedRemove
<1>7. CASE WriteFails
  BY <1>7, TypedWriteFails
<1>8. CASE HeaderFails
  <2>1. isOpen /\ isOpen' \in BOOLEAN
    BY <1>8 DEF HeaderFails, Typed
  <2>2. PICK hdr \in BOOLEAN : disk' = Put(disk, activeId + 1, NewSegment(hdr))
    BY <1>8 DEF HeaderFails
  <2>3. /\ activeId' = activeId + 1
        /\ pc' = "idle" /\ flushed' = 0 /\ synced' = 0
        /\ UNCHANGED <<segMax, lastSeqno, op, floor, activeRecs, sinceSync>>
    BY <1>8 DEF HeaderFails, Throw
  <2>. QED
    BY <2>1, <2>2, <2>3, TypedRollFails
<1>9. CASE CrashInRoll
  <2>1. isOpen /\ isOpen' = FALSE
    BY <1>9 DEF CrashInRoll, Die
  <2>2. /\ disk' = Put(disk, activeId + 1, NewSegment(FALSE)) /\ activeId' = activeId
        /\ pc' = "idle" /\ flushed' = 0 /\ synced' = 0
        /\ UNCHANGED <<segMax, lastSeqno, op, floor, activeRecs, sinceSync>>
    BY <1>9 DEF CrashInRoll, Die, memoryVars
  <2>. QED
    BY <2>1, <2>2, TypedRollFails
<1>10. CASE ProcessCrash
  <2>1. PICK n \in 0 .. Len(Items) : \E left \in Survivors(n) :
            disk' = [disk EXCEPT ![Newest].items = left]
    BY <1>10, CrashedIn
  <2>2. IsDisk(disk')
    BY <1>10, <2>1, CrashedIn, Survived DEF Typed
  <2>3. Die /\ flushed' \in Nat /\ synced' \in Nat
    BY <1>10 DEF ProcessCrash, Typed
  <2>. QED
    BY <2>2, <2>3, TypedCrash
<1>11. CASE PowerCut
  <2>1. PICK n \in 0 .. Len(Items) : \E left \in Survivors(n) :
            /\ disk' = [disk EXCEPT ![Newest].items = left]
            /\ flushed' = Len(left) /\ synced' = Len(left)
    BY <1>11, PowerWasCut
  <2>2. PICK left \in Survivors(n) :
            /\ disk' = [disk EXCEPT ![Newest].items = left]
            /\ flushed' = Len(left) /\ synced' = Len(left)
    BY <2>1
  <2>3. IsDisk(disk') /\ Len(left) \in Nat
    BY <1>11, <2>2, PowerWasCut, Survived DEF Typed
  <2>4. Die
    BY <1>11 DEF PowerCut
  <2>. QED
    BY <2>2, <2>3, <2>4, TypedCrash
<1>. QED
  BY <1>1, <1>2, <1>3, <1>4, <1>5, <1>6, <1>7, <1>8, <1>9, <1>10, <1>11 DEF Next

LEMMA TypedMeansTypeOK == Typed => TypeOK
<1>. SUFFICES ASSUME Typed
              PROVE  TypeOK
  OBVIOUS
<1>1. ASSUME NEW s \in DOMAIN disk
      PROVE  /\ s \in Nat \ {0} /\ disk[s].hdr \in BOOLEAN
             /\ \A i \in DOMAIN disk[s].items : IsItem(disk[s].items[i])
  <2>1. IsDisk(disk)
    BY DEF Typed
  <2>2. /\ s \in Nat \ {0} /\ disk[s].hdr \in BOOLEAN
        /\ DOMAIN disk[s].items = 1 .. Len(disk[s].items)
        /\ \A i \in 1 .. Len(disk[s].items) : disk[s].items[i] \in ItemSet
    BY <2>1, SegmentOf
  <2>3. \A i \in ItemSet : IsItem(i)
    BY ItemFields DEF IsItem
  <2>. QED
    BY <2>2, <2>3
<1>2. isOpen => activeId = Newest
  BY ActiveSegment
<1>3. \A s \in DOMAIN segMax : segMax[s] \in Nat
  BY DEF Typed
<1>. QED
  BY <1>1, <1>2, <1>3 DEF Typed, TypeOK

LEMMA AlwaysTyped == Spec => []Typed
<1>. QED
  BY TypedInit, TypedStep, PTL DEF Spec

(* Whatever the constants, every variable holds a value of its kind, and   *)
(* the file that open() left open is the newest segment.                   *)
THEOREM WalTyped == Spec => []TypeOK
<1>. QED
  BY AlwaysTyped, TypedMeansTypeOK, PTL

-----------------------------------------------------------------------------
(* Every step is of one of a few kinds.                                    *)

(* Every item is still there, acknowledged if it was.                      *)
Retains(d2, d1) ==
    \A s \in DOMAIN d1 :
        /\ s \in DOMAIN d2 /\ Len(d1[s].items) <= Len(d2[s].items)
        /\ \A i \in 1 .. Len(d1[s].items) :
              /\ d2[s].items[i].seq = d1[s].items[i].seq
              /\ d1[s].items[i].acked => d2[s].items[i].acked

Appending == pc \in {"sync", "return"}
KnowsNoMore == \A s \in DOMAIN segMax' : s \in DOMAIN segMax /\ segMax'[s] = segMax[s]

(* The log is down after the step.                                         *)
GoesDown == ~isOpen' /\ Keeps(disk', disk)
(* Nothing is added, and no record is under way.                           *)
AddsNothing ==
    /\ isOpen /\ isOpen' /\ ~Appending /\ ~Appending'
    /\ lastSeqno' = lastSeqno
    /\ IsDisk(disk') /\ Keeps(disk', disk) /\ KnowsNoMore
    /\ Retains(disk', disk) \/ \E w \in 0 .. lastSeqno : RemoveSegmentsCovered(w)

LEMMA SameRetains ==
    ASSUME NEW d, IsDisk(d)
    PROVE  Keeps(d, d) /\ Retains(d, d)
<1>1. \A s \in DOMAIN d : Len(d[s].items) \in Nat
  BY SegmentOf
<1>. QED
  BY <1>1 DEF Keeps, Retains

LEMMA AddsRetains ==
    ASSUME NEW d, IsDisk(d), NEW e, NEW n, NEW g, Adds(e, d, n, g)
    PROVE  Retains(e, d)
<1>1. \A s \in DOMAIN d : Len(d[s].items) \in Nat
  BY SegmentOf
<1>. QED
  BY <1>1 DEF Adds, Retains

LEMMA AppendsRetains ==
    ASSUME NEW d, IsDisk(d), NEW e, NEW s \in DOMAIN d, NEW item, Appends(e, d, s, item)
    PROVE  Retains(e, d)
<1>1. \A t \in DOMAIN d : Len(d[t].items) \in Nat
  BY SegmentOf
<1>2. ASSUME NEW t \in DOMAIN d, t # s
      PROVE  e[t] = d[t]
  BY <1>2 DEF Appends
<1>3. /\ DOMAIN e = DOMAIN d /\ Len(e[s].items) = Len(d[s].items) + 1
      /\ \A i \in 1 .. Len(d[s].items) : e[s].items[i] = d[s].items[i]
  BY DEF Appends
<1>. QED
  BY <1>1, <1>2, <1>3 DEF Retains

LEMMA MarksRetains ==
    ASSUME NEW d, IsDisk(d), NEW e, NEW s \in DOMAIN d, NEW n, Marks(e, d, s, n)
    PROVE  Retains(e, d)
<1>1. \A t \in DOMAIN d : Len(d[t].items) \in Nat
  BY SegmentOf
<1>2. ASSUME NEW t \in DOMAIN d, t # s
      PROVE  e[t] = d[t]
  BY <1>2 DEF Marks
<1>3. /\ DOMAIN e = DOMAIN d /\ Len(e[s].items) = Len(d[s].items)
      /\ \A i \in 1 .. Len(d[s].items) : i # n => e[s].items[i] = d[s].items[i]
      /\ e[s].items[n].seq = d[s].items[n].seq /\ e[s].items[n].acked
  BY DEF Marks
<1>. QED
  BY <1>1, <1>2, <1>3 DEF Retains

LEMMA KindsOfSteps ==
    ASSUME Typed, [Next]_vars
    PROVE  \/ GoesDown \/ AddsNothing
           \/ Open \/ WriteRecord \/ SyncRecord \/ SyncFails \/ Acknowledge
           \/ UNCHANGED vars
<1>1. CASE Open \/ WriteRecord \/ SyncRecord \/ SyncFails \/ Acknowledge \/ UNCHANGED vars
  BY <1>1
<1>. DEFINE Quiet == isOpen /\ isOpen' /\ ~Appending /\ ~Appending' /\ lastSeqno' = lastSeqno
<1>2. CASE Roll \/ RollForSize
  <2>1. isOpen /\ RollSegment /\ pc' \in {"idle", "write"} /\ ~Appending
    BY <1>2 DEF Roll, RollForSize, Typed, Appending
  <2>2. Adds(disk', disk, activeId + 1, NewSegment(TRUE))
    BY <2>1, TypedRoll
  <2>3. Quiet /\ KnowsNoMore
    BY <2>1 DEF RollSegment, Appending, KnowsNoMore
  <2>4. Retains(disk', disk) /\ IsDisk(disk') /\ Keeps(disk', disk)
    BY <2>2, AddsRetains DEF Adds, Typed
  <2>. QED
    BY <2>3, <2>4 DEF AddsNothing
<1>3. CASE HeaderFails
  <2>1. isOpen /\ isOpen' /\ pc \in {"idle", "roll"} /\ pc' = "idle"
        /\ UNCHANGED <<segMax, lastSeqno>>
    BY <1>3 DEF HeaderFails, Throw
  <2>2. PICK hdr \in BOOLEAN : disk' = Put(disk, activeId + 1, NewSegment(hdr))
    BY <1>3 DEF HeaderFails
  <2>3. Adds(disk', disk, activeId + 1, NewSegment(hdr))
    BY <2>1, <2>2, SegmentStarted DEF FreshSegments
  <2>4. Quiet /\ KnowsNoMore
    BY <2>1 DEF Appending, KnowsNoMore
  <2>5. Retains(disk', disk) /\ IsDisk(disk') /\ Keeps(disk', disk)
    BY <2>3, AddsRetains DEF Adds, Typed
  <2>. QED
    BY <2>4, <2>5 DEF AddsNothing
<1>4. CASE Sync \/ (\E o \in Op : BeginAppend(o))
  <2>1. isOpen /\ isOpen' /\ pc = "idle" /\ pc' \in {"idle", "roll", "write"}
        /\ UNCHANGED <<disk, segMax, lastSeqno>>
    BY <1>4 DEF Sync, BeginAppend, memoryVars
  <2>2. Quiet /\ KnowsNoMore
    BY <2>1 DEF Appending, KnowsNoMore
  <2>3. Retains(disk', disk) /\ IsDisk(disk') /\ Keeps(disk', disk)
    BY <2>1, SameRetains DEF Typed
  <2>. QED
    BY <2>2, <2>3 DEF AddsNothing
<1>5. CASE \E w \in 0 .. lastSeqno : RemoveSegmentsCovered(w)
  <2>1. isOpen /\ isOpen' /\ pc = "idle" /\ pc' = "idle" /\ lastSeqno' = lastSeqno
    BY <1>5 DEF RemoveSegmentsCovered
  <2>2. KnowsNoMore /\ IsDisk(disk') /\ Keeps(disk', disk)
    BY <1>5, RemovedSegments DEF KnowsNoMore
  <2>. QED
    BY <1>5, <2>1, <2>2 DEF AddsNothing, Appending
<1>6. CASE WriteFails
  <2>1. isOpen /\ isOpen' /\ pc = "write" /\ pc' = "idle" /\ UNCHANGED <<segMax, lastSeqno>>
    BY <1>6, TornWrite DEF WriteFails, Throw
  <2>2. Quiet /\ KnowsNoMore
    BY <2>1 DEF Appending, KnowsNoMore
  <2>3. Retains(disk', disk)
    <3>1. /\ Len(disk'[activeId].items) \in Len(Items) .. Len(Items) + 1
          /\ \A i \in 1 .. Len(Items) : disk'[activeId].items[i] = Items[i]
          /\ DOMAIN disk' = DOMAIN disk
          /\ \A t \in DOMAIN disk \ {activeId} : disk'[t] = disk[t]
      BY <1>6, TornWrite
    <3>2. Items = disk[activeId].items /\ IsDisk(disk) /\ Len(Items) \in Nat
      BY <2>1, ActiveSegment
    <3>3. \A s \in DOMAIN disk : Len(disk[s].items) \in Nat
      BY <3>2, SegmentOf
    <3>. QED
      BY <3>1, <3>2, <3>3 DEF Retains
  <2>4. IsDisk(disk') /\ Keeps(disk', disk)
    BY <1>6, TornWrite
  <2>. QED
    BY <2>2, <2>3, <2>4 DEF AddsNothing
<1>7. CASE Close \/ NoNextFile
  <2>1. ~isOpen' /\ disk' = disk
    BY <1>7 DEF Close, NoNextFile
  <2>. QED
    BY <2>1, SameRetains DEF GoesDown, Typed
<1>8. CASE CrashInRoll
  <2>1. isOpen /\ ~isOpen' /\ disk' = Put(disk, activeId + 1, NewSegment(FALSE))
    BY <1>8 DEF CrashInRoll, Die
  <2>2. Adds(disk', disk, activeId + 1, NewSegment(FALSE))
    BY <2>1, SegmentStarted DEF FreshSegments
  <2>. QED
    BY <2>1, <2>2 DEF GoesDown, Adds
<1>9. CASE ProcessCrash
  <2>1. IsDisk(disk) /\ ~isOpen'
    BY <1>9, CrashedIn DEF Typed
  <2>2. Keeps(disk', disk)
    BY <1>9, <2>1, CrashedIn, Survived
  <2>. QED
    BY <2>1, <2>2 DEF GoesDown
<1>10. CASE PowerCut
  <2>1. IsDisk(disk) /\ ~isOpen'
    BY <1>10, PowerWasCut DEF Typed
  <2>2. Keeps(disk', disk)
    BY <1>10, <2>1, PowerWasCut, Survived
  <2>. QED
    BY <2>1, <2>2 DEF GoesDown
<1>. QED
  BY <1>1, <1>2, <1>3, <1>4, <1>5, <1>6, <1>7, <1>8, <1>9, <1>10 DEF Next

-----------------------------------------------------------------------------
(* The order of replay.                                                    *)

Precedes(s, i, t, j) == s < t \/ (s = t /\ i < j)

(* The seqNos of the good items do not fall from one to the next ...       *)
InOrder(d) ==
    \A s, t \in DOMAIN d : \A i \in 1 .. Len(d[s].items) : \A j \in 1 .. Len(d[t].items) :
        d[s].items[i].good /\ d[t].items[j].good /\ Precedes(s, i, t, j) =>
            d[s].items[i].seq <= d[t].items[j].seq

(* ... or rise.                                                            *)
InStrictOrder(d) ==
    \A s, t \in DOMAIN d : \A i \in 1 .. Len(d[s].items) : \A j \in 1 .. Len(d[t].items) :
        d[s].items[i].good /\ d[t].items[j].good /\ Precedes(s, i, t, j) =>
            d[s].items[i].seq < d[t].items[j].seq

NoneAbove(d, n) ==
    \A s \in DOMAIN d : \A i \in 1 .. Len(d[s].items) :
        d[s].items[i].good => d[s].items[i].seq <= n

LEMMA KeptInOrder ==
    ASSUME NEW d1, NEW d2, Keeps(d2, d1)
    PROVE  /\ InOrder(d1) => InOrder(d2)
           /\ InStrictOrder(d1) => InStrictOrder(d2)
           /\ \A n : NoneAbove(d1, n) => NoneAbove(d2, n)
<1>1. ASSUME NEW s \in DOMAIN d2, NEW i \in 1 .. Len(d2[s].items), d2[s].items[i].good
      PROVE  /\ s \in DOMAIN d1 /\ i \in 1 .. Len(d1[s].items)
             /\ d2[s].items[i] = d1[s].items[i]
  BY <1>1 DEF Keeps
<1>2. InOrder(d1) => InOrder(d2)
  BY <1>1 DEF InOrder
<1>3. InStrictOrder(d1) => InStrictOrder(d2)
  BY <1>1 DEF InStrictOrder
<1>4. \A n : NoneAbove(d1, n) => NoneAbove(d2, n)
  BY <1>1 DEF NoneAbove
<1>. QED
  BY <1>2, <1>3, <1>4

(* An item at the end of the newest segment, not below what is there.      *)
LEMMA AppendedInOrder ==
    ASSUME NEW d, IsDisk(d), NEW s, IsNewest(d, s), NEW item \in ItemSet, item.good,
           NEW e, Appends(e, d, s, item)
    PROVE  /\ InOrder(d) /\ NoneAbove(d, item.seq) => InOrder(e) /\ NoneAbove(e, item.seq)
           /\ \A n \in Nat : InStrictOrder(d) /\ NoneAbove(d, n) /\ item.seq = n + 1 =>
                 InStrictOrder(e)
<1>. DEFINE last == Len(d[s].items) + 1
            At(t, i) == t = s /\ i = last
<1>1. s \in DOMAIN d /\ Len(d[s].items) \in Nat /\ item.seq \in Nat
  BY SegmentOf, ItemFields DEF IsNewest
<1>2. \A t \in DOMAIN d : t <= s /\ t \in Nat
  BY DEF IsNewest, IsDisk
<1>3. ASSUME NEW t \in DOMAIN e, NEW i \in 1 .. Len(e[t].items)
      PROVE  /\ t \in DOMAIN d /\ i \in Nat
             /\ At(t, i) => e[t].items[i] = item
             /\ ~At(t, i) => /\ i \in 1 .. Len(d[t].items) /\ e[t].items[i] = d[t].items[i]
                             /\ d[t].items[i].seq \in Nat
             /\ t = s => i <= last
  <2>1. t \in DOMAIN d
    BY DEF Appends
  <2>2. CASE t # s
    <3>1. e[t] = d[t]
      BY <2>1, <2>2 DEF Appends
    <3>2. Len(d[t].items) \in Nat /\ d[t].items[i] \in ItemSet
      BY <2>1, <3>1, SegmentOf
    <3>. QED
      BY <2>1, <2>2, <3>1, <3>2, ItemFields
  <2>3. CASE t = s
    <3>1. /\ Len(e[s].items) = last
          /\ \A k \in 1 .. Len(d[s].items) : e[s].items[k] = d[s].items[k]
          /\ e[s].items[last] = item
      BY DEF Appends
    <3>2. \A k \in 1 .. Len(d[s].items) : d[s].items[k].seq \in Nat
      BY <1>1, SegmentOf, ItemFields
    <3>. QED
      BY <1>1, <2>1, <2>3, <3>1, <3>2
  <2>. QED
    BY <2>2, <2>3
<1>4. ASSUME NEW t \in DOMAIN e, NEW i \in 1 .. Len(e[t].items),
             NEW u \in DOMAIN e, NEW j \in 1 .. Len(e[u].items), Precedes(t, i, u, j)
      PROVE  ~At(t, i)
  <2>1. u <= s /\ u \in Nat /\ (u = s => j <= last) /\ i \in Nat /\ j \in Nat
    BY <1>2, <1>3
  <2>2. s \in Nat
    BY <1>1, <1>2
  <2>. QED
    BY <1>1, <1>4, <2>1, <2>2 DEF Precedes
<1>. HIDE DEF At, last
<1>5. ASSUME InOrder(d), NoneAbove(d, item.seq)
      PROVE  InOrder(e) /\ NoneAbove(e, item.seq)
  <2>1. ASSUME NEW t \in DOMAIN e, NEW i \in 1 .. Len(e[t].items), e[t].items[i].good
        PROVE  e[t].items[i].seq <= item.seq
    <3>1. CASE At(t, i)
      BY <1>1, <1>3, <3>1
    <3>2. CASE ~At(t, i)
      BY <1>3, <1>5, <2>1, <3>2 DEF NoneAbove
    <3>. QED
      BY <3>1, <3>2
  <2>2. ASSUME NEW t \in DOMAIN e, NEW u \in DOMAIN e,
               NEW i \in 1 .. Len(e[t].items), NEW j \in 1 .. Len(e[u].items),
               e[t].items[i].good, e[u].items[j].good, Precedes(t, i, u, j)
        PROVE  e[t].items[i].seq <= e[u].items[j].seq
    <3>1. ~At(t, i)
      BY <1>4, <2>2
    <3>2. CASE At(u, j)
      BY <1>3, <2>1, <2>2, <3>2
    <3>3. CASE ~At(u, j)
      BY <1>3, <1>5, <2>2, <3>1, <3>3 DEF InOrder
    <3>. QED
      BY <3>2, <3>3
  <2>. QED
    BY <2>1, <2>2 DEF InOrder, NoneAbove
<1>6. ASSUME NEW n \in Nat, InStrictOrder(d), NoneAbove(d, n), item.seq = n + 1
      PROVE  InStrictOrder(e)
  <2>1. ASSUME NEW t \in DOMAIN e, NEW u \in DOMAIN e,
               NEW i \in 1 .. Len(e[t].items), NEW j \in 1 .. Len(e[u].items),
               e[t].items[i].good, e[u].items[j].good, Precedes(t, i, u, j)
        PROVE  e[t].items[i].seq < e[u].items[j].seq
    <3>1. ~At(t, i)
      BY <1>4, <2>1
    <3>2. CASE At(u, j)
      <4>1. e[t].items[i].seq <= n /\ e[t].items[i].seq \in Nat
        BY <1>3, <1>6, <2>1, <3>1 DEF NoneAbove
      <4>. QED
        BY <1>3, <1>6, <3>2, <4>1
    <3>3. CASE ~At(u, j)
      BY <1>3, <1>6, <2>1, <3>1, <3>3 DEF InStrictOrder
    <3>. QED
      BY <3>2, <3>3
  <2>. QED
    BY <2>1 DEF InStrictOrder
<1>. QED
  BY <1>5, <1>6

(* Marking a record changes no seqNo.                                      *)
LEMMA MarkedInOrder ==
    ASSUME NEW d, IsDisk(d), NEW s \in DOMAIN d, NEW n \in 1 .. Len(d[s].items),
           d[s].items[n].good, NEW e, Marks(e, d, s, n)
    PROVE  /\ InOrder(d) => InOrder(e)
           /\ InStrictOrder(d) => InStrictOrder(e)
           /\ \A m : NoneAbove(d, m) => NoneAbove(e, m)
<1>1. ASSUME NEW t \in DOMAIN e, NEW i \in 1 .. Len(e[t].items)
      PROVE  /\ t \in DOMAIN d /\ i \in 1 .. Len(d[t].items)
             /\ e[t].items[i].good => d[t].items[i].good
             /\ e[t].items[i].seq = d[t].items[i].seq
  <2>1. t \in DOMAIN d
    BY DEF Marks
  <2>2. CASE t # s
    BY <2>1, <2>2 DEF Marks
  <2>3. CASE t = s
    BY <2>1, <2>3 DEF Marks
  <2>. QED
    BY <2>2, <2>3
<1>2. InOrder(d) => InOrder(e)
  BY <1>1 DEF InOrder
<1>3. InStrictOrder(d) => InStrictOrder(e)
  BY <1>1 DEF InStrictOrder
<1>4. \A m : NoneAbove(d, m) => NoneAbove(e, m)
  BY <1>1 DEF NoneAbove
<1>. QED
  BY <1>2, <1>3, <1>4

(* No record is above the seqNo of the next append: a sync that failed     *)
(* leaves one with exactly that number, and so do the appends after it.    *)
OrderInv == InOrder(disk) /\ (isOpen => NoneAbove(disk, lastSeqno + 1))

(* When syncs do not fail, only a record under way has that number.        *)
StrictInv == /\ InStrictOrder(disk)
             /\ isOpen /\ ~Appending => NoneAbove(disk, lastSeqno)

LEMMA EmptyIsOrdered ==
    Init => InOrder(disk) /\ InStrictOrder(disk) /\ isOpen = FALSE
<1>1. DOMAIN <<>> = {}
  OBVIOUS
<1>. QED
  BY <1>1 DEF Init, InOrder, InStrictOrder

(* The steps of append() that change what is on disk.                      *)
LEMMA RecordWritten ==
    ASSUME Typed, WriteRecord
    PROVE  \E item \in ItemSet :
              /\ item.good /\ item.seq = lastSeqno + 1 /\ ~item.acked
              /\ isOpen /\ isOpen' /\ IsDisk(disk) /\ IsNewest(disk, activeId)
              /\ activeId \in DOMAIN disk /\ ~Appending /\ Appending'
              /\ Appends(disk', disk, activeId, item)
              /\ lastSeqno' = lastSeqno /\ segMax' = segMax /\ lastSeqno \in Nat
              /\ activeId' = activeId
<1>1. PICK item : item = Item(lastSeqno + 1, op)
  OBVIOUS
<1>2. lastSeqno \in Nat /\ lastSeqno + 1 \in Nat \ {0} /\ op \in Op
  BY DEF Typed
<1>3. item \in ItemSet /\ item.good /\ item.seq = lastSeqno + 1 /\ ~item.acked
  BY <1>1, <1>2, ItemIsGood
<1>4. isOpen /\ Appends(disk', disk, activeId, item)
  BY <1>1, TypedWrite
<1>5. IsDisk(disk) /\ IsNewest(disk, activeId) /\ activeId \in DOMAIN disk
  BY <1>4, ActiveSegment
<1>6. /\ lastSeqno' = lastSeqno /\ segMax' = segMax /\ isOpen' /\ ~Appending /\ Appending'
      /\ activeId' = activeId
  BY <1>4 DEF WriteRecord, Appending
<1>. QED
  BY <1>2, <1>3, <1>4, <1>5, <1>6

LEMMA RecordAcknowledged ==
    ASSUME Typed, Acknowledge
    PROVE  \E n \in 1 .. Len(disk[activeId].items) :
              /\ n = Len(disk[activeId].items)
              /\ disk[activeId].items[n].good /\ disk[activeId].items[n].seq = lastSeqno + 1
              /\ isOpen /\ isOpen' /\ IsDisk(disk) /\ activeId \in DOMAIN disk
              /\ Appending /\ ~Appending'
              /\ Marks(disk', disk, activeId, n)
              /\ lastSeqno' = lastSeqno + 1 /\ lastSeqno \in Nat
              /\ segMax' = Counted(lastSeqno + 1)
              /\ activeId' = activeId
<1>1. /\ isOpen /\ Len(Items) \in 1 .. Len(Items)
      /\ Items[Len(Items)].good /\ Items[Len(Items)].seq = lastSeqno + 1
      /\ Marks(disk', disk, activeId, Len(Items))
  BY TypedAcknowledge
<1>2. Items = disk[activeId].items /\ IsDisk(disk) /\ activeId \in DOMAIN disk
  BY <1>1, ActiveSegment
<1>3. /\ lastSeqno' = lastSeqno + 1 /\ segMax' = Counted(lastSeqno + 1) /\ activeId' = activeId
      /\ isOpen' /\ Appending /\ ~Appending'
  BY <1>1 DEF Acknowledge, Appending
<1>4. lastSeqno \in Nat
  BY DEF Typed
<1>5. PICK n : n = Len(Items)
  OBVIOUS
<1>. QED
  BY <1>1, <1>2, <1>3, <1>4, <1>5

(* What is above a number is above a lower one.                            *)
LEMMA NoneAboveHigher ==
    ASSUME NEW d, IsDisk(d), NEW m \in Nat, NEW n \in Nat, m <= n, NoneAbove(d, m)
    PROVE  NoneAbove(d, n)
<1>1. ASSUME NEW s \in DOMAIN d, NEW i \in 1 .. Len(d[s].items)
      PROVE  d[s].items[i].seq \in Nat
  BY SegmentOf, ItemFields
<1>. QED
  BY <1>1 DEF NoneAbove

LEMMA NoneAboveAtOpen ==
    ASSUME Typed, Open
    PROVE  /\ Keeps(disk', disk) /\ IsDisk(disk') /\ ~isOpen /\ isOpen' /\ ~Appending'
           /\ lastSeqno' \in Nat
           /\ NoneAbove(disk', lastSeqno') /\ NoneAbove(disk', lastSeqno' + 1)
<1>1. IsDisk(disk) /\ floor \in Nat /\ synced \in Nat /\ ~isOpen /\ isOpen' /\ ~Appending'
  BY DEF Typed, Open, Appending
<1>2. Keeps(disk', disk) /\ IsDisk(disk')
  BY <1>1, Opened
<1>3. /\ lastSeqno' \in Nat
      /\ \A s \in DOMAIN disk' : \A i \in 1 .. Len(disk'[s].items) :
            disk'[s].items[i].seq <= lastSeqno'
  BY <1>1, Seeded
<1>4. NoneAbove(disk', lastSeqno')
  BY <1>3 DEF NoneAbove
<1>5. NoneAbove(disk', lastSeqno' + 1)
  <2>1. lastSeqno' + 1 \in Nat /\ lastSeqno' <= lastSeqno' + 1
    BY <1>3
  <2>2. \A m, n \in Nat : m <= n /\ NoneAbove(disk', m) => NoneAbove(disk', n)
    BY <1>2, NoneAboveHigher
  <2>. QED
    BY <1>3, <1>4, <2>1, <2>2
<1>. QED
  BY <1>1, <1>2, <1>3, <1>4, <1>5

LEMMA OrderStep == Typed /\ Typed' /\ OrderInv /\ [Next]_vars => OrderInv'
<1>. SUFFICES ASSUME Typed, Typed', OrderInv, [Next]_vars
              PROVE  OrderInv'
  OBVIOUS
<1>1. CASE GoesDown
  BY <1>1, KeptInOrder DEF GoesDown, OrderInv
<1>2. CASE AddsNothing
  BY <1>2, KeptInOrder DEF AddsNothing, OrderInv
<1>3. CASE Open
  BY <1>3, NoneAboveAtOpen, KeptInOrder DEF OrderInv
<1>4. CASE WriteRecord
  <2>1. PICK item \in ItemSet :
            /\ item.good /\ item.seq = lastSeqno + 1
            /\ isOpen /\ IsDisk(disk) /\ IsNewest(disk, activeId)
            /\ Appends(disk', disk, activeId, item) /\ lastSeqno' = lastSeqno
    BY <1>4, RecordWritten
  <2>2. InOrder(disk) /\ NoneAbove(disk, item.seq)
    BY <2>1 DEF OrderInv
  <2>3. InOrder(disk') /\ NoneAbove(disk', item.seq)
    BY <2>1, <2>2, AppendedInOrder
  <2>. QED
    BY <2>1, <2>3 DEF OrderInv
<1>5. CASE Acknowledge
  <2>1. PICK n \in 1 .. Len(disk[activeId].items) :
            /\ disk[activeId].items[n].good
            /\ isOpen /\ IsDisk(disk) /\ activeId \in DOMAIN disk
            /\ Marks(disk', disk, activeId, n)
            /\ lastSeqno' = lastSeqno + 1 /\ lastSeqno \in Nat
    BY <1>5, RecordAcknowledged
  <2>2. InOrder(disk') /\ NoneAbove(disk', lastSeqno + 1)
    BY <2>1, MarkedInOrder DEF OrderInv
  <2>3. NoneAbove(disk', lastSeqno' + 1)
    <3>1. IsDisk(disk') /\ lastSeqno + 1 \in Nat /\ lastSeqno' + 1 \in Nat
          /\ lastSeqno + 1 <= lastSeqno' + 1
      BY <2>1 DEF Marks
    <3>2. \A m, n1 \in Nat : m <= n1 /\ NoneAbove(disk', m) => NoneAbove(disk', n1)
      BY <3>1, NoneAboveHigher
    <3>. QED
      BY <2>2, <3>1, <3>2
  <2>. QED
    BY <2>2, <2>3 DEF OrderInv
<1>6. CASE SyncRecord \/ SyncFails \/ UNCHANGED vars
  <2>1. disk' = disk /\ isOpen' = isOpen /\ lastSeqno' = lastSeqno
    BY <1>6 DEF SyncRecord, SyncFails, Throw, vars, memoryVars
  <2>. QED
    BY <2>1 DEF OrderInv
<1>. QED
  BY <1>1, <1>2, <1>3, <1>4, <1>5, <1>6, KindsOfSteps

LEMMA StrictStep ==
    ASSUME "sync" \notin Faults
    PROVE  Typed /\ Typed' /\ OrderInv /\ StrictInv /\ [Next]_vars => StrictInv'
<1>. SUFFICES ASSUME Typed, Typed', OrderInv, StrictInv, [Next]_vars
              PROVE  StrictInv'
  OBVIOUS
<1>1. CASE GoesDown
  BY <1>1, KeptInOrder DEF GoesDown, StrictInv
<1>2. CASE AddsNothing
  BY <1>2, KeptInOrder DEF AddsNothing, StrictInv
<1>3. CASE Open
  BY <1>3, NoneAboveAtOpen, KeptInOrder DEF StrictInv
<1>4. CASE WriteRecord
  <2>1. PICK item \in ItemSet :
            /\ item.good /\ item.seq = lastSeqno + 1
            /\ isOpen /\ IsDisk(disk) /\ IsNewest(disk, activeId) /\ ~Appending /\ Appending'
            /\ Appends(disk', disk, activeId, item) /\ lastSeqno \in Nat
    BY <1>4, RecordWritten
  <2>2. InStrictOrder(disk) /\ NoneAbove(disk, lastSeqno)
    BY <2>1 DEF StrictInv
  <2>3. InStrictOrder(disk')
    BY <2>1, <2>2, AppendedInOrder
  <2>. QED
    BY <2>1, <2>3 DEF StrictInv
<1>5. CASE Acknowledge
  <2>1. PICK n \in 1 .. Len(disk[activeId].items) :
            /\ disk[activeId].items[n].good
            /\ isOpen /\ IsDisk(disk) /\ activeId \in DOMAIN disk
            /\ Marks(disk', disk, activeId, n)
            /\ lastSeqno' = lastSeqno + 1
    BY <1>5, RecordAcknowledged
  <2>2. InStrictOrder(disk') /\ NoneAbove(disk', lastSeqno + 1)
    BY <2>1, MarkedInOrder DEF OrderInv, StrictInv
  <2>. QED
    BY <2>1, <2>2 DEF StrictInv
<1>6. CASE SyncRecord
  <2>1. disk' = disk /\ Appending'
    BY <1>6 DEF SyncRecord, Appending
  <2>. QED
    BY <2>1 DEF StrictInv
<1>7. CASE SyncFails
  BY <1>7 DEF SyncFails
<1>8. CASE UNCHANGED vars
  <2>1. disk' = disk /\ isOpen' = isOpen /\ lastSeqno' = lastSeqno /\ pc' = pc
    BY <1>8 DEF vars, memoryVars
  <2>. QED
    BY <2>1 DEF StrictInv, Appending
<1>. QED
  BY <1>1, <1>2, <1>3, <1>4, <1>5, <1>6, <1>7, <1>8, KindsOfSteps

(* What is replayed is among the good items.                               *)
LEMMA ReplayedIsGood ==
    ASSUME IsDisk(disk), NEW p \in Replayed
    PROVE  /\ p = <<p[1], p[2]>> /\ p[1] \in DOMAIN disk
           /\ p[2] \in 1 .. Len(disk[p[1]].items)
           /\ disk[p[1]].items[p[2]].good /\ ItemAt(p) = disk[p[1]].items[p[2]]
<1>1. PICK s \in DOMAIN disk : p \in {s} \X DOMAIN Readable(disk[s])
  BY DEF Replayed
<1>2. p[1] = s /\ p[2] \in DOMAIN Readable(disk[s]) /\ p = <<p[1], p[2]>>
  BY <1>1
<1>3. disk[s] \in Segments /\ Len(disk[s].items) \in Nat
  BY SegmentOf DEF IsDisk
<1>4. /\ Len(Readable(disk[s])) \in 0 .. Len(disk[s].items)
      /\ DOMAIN Readable(disk[s]) = 1 .. Len(Readable(disk[s]))
      /\ \A i \in 1 .. Len(Readable(disk[s])) : disk[s].items[i].good
  BY <1>3, ReadableItems
<1>. QED
  BY <1>2, <1>3, <1>4 DEF ItemAt

LEMMA OrderedReplay ==
    /\ Typed /\ OrderInv => ReplayNeverGoesBack
    /\ Typed /\ StrictInv => ReplayInWriteOrder
<1>1. ASSUME Typed, NEW p \in Replayed, NEW q \in Replayed, Before(p, q)
      PROVE  /\ Precedes(p[1], p[2], q[1], q[2])
             /\ InOrder(disk) => ItemAt(p).seq <= ItemAt(q).seq
             /\ InStrictOrder(disk) => ItemAt(p).seq < ItemAt(q).seq
  <2>1. IsDisk(disk)
    BY <1>1 DEF Typed
  <2>2. /\ p[1] \in DOMAIN disk /\ p[2] \in 1 .. Len(disk[p[1]].items)
        /\ disk[p[1]].items[p[2]].good /\ ItemAt(p) = disk[p[1]].items[p[2]]
        /\ q[1] \in DOMAIN disk /\ q[2] \in 1 .. Len(disk[q[1]].items)
        /\ disk[q[1]].items[q[2]].good /\ ItemAt(q) = disk[q[1]].items[q[2]]
    BY <2>1, ReplayedIsGood
  <2>3. Precedes(p[1], p[2], q[1], q[2])
    BY <1>1 DEF Before, Precedes
  <2>. QED
    BY <2>2, <2>3 DEF InOrder, InStrictOrder
<1>. QED
  BY <1>1 DEF ReplayNeverGoesBack, ReplayInWriteOrder, OrderInv, StrictInv

(* Whatever call fails, and wherever a crash or a power cut falls, a       *)
(* restart never replays an older write after a newer one.                 *)
THEOREM ReplayNeverGoesBackHolds == Spec => []ReplayNeverGoesBack
<1>1. Init => OrderInv
  BY EmptyIsOrdered DEF OrderInv
<1>. QED
  BY <1>1, AlwaysTyped, OrderStep, OrderedReplay, PTL DEF Spec

(* When syncs do not fail, no seqNo is replayed twice either.              *)
THEOREM ReplayInWriteOrderHolds == "sync" \notin Faults => (Spec => []ReplayInWriteOrder)
<1>. SUFFICES ASSUME "sync" \notin Faults
              PROVE  Spec => []ReplayInWriteOrder
  OBVIOUS
<1>1. Init => OrderInv /\ StrictInv
  BY EmptyIsOrdered DEF OrderInv, StrictInv
<1>2. Typed /\ Typed' /\ OrderInv /\ StrictInv /\ [Next]_vars => StrictInv'
  BY StrictStep
<1>. QED
  BY <1>1, <1>2, AlwaysTyped, OrderStep, OrderedReplay, PTL DEF Spec

-----------------------------------------------------------------------------
(* Cleanup.                                                                *)

(* segment_max_seqno_ is no lower than any acknowledged record of its      *)
(* segment, however the calls before ended.                                *)
Known(d, m) ==
    \A s \in DOMAIN d : s \in DOMAIN m =>
        \A i \in 1 .. Len(d[s].items) : d[s].items[i].acked => d[s].items[i].seq <= m[s]
CleanupInv == isOpen => Known(disk, segMax)

LEMMA KeptKnown ==
    ASSUME NEW d1, IsDisk(d1), NEW d2, IsDisk(d2), Keeps(d2, d1), NEW m1, NEW m2, Known(d1, m1),
           \A s \in DOMAIN m2 : s \in DOMAIN m1 /\ m2[s] = m1[s]
    PROVE  Known(d2, m2)
<1>1. ASSUME NEW s \in DOMAIN d2, s \in DOMAIN m2, NEW i \in 1 .. Len(d2[s].items),
             d2[s].items[i].acked
      PROVE  d2[s].items[i].seq <= m2[s]
  <2>1. d2[s].items[i].good
    BY <1>1, SegmentOf, ItemFields
  <2>2. /\ s \in DOMAIN d1 /\ i \in 1 .. Len(d1[s].items)
        /\ d2[s].items[i] = d1[s].items[i]
    BY <2>1 DEF Keeps
  <2>3. s \in DOMAIN m1 /\ m2[s] = m1[s]
    BY <1>1
  <2>. QED
    BY <1>1, <2>2, <2>3 DEF Known
<1>. QED
  BY <1>1 DEF Known

LEMMA CleanupStep == Typed /\ Typed' /\ OrderInv /\ CleanupInv /\ [Next]_vars => CleanupInv'
<1>. SUFFICES ASSUME Typed, Typed', OrderInv, CleanupInv, [Next]_vars, isOpen'
              PROVE  Known(disk', segMax')
  BY DEF CleanupInv
<1>1. CASE GoesDown
  BY <1>1 DEF GoesDown
<1>2. CASE AddsNothing
  <2>1. /\ IsDisk(disk) /\ IsDisk(disk') /\ Keeps(disk', disk) /\ Known(disk, segMax)
        /\ \A s \in DOMAIN segMax' : s \in DOMAIN segMax /\ segMax'[s] = segMax[s]
    BY <1>2 DEF AddsNothing, CleanupInv, KnowsNoMore, Typed
  <2>. QED
    BY <2>1, KeptKnown
<1>3. CASE Open
  <2>1. IsDisk(disk) /\ floor \in Nat /\ synced \in Nat
    BY DEF Typed
  <2>2. \A s \in DOMAIN segMax' : \A i \in 1 .. Len(disk'[s].items) :
            disk'[s].items[i].seq <= segMax'[s]
    BY <1>3, <2>1, Seeded
  <2>. QED
    BY <2>2 DEF Known
<1>4. CASE WriteRecord
  <2>1. PICK item \in ItemSet :
            /\ ~item.acked /\ isOpen /\ IsDisk(disk) /\ activeId \in DOMAIN disk
            /\ Appends(disk', disk, activeId, item) /\ segMax' = segMax
    BY <1>4, RecordWritten
  <2>2. ASSUME NEW s \in DOMAIN disk', s \in DOMAIN segMax',
               NEW i \in 1 .. Len(disk'[s].items), disk'[s].items[i].acked
        PROVE  disk'[s].items[i].seq <= segMax'[s]
    <3>1. s \in DOMAIN disk
      BY <2>1 DEF Appends
    <3>2. i \in 1 .. Len(disk[s].items) /\ disk'[s].items[i] = disk[s].items[i]
      <4>1. CASE s # activeId
        BY <2>1, <3>1, <4>1 DEF Appends
      <4>2. CASE s = activeId
        <5>1. /\ Len(disk'[activeId].items) = Len(disk[activeId].items) + 1
              /\ Len(disk[activeId].items) \in Nat
              /\ \A j \in 1 .. Len(disk[activeId].items) :
                    disk'[activeId].items[j] = disk[activeId].items[j]
              /\ disk'[activeId].items[Len(disk[activeId].items) + 1] = item
          BY <2>1, SegmentOf DEF Appends
        <5>. QED
          BY <2>1, <2>2, <4>2, <5>1
      <4>. QED
        BY <4>1, <4>2
    <3>. QED
      BY <2>1, <2>2, <3>1, <3>2 DEF CleanupInv, Known
  <2>. QED
    BY <2>2 DEF Known
<1>5. CASE Acknowledge
  <2>1. PICK n \in 1 .. Len(disk[activeId].items) :
            /\ isOpen /\ IsDisk(disk) /\ activeId \in DOMAIN disk
            /\ disk[activeId].items[n].good /\ disk[activeId].items[n].seq = lastSeqno + 1
            /\ Marks(disk', disk, activeId, n)
            /\ lastSeqno \in Nat /\ segMax' = Counted(lastSeqno + 1)
    BY <1>5, RecordAcknowledged
  <2>2. NoneAbove(disk, lastSeqno + 1) /\ Known(disk, segMax)
    BY <2>1 DEF OrderInv, CleanupInv
  <2>3. ASSUME NEW s \in DOMAIN disk', s \in DOMAIN segMax',
               NEW i \in 1 .. Len(disk'[s].items), disk'[s].items[i].acked
        PROVE  disk'[s].items[i].seq <= segMax'[s]
    <3>1. s \in DOMAIN disk
      BY <2>1 DEF Marks
    <3>2. CASE s = activeId
      <4>1. segMax'[s] = lastSeqno + 1
        BY <2>1, <3>2 DEF Counted, Put
      <4>2. NoneAbove(disk', lastSeqno + 1)
        BY <2>1, <2>2, MarkedInOrder
      <4>3. IsDisk(disk')
        BY <2>1 DEF Marks
      <4>4. disk'[s].items[i].good
        BY <2>3, <4>3, SegmentOf, ItemFields
      <4>. QED
        BY <4>1, <4>2, <4>4 DEF NoneAbove
    <3>3. CASE s # activeId
      <4>1. s \in DOMAIN segMax /\ segMax'[s] = segMax[s]
        BY <2>1, <2>3, <3>3 DEF Counted, Put
      <4>2. disk'[s] = disk[s]
        BY <2>1, <3>1, <3>3 DEF Marks
      <4>. QED
        BY <2>2, <2>3, <3>1, <4>1, <4>2 DEF Known
    <3>. QED
      BY <3>2, <3>3
  <2>. QED
    BY <2>3 DEF Known
<1>6. CASE SyncRecord \/ SyncFails \/ UNCHANGED vars
  <2>1. disk' = disk /\ isOpen' = isOpen /\ segMax' = segMax
    BY <1>6 DEF SyncRecord, SyncFails, Throw, vars, memoryVars
  <2>. QED
    BY <2>1 DEF CleanupInv
<1>. QED
  BY <1>1, <1>2, <1>3, <1>4, <1>5, <1>6, KindsOfSteps

LEMMA InAcknowledged ==
    ASSUME NEW d, IsDisk(d)
    PROVE  /\ \A n \in AcknowledgedSeqnos(d) : \E s \in DOMAIN d : \E i \in 1 .. Len(d[s].items) :
                 d[s].items[i].acked /\ n = d[s].items[i].seq
           /\ \A s \in DOMAIN d : \A i \in 1 .. Len(d[s].items) :
                 d[s].items[i].acked => d[s].items[i].seq \in AcknowledgedSeqnos(d)
<1>1. \A s \in DOMAIN d : DOMAIN d[s].items = 1 .. Len(d[s].items)
  BY SegmentOf
<1>2. ASSUME NEW n \in AcknowledgedSeqnos(d)
      PROVE  \E s \in DOMAIN d : \E i \in 1 .. Len(d[s].items) :
                 d[s].items[i].acked /\ n = d[s].items[i].seq
  <2>1. PICK s \in DOMAIN d : n \in {i.seq : i \in {j \in Range(d[s].items) : j.acked}}
    BY DEF AcknowledgedSeqnos
  <2>2. PICK j \in Range(d[s].items) : j.acked /\ n = j.seq
    BY <2>1
  <2>3. PICK i \in DOMAIN d[s].items : j = d[s].items[i]
    BY DEF Range
  <2>. QED
    BY <1>1, <2>2, <2>3
<1>3. ASSUME NEW s \in DOMAIN d, NEW i \in 1 .. Len(d[s].items), d[s].items[i].acked
      PROVE  d[s].items[i].seq \in AcknowledgedSeqnos(d)
  <2>1. d[s].items[i] \in Range(d[s].items)
    BY <1>1 DEF Range
  <2>2. d[s].items[i] \in {j \in Range(d[s].items) : j.acked}
    BY <1>3, <2>1
  <2>3. d[s].items[i].seq \in {j.seq : j \in {k \in Range(d[s].items) : k.acked}}
    BY <2>2
  <2>. QED
    BY <2>3 DEF AcknowledgedSeqnos
<1>. QED
  BY <1>2, <1>3

LEMMA RetainedAcknowledged ==
    ASSUME NEW d1, IsDisk(d1), NEW d2, IsDisk(d2), Retains(d2, d1)
    PROVE  AcknowledgedSeqnos(d1) \subseteq AcknowledgedSeqnos(d2)
<1>1. ASSUME NEW n \in AcknowledgedSeqnos(d1)
      PROVE  n \in AcknowledgedSeqnos(d2)
  <2>1. PICK s \in DOMAIN d1 : \E i \in 1 .. Len(d1[s].items) :
            d1[s].items[i].acked /\ n = d1[s].items[i].seq
    BY InAcknowledged
  <2>2. PICK i \in 1 .. Len(d1[s].items) : d1[s].items[i].acked /\ n = d1[s].items[i].seq
    BY <2>1
  <2>3. s \in DOMAIN d2 /\ Len(d1[s].items) <= Len(d2[s].items)
    BY DEF Retains
  <2>4. i \in 1 .. Len(d2[s].items)
    BY <2>3, SegmentOf
  <2>5. d2[s].items[i].acked /\ d2[s].items[i].seq = n
    BY <2>2 DEF Retains
  <2>. QED
    BY <2>3, <2>4, <2>5, InAcknowledged
<1>. QED
  BY <1>1

KeepsUncovered ==
    isOpen /\ isOpen' =>
        \A n \in AcknowledgedSeqnos(disk) \ AcknowledgedSeqnos(disk') : n <= floor'

LEMMA UncoveredStay == Typed /\ Typed' /\ CleanupInv /\ [Next]_vars => KeepsUncovered
<1>. SUFFICES ASSUME Typed, Typed', CleanupInv, [Next]_vars, isOpen, isOpen',
                     NEW n \in AcknowledgedSeqnos(disk) \ AcknowledgedSeqnos(disk')
              PROVE  n <= floor'
  BY DEF KeepsUncovered
<1>1. IsDisk(disk) /\ IsDisk(disk')
  BY DEF Typed
<1>2. ~Retains(disk', disk)
  BY <1>1, RetainedAcknowledged
<1>3. CASE GoesDown
  BY <1>3 DEF GoesDown
<1>4. CASE AddsNothing
  <2>1. PICK w \in 0 .. lastSeqno : RemoveSegmentsCovered(w)
    BY <1>2, <1>4 DEF AddsNothing
  <2>2. /\ \A s \in DOMAIN disk' : disk'[s] = disk[s]
        /\ \A s \in DOMAIN disk \ DOMAIN disk' : s \in DOMAIN segMax /\ segMax[s] <= w
        /\ floor' \in Nat /\ w <= floor'
    BY <2>1, RemovedSegments
  <2>3. PICK s \in DOMAIN disk : \E i \in 1 .. Len(disk[s].items) :
            disk[s].items[i].acked /\ n = disk[s].items[i].seq
    BY <1>1, InAcknowledged
  <2>4. PICK i \in 1 .. Len(disk[s].items) :
            disk[s].items[i].acked /\ n = disk[s].items[i].seq
    BY <2>3
  <2>5. s \notin DOMAIN disk'
    BY <1>1, <2>2, <2>4, InAcknowledged
  <2>6. s \in DOMAIN segMax /\ segMax[s] <= w
    BY <2>2, <2>5
  <2>7. n <= segMax[s]
    BY <2>4, <2>6 DEF CleanupInv, Known
  <2>8. n \in Nat /\ segMax[s] \in Nat /\ w \in Nat
    <3>1. IsDisk(disk) /\ segMax \in [DOMAIN segMax -> Nat] /\ lastSeqno \in Nat
      BY DEF Typed
    <3>2. disk[s].items[i].seq \in Nat
      BY <3>1, SegmentOf, ItemFields
    <3>3. segMax[s] \in Nat
      BY <2>6, <3>1
    <3>. QED
      BY <2>4, <3>1, <3>2, <3>3
  <2>9. floor' \in Nat /\ w <= floor'
    BY <2>2
  <2>10. n <= w
    BY <2>6, <2>7, <2>8
  <2>. QED
    BY <2>8, <2>9, <2>10
<1>5. CASE Open
  BY <1>5 DEF Open
<1>6. CASE WriteRecord
  BY <1>2, <1>6, RecordWritten, AppendsRetains
<1>7. CASE Acknowledge
  BY <1>2, <1>7, RecordAcknowledged, MarksRetains
<1>8. CASE SyncRecord \/ SyncFails \/ UNCHANGED vars
  <2>1. disk' = disk
    BY <1>8 DEF SyncRecord, SyncFails, vars
  <2>. QED
    BY <1>1, <1>2, <2>1, SameRetains
<1>. QED
  BY <1>3, <1>4, <1>5, <1>6, <1>7, <1>8, KindsOfSteps

(* While the log is open an acknowledged record goes only with a segment   *)
(* that the watermark covers, even after calls that failed half way.       *)
THEOREM CleanupKeepsUncoveredHolds == Spec => CleanupKeepsUncovered
<1>1. Init => OrderInv /\ CleanupInv
  BY EmptyIsOrdered DEF OrderInv, CleanupInv
<1>2. Spec => [][KeepsUncovered]_vars
  BY <1>1, AlwaysTyped, OrderStep, CleanupStep, UncoveredStay, PTL DEF Spec
<1>. QED
  BY <1>2 DEF CleanupKeepsUncovered, KeepsUncovered

-----------------------------------------------------------------------------
(* What is acknowledged is replayed, as long as neither a write nor the    *)
(* header of a new segment fails without a crash.                          *)

(* A segment without a header has no items, and a torn one is the last.    *)
Whole(d) ==
    \A s \in DOMAIN d :
        /\ Len(d[s].items) # 0 => d[s].hdr
        /\ \A i \in 1 .. Len(d[s].items) : ~d[s].items[i].good => i = Len(d[s].items)
(* The segment that is appended to has a header, and no torn item.         *)
Sound(g) == g.hdr /\ \A i \in 1 .. Len(g.items) : g.items[i].good

WholeInv == Whole(disk) /\ (isOpen => Sound(disk[activeId]))

LEMMA WholeInit == Init => WholeInv
<1>1. DOMAIN <<>> = {}
  OBVIOUS
<1>. QED
  BY <1>1 DEF Init, WholeInv, Whole

LEMMA WholeAdds ==
    ASSUME NEW d, NEW e, NEW n, NEW g, Adds(e, d, n, g), Whole(d)
    PROVE  Whole(e) /\ (g.hdr => Sound(e[n]))
<1>1. \A i \in 1 .. 0 : FALSE
  OBVIOUS
<1>. QED
  BY <1>1 DEF Adds, Whole, Sound

LEMMA WholeSurvives ==
    ASSUME IsDisk(disk), DOMAIN disk # {}, Whole(disk), NEW n \in 0 .. Len(Items),
           NEW left \in Survivors(n), disk' = [disk EXCEPT ![Newest].items = left]
    PROVE  Whole(disk')
<1>1. /\ Newest \in DOMAIN disk /\ Items \in Seq(ItemSet) /\ Len(Items) \in Nat
      /\ DOMAIN disk' = DOMAIN disk
      /\ disk'[Newest].items = left /\ disk'[Newest].hdr = disk[Newest].hdr
      /\ \A t \in DOMAIN disk \ {Newest} : disk'[t] = disk[t]
      /\ Len(left) \in Nat
  BY Survived
<1>2. /\ Len(left) \in n .. n + 1 /\ Len(left) <= Len(Items)
      /\ \A i \in 1 .. n : left[i] = Items[i]
  BY <1>1, SurvivingItems
<1>3. Items = disk[Newest].items
  BY DEF Items
<1>4. /\ Len(Items) # 0 => disk[Newest].hdr
      /\ \A i \in 1 .. Len(Items) : ~Items[i].good => i = Len(Items)
  BY <1>1, <1>3 DEF Whole
<1>5. Len(left) # 0 => disk[Newest].hdr
  BY <1>1, <1>2, <1>4
<1>6. ASSUME NEW i \in 1 .. Len(left), ~left[i].good
      PROVE  i = Len(left)
  <2>1. CASE i \in 1 .. n
    <3>1. i \in 1 .. Len(Items) /\ ~Items[i].good
      BY <1>1, <1>2, <1>6, <2>1
    <3>. QED
      BY <1>1, <1>2, <1>4, <2>1, <3>1
  <2>2. CASE i = n + 1
    BY <1>1, <1>2, <2>2
  <2>. QED
    BY <1>1, <1>2, <2>1, <2>2
<1>7. ASSUME NEW s \in DOMAIN disk'
      PROVE  /\ Len(disk'[s].items) # 0 => disk'[s].hdr
             /\ \A i \in 1 .. Len(disk'[s].items) :
                   ~disk'[s].items[i].good => i = Len(disk'[s].items)
  <2>1. CASE s = Newest
    BY <1>1, <1>5, <1>6, <2>1
  <2>2. CASE s # Newest
    BY <1>1, <2>2 DEF Whole
  <2>. QED
    BY <2>1, <2>2
<1>. QED
  BY <1>7 DEF Whole

LEMMA WholeStep ==
    ASSUME {"write", "header"} \cap Faults = {}
    PROVE  Typed /\ Typed' /\ WholeInv /\ [Next]_vars => WholeInv'
<1>. SUFFICES ASSUME Typed, Typed', WholeInv, [Next]_vars
              PROVE  WholeInv'
  OBVIOUS
<1>1. CASE Open
  <2>1. IsDisk(disk) /\ floor \in Nat /\ synced \in Nat
    BY DEF Typed
  <2>2. /\ IsDisk(disk') /\ IsNewest(disk', activeId')
        /\ DOMAIN disk' = DOMAIN disk \cup {activeId'}
        /\ IF DOMAIN disk = {} THEN activeId' = 1 /\ disk'[1] = NewSegment(TRUE)
           ELSE activeId' = Newest
        /\ \A s \in DOMAIN disk : disk'[s].items = Readable(disk[s])
        /\ \A s \in DOMAIN disk : disk'[s].hdr = (disk[s].hdr \/ s = activeId')
        /\ disk'[activeId'].hdr
    BY <1>1, <2>1, Opened
  <2>3. ASSUME NEW s \in DOMAIN disk'
        PROVE  /\ Len(disk'[s].items) # 0 => disk'[s].hdr
               /\ \A i \in 1 .. Len(disk'[s].items) : disk'[s].items[i].good
    <3>1. CASE s \in DOMAIN disk
      <4>1. disk[s] \in Segments /\ disk[s].hdr \in BOOLEAN
        BY <2>1, <3>1, SegmentOf DEF IsDisk
      <4>2. \A i \in 1 .. Len(disk'[s].items) : disk'[s].items[i].good
        BY <2>2, <3>1, <4>1, ReadableItems
      <4>3. CASE disk[s].hdr
        BY <2>2, <3>1, <4>2, <4>3
      <4>4. CASE ~disk[s].hdr
        <5>1. disk'[s].items = <<>>
          BY <2>2, <3>1, <4>4 DEF Readable
        <5>. QED
          BY <4>2, <5>1, EmptySeq
      <4>. QED
        BY <4>1, <4>3, <4>4
    <3>2. CASE s \notin DOMAIN disk
      <4>1. DOMAIN disk = {} /\ s = 1
        BY <2>1, <2>2, <3>2, NewestOf DEF IsNewest, Newest
      <4>2. disk'[s].items = <<>>
        BY <2>2, <4>1 DEF NewSegment
      <4>. QED
        BY <4>2, EmptySeq
    <3>. QED
      BY <3>1, <3>2
  <2>4. Whole(disk')
    BY <2>3 DEF Whole
  <2>5. Sound(disk'[activeId'])
    BY <2>2, <2>3 DEF Sound, IsNewest
  <2>. QED
    BY <2>4, <2>5 DEF WholeInv
<1>2. CASE Roll \/ RollForSize
  <2>1. isOpen /\ RollSegment /\ pc' \in {"idle", "write"} /\ activeId' = activeId + 1
    BY <1>2 DEF Roll, RollForSize, Typed, RollSegment
  <2>2. Adds(disk', disk, activeId + 1, NewSegment(TRUE)) /\ NewSegment(TRUE).hdr
    BY <2>1, TypedRoll DEF NewSegment
  <2>3. Whole(disk') /\ Sound(disk'[activeId + 1])
    BY <2>2, WholeAdds DEF WholeInv
  <2>. QED
    BY <2>1, <2>3 DEF WholeInv
<1>3. CASE CrashInRoll
  <2>1. isOpen /\ ~isOpen' /\ disk' = Put(disk, activeId + 1, NewSegment(FALSE))
    BY <1>3 DEF CrashInRoll, Die
  <2>2. Adds(disk', disk, activeId + 1, NewSegment(FALSE))
    BY <2>1, SegmentStarted DEF FreshSegments
  <2>. QED
    BY <2>1, <2>2, WholeAdds DEF WholeInv
<1>4. CASE WriteRecord
  <2>1. PICK item \in ItemSet :
            /\ item.good /\ isOpen /\ IsDisk(disk) /\ activeId \in DOMAIN disk
            /\ Appends(disk', disk, activeId, item) /\ activeId' = activeId
    BY <1>4, RecordWritten
  <2>2. Whole(disk) /\ Sound(disk[activeId])
    BY <2>1 DEF WholeInv
  <2>3. Sound(disk'[activeId])
    <3>1. /\ disk'[activeId].hdr = disk[activeId].hdr
          /\ Len(disk'[activeId].items) = Len(disk[activeId].items) + 1
          /\ \A i \in 1 .. Len(disk[activeId].items) :
                disk'[activeId].items[i] = disk[activeId].items[i]
          /\ disk'[activeId].items[Len(disk[activeId].items) + 1] = item
          /\ Len(disk[activeId].items) \in Nat
      BY <2>1, SegmentOf DEF Appends
    <3>2. ASSUME NEW i \in 1 .. Len(disk'[activeId].items)
          PROVE  disk'[activeId].items[i].good
      <4>1. CASE i \in 1 .. Len(disk[activeId].items)
        BY <2>2, <3>1, <4>1 DEF Sound
      <4>2. CASE i = Len(disk[activeId].items) + 1
        BY <2>1, <3>1, <4>2
      <4>3. \A n \in Nat : \A k \in 1 .. n + 1 : k \in 1 .. n \/ k = n + 1
        OBVIOUS
      <4>4. i \in 1 .. Len(disk[activeId].items) + 1 /\ Len(disk[activeId].items) \in Nat
        BY ONLY <3>1, i \in 1 .. Len(disk'[activeId].items)
      <4>5. i \in 1 .. Len(disk[activeId].items) \/ i = Len(disk[activeId].items) + 1
        BY ONLY <4>3, <4>4
      <4>. QED
        BY <4>1, <4>2, <4>5
    <3>. QED
      BY <2>2, <3>1, <3>2 DEF Sound
  <2>4. Whole(disk')
    <3>1. ASSUME NEW s \in DOMAIN disk'
          PROVE  s \in DOMAIN disk /\ (s # activeId => disk'[s] = disk[s])
      BY <2>1 DEF Appends
    <3>. QED
      BY <2>2, <2>3, <3>1 DEF Whole, Sound
  <2>. QED
    BY <2>1, <2>3, <2>4 DEF WholeInv
<1>5. CASE Acknowledge
  <2>1. PICK n \in 1 .. Len(disk[activeId].items) :
            /\ disk[activeId].items[n].good
            /\ isOpen /\ IsDisk(disk) /\ activeId \in DOMAIN disk
            /\ Marks(disk', disk, activeId, n) /\ activeId' = activeId
    BY <1>5, RecordAcknowledged
  <2>2. Whole(disk) /\ Sound(disk[activeId])
    BY <2>1 DEF WholeInv
  <2>3. Sound(disk'[activeId])
    <3>1. /\ disk'[activeId].hdr = disk[activeId].hdr
          /\ Len(disk'[activeId].items) = Len(disk[activeId].items)
          /\ \A i \in 1 .. Len(disk[activeId].items) : i # n =>
                disk'[activeId].items[i] = disk[activeId].items[i]
          /\ disk'[activeId].items[n].good
      BY <2>1 DEF Marks
    <3>. QED
      BY <2>2, <3>1 DEF Sound
  <2>4. Whole(disk')
    <3>1. ASSUME NEW s \in DOMAIN disk'
          PROVE  s \in DOMAIN disk /\ (s # activeId => disk'[s] = disk[s])
      BY <2>1 DEF Marks
    <3>. QED
      BY <2>2, <2>3, <3>1 DEF Whole, Sound
  <2>. QED
    BY <2>1, <2>3, <2>4 DEF WholeInv
<1>6. CASE \E w \in 0 .. lastSeqno : RemoveSegmentsCovered(w)
  <2>1. /\ activeId \in DOMAIN disk' /\ DOMAIN disk' \subseteq DOMAIN disk
        /\ \A s \in DOMAIN disk' : disk'[s] = disk[s]
    BY <1>6, RemovedSegments
  <2>2. isOpen /\ activeId' = activeId
    BY <1>6 DEF RemoveSegmentsCovered
  <2>. QED
    BY <2>1, <2>2 DEF WholeInv, Whole
<1>7. CASE Sync \/ Close \/ (\E o \in Op : BeginAppend(o)) \/ SyncRecord \/ SyncFails
           \/ NoNextFile \/ UNCHANGED vars
  <2>1. disk' = disk /\ activeId' = activeId /\ (isOpen' => isOpen)
    BY <1>7 DEF Sync, Close, BeginAppend, SyncRecord, SyncFails, NoNextFile, Throw, vars,
                memoryVars
  <2>. QED
    BY <2>1 DEF WholeInv
<1>8. CASE ProcessCrash
  <2>1. IsDisk(disk) /\ ~isOpen'
    BY <1>8, CrashedIn DEF Typed
  <2>2. Whole(disk')
    BY <1>8, <2>1, CrashedIn, WholeSurvives DEF WholeInv
  <2>. QED
    BY <2>1, <2>2 DEF WholeInv
<1>9. CASE PowerCut
  <2>1. IsDisk(disk) /\ ~isOpen'
    BY <1>9, PowerWasCut DEF Typed
  <2>2. Whole(disk')
    BY <1>9, <2>1, PowerWasCut, WholeSurvives DEF WholeInv
  <2>. QED
    BY <2>1, <2>2 DEF WholeInv
<1>10. CASE WriteFails \/ HeaderFails
  BY <1>10 DEF WriteFails, HeaderFails
<1>. QED
  BY <1>1, <1>2, <1>3, <1>4, <1>5, <1>6, <1>7, <1>8, <1>9, <1>10 DEF Next

(* A restart then reads back every good item.                              *)
LEMMA GoodIsReplayed ==
    ASSUME Typed, WholeInv, NEW s \in DOMAIN disk, NEW i \in 1 .. Len(disk[s].items),
           disk[s].items[i].good
    PROVE  <<s, i>> \in Replayed
<1>1. /\ IsDisk(disk) /\ disk[s] \in Segments /\ disk[s].hdr \in BOOLEAN
      /\ Len(disk[s].items) \in Nat
  BY SegmentOf DEF Typed, IsDisk
<1>2. /\ disk[s].hdr
      /\ \A j \in 1 .. Len(disk[s].items) :
            ~disk[s].items[j].good => j = Len(disk[s].items)
  BY <1>1 DEF WholeInv, Whole
<1>3. PICK n : n = Len(Readable(disk[s]))
  OBVIOUS
<1>4. /\ n \in 0 .. Len(disk[s].items) /\ DOMAIN Readable(disk[s]) = 1 .. n
      /\ n = Len(disk[s].items) \/ ~disk[s].items[n + 1].good
  BY <1>1, <1>2, <1>3, ReadableItems
<1>5. i \in 1 .. n
  <2>1. CASE n = Len(disk[s].items)
    BY <1>1, <2>1
  <2>2. CASE n # Len(disk[s].items)
    <3>1. n + 1 \in 1 .. Len(disk[s].items) /\ ~disk[s].items[n + 1].good
      BY <1>1, <1>4, <2>2
    <3>2. n + 1 = Len(disk[s].items)
      BY <1>2, <3>1
    <3>3. i # n + 1
      <4>1. CASE i = n + 1
        BY <1>1, <3>1, <4>1
      <4>. QED
        BY <4>1
    <3>. QED
      BY <1>1, <1>4, <3>2, <3>3
  <2>. QED
    BY <2>1, <2>2
<1>6. <<s, i>> \in {s} \X DOMAIN Readable(disk[s])
  BY <1>4, <1>5
<1>. QED
  BY <1>6 DEF Replayed

LEMMA WholeIsReplayed == Typed /\ WholeInv => AcknowledgedIsReplayed
<1>. SUFFICES ASSUME Typed, WholeInv, NEW s \in DOMAIN disk, NEW i \in DOMAIN disk[s].items,
                     disk[s].items[i].acked
              PROVE  <<s, i>> \in Replayed
  BY DEF AcknowledgedIsReplayed
<1>1. i \in 1 .. Len(disk[s].items) /\ disk[s].items[i].good
  BY SegmentOf, ItemFields DEF Typed
<1>. QED
  BY <1>1, GoodIsReplayed

(* As long as neither a write nor the header of a new segment fails        *)
(* without a crash, every record whose append returned, and whose segment  *)
(* is there, is read back by a restart: whatever crashes, power cuts and   *)
(* failed syncs there were.                                                *)
THEOREM AcknowledgedIsReplayedHolds ==
    {"write", "header"} \cap Faults = {} => (Spec => []AcknowledgedIsReplayed)
<1>. SUFFICES ASSUME {"write", "header"} \cap Faults = {}
              PROVE  Spec => []AcknowledgedIsReplayed
  OBVIOUS
<1>1. Typed /\ Typed' /\ WholeInv /\ [Next]_vars => WholeInv'
  BY WholeStep
<1>. QED
  BY <1>1, AlwaysTyped, WholeInit, WholeIsReplayed, PTL DEF Spec

-----------------------------------------------------------------------------
(* How much a power cut can take.                                          *)

(* The acknowledged items behind the first n.                              *)
AtRisk(items, n) == {i \in 1 .. Len(items) : i > n /\ items[i].acked}

LEMMA AtRiskIsFinite ==
    ASSUME NEW items, Len(items) \in Nat, NEW n
    PROVE  IsFiniteSet(AtRisk(items, n)) /\ Cardinality(AtRisk(items, n)) \in Nat
<1>1. IsFiniteSet(1 .. Len(items))
  BY FS_Interval
<1>2. AtRisk(items, n) \in SUBSET (1 .. Len(items))
  BY DEF AtRisk
<1>3. IsFiniteSet(AtRisk(items, n))
  BY <1>1, <1>2, FS_Subset
<1>. QED
  BY <1>3, FS_CardinalityType

LEMMA NoneAtRisk ==
    ASSUME NEW items, Len(items) \in Nat, NEW n \in Nat, n >= Len(items)
    PROVE  AtRisk(items, n) = {}
<1>. QED
  BY DEF AtRisk

(* Nothing is at risk that was not before.                                 *)
LEMMA NoMoreAtRisk ==
    ASSUME NEW items, NEW left, NEW n,
           \A i \in 1 .. Len(left) : left[i].acked =>
               i \in 1 .. Len(items) /\ items[i].acked
    PROVE  AtRisk(left, n) \subseteq AtRisk(items, n)
<1>. QED
  BY DEF AtRisk

LEMMA FewerAtRisk ==
    ASSUME NEW items, Len(items) \in Nat, NEW n, NEW S, S \subseteq AtRisk(items, n)
    PROVE  /\ IsFiniteSet(S) /\ Cardinality(S) \in Nat
           /\ Cardinality(S) <= Cardinality(AtRisk(items, n))
<1>1. S \in SUBSET AtRisk(items, n) /\ IsFiniteSet(AtRisk(items, n))
  BY AtRiskIsFinite
<1>2. IsFiniteSet(S) /\ Cardinality(S) <= Cardinality(AtRisk(items, n))
  BY <1>1, FS_Subset
<1>. QED
  BY <1>2, FS_CardinalityType

(* While the log is open at most as many records are at risk as were       *)
(* appended since the last sync, and fewer than N; one that is due to be   *)
(* synced, or written and not yet acknowledged, does not count.            *)
Risk == Cardinality(AtRisk(disk[activeId].items, synced))
OpenRisk ==
    /\ Risk <= FsyncEveryN - 1
    /\ Risk <= sinceSync
    /\ pc = "sync" => Risk + 1 <= sinceSync
    /\ pc = "return" => \/ synced >= Len(disk[activeId].items)
                        \/ Risk + 1 <= sinceSync /\ sinceSync <= FsyncEveryN - 1
NoRisk == DOMAIN disk # {} => AtRisk(Items, synced) = {}
RiskInv == crashes \in Nat /\ (isOpen => OpenRisk) /\ (~isOpen => NoRisk)

LEMMA RiskInit == Init => RiskInv
<1>1. DOMAIN <<>> = {}
  OBVIOUS
<1>. QED
  BY <1>1 DEF Init, RiskInv, NoRisk

(* Nothing is at risk after the step.                                      *)
LEMMA RiskGone ==
    ASSUME AtRisk(disk'[activeId'].items, synced') = {}, sinceSync' \in Nat,
           pc' # "sync", pc' = "return" => synced' >= Len(disk'[activeId'].items)
    PROVE  OpenRisk'
<1>1. Cardinality(AtRisk(disk'[activeId'].items, synced')) = 0
  BY FS_EmptySet
<1>2. Risk' = 0
  BY <1>1 DEF Risk
<1>3. FsyncEveryN \in Nat \ {0}
  BY WalAssumption
<1>. QED
  BY <1>2, <1>3 DEF OpenRisk

(* Nothing more is, and no record is under way.                            *)
LEMMA RiskNotMore ==
    ASSUME Typed, isOpen, OpenRisk, sinceSync' = sinceSync, pc' \notin {"sync", "return"},
           AtRisk(disk'[activeId'].items, synced') \subseteq AtRisk(disk[activeId].items, synced)
    PROVE  OpenRisk'
<1>1. Len(disk[activeId].items) \in Nat
  BY ActiveSegment
<1>2. PICK S : S = AtRisk(disk'[activeId'].items, synced')
  OBVIOUS
<1>3. /\ Cardinality(S) \in Nat
      /\ Cardinality(S) <= Cardinality(AtRisk(disk[activeId].items, synced))
      /\ Cardinality(AtRisk(disk[activeId].items, synced)) \in Nat
  BY <1>1, <1>2, FewerAtRisk, AtRiskIsFinite
<1>4. Risk' \in Nat /\ Risk \in Nat /\ Risk' <= Risk
  BY <1>2, <1>3 DEF Risk
<1>5. FsyncEveryN \in Nat \ {0} /\ sinceSync \in Nat
  BY WalAssumption DEF Typed
<1>6. Risk' <= FsyncEveryN - 1 /\ Risk' <= sinceSync'
  BY <1>4, <1>5 DEF OpenRisk
<1>. QED
  BY <1>6 DEF OpenRisk

LEMMA RiskWrite ==
    ASSUME Typed, Typed', OpenRisk, WriteRecord
    PROVE  OpenRisk'
<1>1. PICK item \in ItemSet :
          /\ ~item.acked /\ isOpen /\ IsDisk(disk) /\ activeId \in DOMAIN disk
          /\ Appends(disk', disk, activeId, item) /\ activeId' = activeId
  BY RecordWritten
<1>2. /\ Len(disk[activeId].items) \in Nat
      /\ Len(disk'[activeId].items) = Len(disk[activeId].items) + 1
      /\ \A i \in 1 .. Len(disk[activeId].items) :
            disk'[activeId].items[i] = disk[activeId].items[i]
      /\ disk'[activeId].items[Len(disk[activeId].items) + 1] = item
  BY <1>1, SegmentOf DEF Appends
<1>3. \A i \in 1 .. Len(disk'[activeId].items) : disk'[activeId].items[i].acked =>
          i \in 1 .. Len(disk[activeId].items) /\ disk[activeId].items[i].acked
  <2>1. PICK m \in Nat : m = Len(disk[activeId].items)
    BY <1>2
  <2>2. ASSUME NEW i \in 1 .. m + 1, disk'[activeId].items[i].acked
        PROVE  i \in 1 .. m /\ disk[activeId].items[i].acked
    <3>1. i # m + 1
      BY <1>1, <1>2, <2>1, <2>2
    <3>2. i \in 1 .. m
      BY <2>1, <2>2, <3>1
    <3>. QED
      BY <1>2, <2>1, <2>2, <3>2
  <2>. QED
    BY <1>2, <2>1, <2>2
<1>4. synced' = synced /\ sinceSync' = sinceSync + 1
  BY DEF WriteRecord
<1>5. AtRisk(disk'[activeId'].items, synced') \subseteq AtRisk(disk[activeId].items, synced)
  BY <1>1, <1>3, <1>4, NoMoreAtRisk
<1>6. PICK S : S = AtRisk(disk'[activeId'].items, synced')
  OBVIOUS
<1>7. /\ Cardinality(S) \in Nat
      /\ Cardinality(S) <= Cardinality(AtRisk(disk[activeId].items, synced))
      /\ Cardinality(AtRisk(disk[activeId].items, synced)) \in Nat
  BY <1>2, <1>5, <1>6, FewerAtRisk, AtRiskIsFinite
<1>8. Risk' \in Nat /\ Risk \in Nat /\ Risk' <= Risk
  BY <1>6, <1>7 DEF Risk
<1>9. FsyncEveryN \in Nat \ {0} /\ sinceSync \in Nat
  BY WalAssumption DEF Typed
<1>10. Risk <= FsyncEveryN - 1 /\ Risk <= sinceSync
  BY DEF OpenRisk
<1>11. PICK r \in Nat : r = Risk'
  BY <1>8
<1>12. PICK k \in Nat : k = sinceSync'
  BY <1>4, <1>9
<1>13. r <= FsyncEveryN - 1 /\ r + 1 <= k /\ r <= k
  <2>1. PICK q \in Nat : q = Risk
    BY <1>8
  <2>2. r <= q /\ q <= FsyncEveryN - 1 /\ q <= sinceSync /\ k = sinceSync + 1
    BY <1>4, <1>8, <1>10, <1>11, <1>12, <2>1
  <2>. QED
    BY ONLY <1>9, <2>2
<1>14. pc' = "return" => k <= FsyncEveryN - 1
  <2>1. pc' = "return" => ~SyncDue
    BY DEF WriteRecord
  <2>. QED
    BY <1>4, <1>9, <1>12, <2>1 DEF SyncDue
<1>. QED
  BY <1>11, <1>12, <1>13, <1>14 DEF OpenRisk

LEMMA RiskAcknowledge ==
    ASSUME Typed, Typed', OpenRisk, Acknowledge
    PROVE  OpenRisk'
<1>1. PICK n \in 1 .. Len(disk[activeId].items) :
          /\ n = Len(disk[activeId].items)
          /\ isOpen /\ IsDisk(disk) /\ activeId \in DOMAIN disk
          /\ Marks(disk', disk, activeId, n) /\ activeId' = activeId
  BY RecordAcknowledged
<1>2. /\ Len(disk[activeId].items) \in Nat
      /\ Len(disk'[activeId].items) = Len(disk[activeId].items)
      /\ \A i \in 1 .. Len(disk[activeId].items) : i # n =>
            disk'[activeId].items[i] = disk[activeId].items[i]
  BY <1>1, SegmentOf DEF Marks
<1>3. synced' = synced /\ sinceSync' = sinceSync /\ pc = "return" /\ pc' = "idle"
      /\ synced \in Nat /\ sinceSync \in Nat
  BY DEF Acknowledge, Typed
<1>4. CASE synced >= Len(disk[activeId].items)
  <2>1. AtRisk(disk'[activeId'].items, synced') = {}
    BY <1>1, <1>2, <1>3, <1>4, NoneAtRisk
  <2>. QED
    BY <1>3, <2>1, RiskGone
<1>5. CASE Risk + 1 <= sinceSync /\ sinceSync <= FsyncEveryN - 1
  <2>1. PICK S : S = AtRisk(disk[activeId].items, synced)
    OBVIOUS
  <2>2. PICK T : T = AtRisk(disk'[activeId'].items, synced')
    OBVIOUS
  <2>3. T \subseteq S \cup {n}
    <3>1. ASSUME NEW i \in T, i # n
          PROVE  i \in S
      <4>1. i \in 1 .. Len(disk[activeId].items) /\ i > synced /\ disk'[activeId].items[i].acked
        BY <1>1, <1>2, <1>3, <2>2 DEF AtRisk
      <4>. QED
        BY <1>2, <2>1, <3>1, <4>1 DEF AtRisk
    <3>. QED
      BY <3>1
  <2>4. IsFiniteSet(S) /\ Cardinality(S) \in Nat
    BY <1>2, <2>1, AtRiskIsFinite
  <2>5. IsFiniteSet(S \cup {n}) /\ Cardinality(S \cup {n}) <= Cardinality(S) + 1
    <3>1. IsFiniteSet(S \cup {n})
      BY <2>4, FS_AddElement
    <3>2. Cardinality(S \cup {n}) = IF n \in S THEN Cardinality(S) ELSE Cardinality(S) + 1
      BY <2>4, FS_AddElement
    <3>. QED
      BY <2>4, <3>1, <3>2
  <2>6. T \in SUBSET (S \cup {n})
    BY <2>3
  <2>7. IsFiniteSet(T) /\ Cardinality(T) <= Cardinality(S \cup {n})
    BY <2>5, <2>6, FS_Subset
  <2>8. Cardinality(T) \in Nat /\ Cardinality(S \cup {n}) \in Nat
    BY <2>5, <2>7, FS_CardinalityType
  <2>9. Risk = Cardinality(S) /\ Risk' = Cardinality(T)
    BY <2>1, <2>2 DEF Risk
  <2>10. Risk' <= sinceSync
    BY <1>3, <1>5, <2>4, <2>5, <2>7, <2>8, <2>9
  <2>11. FsyncEveryN \in Nat
    BY WalAssumption
  <2>12. Risk' <= FsyncEveryN - 1
    BY <1>3, <1>5, <2>8, <2>9, <2>10, <2>11
  <2>. QED
    BY <1>3, <2>10, <2>12 DEF OpenRisk
<1>. QED
  BY <1>3, <1>4, <1>5 DEF OpenRisk

LEMMA RiskOpen ==
    ASSUME Typed, NoRisk, Open
    PROVE  AtRisk(disk'[activeId'].items, synced') = {} /\ sinceSync' = 0 /\ pc' = "idle"
<1>1. IsDisk(disk) /\ floor \in Nat /\ synced \in Nat /\ ~isOpen /\ pc = "idle"
  BY DEF Typed, Open
<1>2. /\ IsDisk(disk') /\ IsNewest(disk', activeId')
      /\ IF DOMAIN disk = {} THEN activeId' = 1 /\ disk'[1] = NewSegment(TRUE)
         ELSE activeId' = Newest
      /\ \A s \in DOMAIN disk : disk'[s].items = Readable(disk[s])
  BY <1>1, Opened
<1>3. /\ flushed' \in Nat /\ synced' \in Nat
      /\ flushed' = Len(disk'[activeId'].items)
      /\ synced' <= synced /\ (synced' < synced => synced' = flushed')
  BY <1>1, Seeded
<1>4. sinceSync' = 0 /\ pc' = "idle"
  BY <1>1 DEF Open
<1>5. CASE synced' < synced
  BY <1>3, <1>4, <1>5, NoneAtRisk
<1>6. CASE synced' = synced /\ DOMAIN disk = {}
  <2>1. disk'[activeId'].items = <<>>
    BY <1>2, <1>6 DEF NewSegment
  <2>2. Len(disk'[activeId'].items) = 0
    BY <2>1, EmptySeq
  <2>. QED
    BY <1>3, <1>4, <2>2, NoneAtRisk
<1>7. CASE synced' = synced /\ DOMAIN disk # {}
  <2>1. Newest \in DOMAIN disk /\ activeId' = Newest
    BY <1>1, <1>2, <1>7, NewestOf DEF Newest, IsNewest
  <2>2. disk[Newest] \in Segments /\ Len(disk[Newest].items) \in Nat
    BY <1>1, <2>1, SegmentOf DEF IsDisk
  <2>3. disk'[activeId'].items = Readable(disk[Newest])
    BY <1>2, <2>1
  <2>4. \A i \in 1 .. Len(disk'[activeId'].items) :
            /\ i \in 1 .. Len(disk[Newest].items)
            /\ disk'[activeId'].items[i] = disk[Newest].items[i]
    BY <2>2, <2>3, ReadableItems
  <2>5. AtRisk(disk'[activeId'].items, synced') \subseteq AtRisk(disk[Newest].items, synced)
    BY <1>7, <2>4, NoMoreAtRisk
  <2>. QED
    BY <1>4, <1>7, <2>5 DEF NoRisk, Items
<1>8. synced' < synced \/ synced' = synced
  BY <1>1, <1>3
<1>. QED
  BY <1>4, <1>5, <1>6, <1>7, <1>8

(* A crash leaves no more at risk than there was.                          *)
LEMMA RiskSurvives ==
    ASSUME Typed, isOpen, AtRisk(disk[activeId].items, synced) = {}, ProcessCrash
    PROVE  NoRisk'
<1>1. PICK n \in 0 .. Len(Items) : \E left \in Survivors(n) :
          disk' = [disk EXCEPT ![Newest].items = left]
  BY CrashedIn
<1>2. PICK left \in Survivors(n) : disk' = [disk EXCEPT ![Newest].items = left]
  BY <1>1
<1>3. /\ IsDisk(disk) /\ DOMAIN disk # {} /\ Items = disk[activeId].items
      /\ Items \in Seq(ItemSet) /\ Len(Items) \in Nat
  BY ActiveSegment
<1>4. Items' = left /\ left \in Seq(ItemSet)
  BY <1>2, <1>3, Survived
<1>5. \A i \in 1 .. Len(left) : left[i].good => i \in 1 .. Len(Items) /\ left[i] = Items[i]
  BY <1>3, SurvivingItems
<1>6. \A i \in 1 .. Len(left) : left[i].acked => i \in 1 .. Len(Items) /\ Items[i].acked
  BY <1>4, <1>5, ElementOfSeq, ItemFields
<1>7. AtRisk(left, synced) \subseteq AtRisk(Items, synced)
  BY <1>6, NoMoreAtRisk
<1>8. synced' = synced
  BY DEF ProcessCrash
<1>9. AtRisk(Items', synced') = {}
  BY <1>3, <1>4, <1>7, <1>8
<1>. QED
  BY <1>9 DEF NoRisk

(* A power cut leaves only what is on the disk.                            *)
LEMMA RiskPowerCut ==
    ASSUME Typed, PowerCut
    PROVE  NoRisk'
<1>1. PICK n \in 0 .. Len(Items) : \E left \in Survivors(n) :
          /\ disk' = [disk EXCEPT ![Newest].items = left]
          /\ synced' = Len(left)
  BY PowerWasCut
<1>2. PICK left \in Survivors(n) :
          disk' = [disk EXCEPT ![Newest].items = left] /\ synced' = Len(left)
  BY <1>1
<1>3. IsDisk(disk) /\ DOMAIN disk # {}
  BY PowerWasCut DEF Typed
<1>4. Items' = left /\ Len(left) \in Nat
  BY <1>2, <1>3, Survived
<1>5. AtRisk(left, Len(left)) = {}
  BY <1>4, NoneAtRisk
<1>. QED
  BY <1>2, <1>4, <1>5 DEF NoRisk

(* A segment that was just created holds nothing.                          *)
LEMMA RiskNewSegment ==
    ASSUME NEW g, Adds(disk', disk, activeId + 1, g), synced' \in Nat
    PROVE  /\ AtRisk(disk'[activeId + 1].items, synced') = {}
           /\ NoRisk'
<1>1. /\ IsDisk(disk') /\ IsNewest(disk', activeId + 1)
      /\ Len(disk'[activeId + 1].items) = 0
  BY DEF Adds
<1>2. AtRisk(disk'[activeId + 1].items, synced') = {}
  BY <1>1, NoneAtRisk
<1>3. Newest' = activeId + 1
  BY <1>1, NewestOf DEF Newest
<1>4. AtRisk(Items', synced') = {}
  BY <1>2, <1>3 DEF Items
<1>. QED
  BY <1>2, <1>4 DEF NoRisk

(* With N = 1 an open log between two appends has nothing at risk, and     *)
(* during one nothing but the record under way.                            *)
LEMMA NoneForOne ==
    ASSUME Typed, isOpen, OpenRisk, FsyncEveryN = 1
    PROVE  AtRisk(disk[activeId].items, synced) = {}
<1>1. PICK S : S = AtRisk(disk[activeId].items, synced)
  OBVIOUS
<1>2. Len(disk[activeId].items) \in Nat
  BY ActiveSegment
<1>3. IsFiniteSet(S) /\ Cardinality(S) \in Nat
  BY <1>1, <1>2, AtRiskIsFinite
<1>4. Cardinality(S) <= 0
  BY <1>1 DEF OpenRisk, Risk
<1>5. Cardinality(S) = 0
  BY <1>3, <1>4
<1>. QED
  BY <1>1, <1>3, <1>5, FS_EmptySet

LEMMA RiskStep ==
    ASSUME FsyncEveryN = 1 \/ MaxCrashes = 0, Typed, Typed', RiskInv, [Next]_vars
    PROVE  RiskInv'
<1>. USE DEF RiskInv
<1>1. crashes' \in Nat
  <2>1. crashes' = crashes \/ crashes' = crashes + 1
    BY DEF Next, Open, Roll, RollSegment, Sync, Close, BeginAppend, RollForSize, WriteRecord,
           SyncRecord, Acknowledge, RemoveSegmentsCovered, WriteFails, SyncFails, HeaderFails,
           NoNextFile, Throw, ProcessCrash, PowerCut, CrashInRoll, boundVars, vars
  <2>. QED
    BY <2>1
<1>2. CASE Open
  <2>1. AtRisk(disk'[activeId'].items, synced') = {} /\ sinceSync' = 0 /\ pc' = "idle"
    BY <1>2, RiskOpen DEF Open
  <2>2. OpenRisk'
    BY <2>1, RiskGone
  <2>. QED
    BY <1>1, <1>2, <2>2 DEF Open
<1>3. CASE Roll \/ RollForSize
  <2>1. isOpen /\ isOpen' /\ RollSegment /\ pc' \in {"idle", "write"}
    BY <1>3 DEF Roll, RollForSize, RollSegment, Typed
  <2>2. Adds(disk', disk, activeId + 1, NewSegment(TRUE))
    BY <2>1, TypedRoll
  <2>3. synced' = 0 /\ sinceSync' = 0 /\ activeId' = activeId + 1
    BY <2>1 DEF RollSegment
  <2>4. AtRisk(disk'[activeId'].items, synced') = {}
    BY <2>2, <2>3, RiskNewSegment
  <2>5. OpenRisk'
    BY <2>1, <2>3, <2>4, RiskGone
  <2>. QED
    BY <1>1, <2>1, <2>5
<1>4. CASE Sync \/ SyncRecord
  <2>1. /\ isOpen /\ isOpen' /\ disk' = disk /\ activeId' = activeId
        /\ synced' = Len(Items) /\ sinceSync' = 0 /\ pc' # "sync"
    BY <1>4 DEF Sync, SyncRecord, Typed
  <2>2. Items = disk[activeId].items /\ Len(Items) \in Nat
    BY <2>1, ActiveSegment
  <2>3. AtRisk(disk'[activeId'].items, synced') = {} /\ synced' >= Len(disk'[activeId'].items)
    BY <2>1, <2>2, NoneAtRisk
  <2>4. OpenRisk'
    BY <2>1, <2>3, RiskGone
  <2>. QED
    BY <1>1, <2>1, <2>4
<1>5. CASE Close \/ NoNextFile
  <2>1. isOpen /\ isOpen' = FALSE /\ disk' = disk /\ synced' = Len(Items)
    BY <1>5 DEF Close, NoNextFile
  <2>2. Len(Items) \in Nat /\ Items' = Items
    BY <2>1, ActiveSegment DEF Items, Newest
  <2>3. AtRisk(Items', synced') = {}
    BY <2>1, <2>2, NoneAtRisk
  <2>. QED
    BY <1>1, <2>1, <2>3 DEF NoRisk
<1>6. CASE (\E o \in Op : BeginAppend(o)) \/ SyncFails
  <2>1. /\ isOpen /\ isOpen' /\ disk' = disk /\ activeId' = activeId
        /\ synced' = synced /\ sinceSync' = sinceSync /\ pc' \notin {"sync", "return"}
    BY <1>6 DEF BeginAppend, SyncFails, Throw, memoryVars, Typed
  <2>2. AtRisk(disk'[activeId'].items, synced') \subseteq AtRisk(disk[activeId].items, synced)
    BY <2>1
  <2>3. OpenRisk'
    BY <2>1, <2>2, RiskNotMore
  <2>. QED
    BY <1>1, <2>1, <2>3
<1>7. CASE WriteRecord
  <2>1. isOpen /\ isOpen' = isOpen
    BY <1>7 DEF WriteRecord, Typed
  <2>2. OpenRisk'
    BY <1>7, <2>1, RiskWrite
  <2>. QED
    BY <1>1, <2>1, <2>2
<1>8. CASE Acknowledge
  <2>1. isOpen /\ isOpen' = isOpen
    BY <1>8 DEF Acknowledge, Typed
  <2>2. OpenRisk'
    BY <1>8, <2>1, RiskAcknowledge
  <2>. QED
    BY <1>1, <2>1, <2>2
<1>9. CASE \E w \in 0 .. lastSeqno : RemoveSegmentsCovered(w)
  <2>1. activeId \in DOMAIN disk' /\ \A s \in DOMAIN disk' : disk'[s] = disk[s]
    BY <1>9, RemovedSegments
  <2>2. /\ isOpen /\ isOpen' /\ activeId' = activeId
        /\ synced' = synced /\ sinceSync' = sinceSync /\ pc' \notin {"sync", "return"}
    BY <1>9 DEF RemoveSegmentsCovered
  <2>3. AtRisk(disk'[activeId'].items, synced') \subseteq AtRisk(disk[activeId].items, synced)
    BY <2>1, <2>2
  <2>4. OpenRisk'
    BY <2>2, <2>3, RiskNotMore
  <2>. QED
    BY <1>1, <2>2, <2>4
<1>10. CASE WriteFails
  <2>1. /\ isOpen' = isOpen /\ activeId' = activeId
        /\ synced' = synced /\ sinceSync' = sinceSync /\ pc' \notin {"sync", "return"}
    BY <1>10 DEF WriteFails, Throw
  <2>2. /\ isOpen
        /\ Len(disk'[activeId].items) \in Len(Items) .. Len(Items) + 1
        /\ \A i \in 1 .. Len(Items) : disk'[activeId].items[i] = Items[i]
        /\ Len(disk'[activeId].items) = Len(Items) + 1 =>
              disk'[activeId].items[Len(Items) + 1] = Torn
    BY <1>10, TornWrite
  <2>3. Items = disk[activeId].items /\ Len(Items) \in Nat
    BY <2>2, ActiveSegment
  <2>4. PICK m \in Nat : m = Len(Items)
    BY <2>3
  <2>5. PICK left : left = disk'[activeId].items
    OBVIOUS
  <2>6. ASSUME NEW i \in 1 .. Len(left), left[i].acked
        PROVE  i \in 1 .. Len(Items) /\ Items[i].acked
    <3>1. Len(left) = m \/ Len(left) = m + 1
      BY <2>2, <2>4, <2>5
    <3>2. CASE i = m + 1
      <4>1. Len(left) = m + 1
        BY <3>1, <3>2
      <4>2. left[i] = Torn
        BY <2>2, <2>4, <2>5, <3>2, <4>1
      <4>. QED
        BY <2>6, <4>2, TornIsItem
    <3>3. CASE i # m + 1
      <4>1. i \in 1 .. m
        BY <3>1, <3>3
      <4>. QED
        BY <2>2, <2>4, <2>5, <2>6, <4>1
    <3>. QED
      BY <3>2, <3>3
  <2>7. AtRisk(left, synced) \subseteq AtRisk(Items, synced)
    BY <2>6, NoMoreAtRisk
  <2>8. AtRisk(disk'[activeId'].items, synced') \subseteq AtRisk(disk[activeId].items, synced)
    BY <2>1, <2>3, <2>5, <2>7
  <2>9. OpenRisk'
    BY <2>1, <2>2, <2>8, RiskNotMore
  <2>. QED
    BY <1>1, <2>1, <2>2, <2>9
<1>11. CASE HeaderFails
  <2>1. /\ isOpen /\ isOpen' = isOpen /\ activeId' = activeId + 1
        /\ synced' = 0 /\ sinceSync' = sinceSync /\ pc' = "idle"
    BY <1>11 DEF HeaderFails, Throw
  <2>2. PICK hdr \in BOOLEAN : disk' = Put(disk, activeId + 1, NewSegment(hdr))
    BY <1>11 DEF HeaderFails
  <2>3. Adds(disk', disk, activeId + 1, NewSegment(hdr))
    BY <2>1, <2>2, SegmentStarted DEF FreshSegments
  <2>4. AtRisk(disk'[activeId'].items, synced') = {}
    BY <2>1, <2>3, RiskNewSegment
  <2>5. sinceSync' \in Nat
    BY DEF Typed
  <2>6. OpenRisk'
    BY <2>1, <2>4, <2>5, RiskGone
  <2>. QED
    BY <1>1, <2>1, <2>6
<1>12. CASE CrashInRoll
  <2>1. /\ isOpen /\ isOpen' = FALSE /\ synced' = 0
        /\ disk' = Put(disk, activeId + 1, NewSegment(FALSE))
    BY <1>12 DEF CrashInRoll, Die
  <2>2. Adds(disk', disk, activeId + 1, NewSegment(FALSE))
    BY <2>1, SegmentStarted DEF FreshSegments
  <2>3. NoRisk'
    BY <2>1, <2>2, RiskNewSegment
  <2>. QED
    BY <1>1, <2>1, <2>3
<1>13. CASE ProcessCrash
  <2>1. isOpen /\ isOpen' = FALSE /\ crashes < MaxCrashes
    BY <1>13 DEF ProcessCrash, Die
  <2>2. FsyncEveryN = 1
    BY <2>1
  <2>3. AtRisk(disk[activeId].items, synced) = {}
    BY <2>1, <2>2, NoneForOne
  <2>4. NoRisk'
    BY <1>13, <2>1, <2>3, RiskSurvives
  <2>. QED
    BY <1>1, <2>1, <2>4
<1>14. CASE PowerCut
  <2>1. NoRisk' /\ isOpen' = FALSE
    BY <1>14, RiskPowerCut DEF PowerCut, Die
  <2>. QED
    BY <1>1, <2>1
<1>15. CASE UNCHANGED vars
  <2>1. /\ disk' = disk /\ synced' = synced /\ isOpen' = isOpen /\ activeId' = activeId
        /\ sinceSync' = sinceSync /\ pc' = pc /\ crashes' = crashes
    BY <1>15 DEF vars, memoryVars, boundVars
  <2>2. Items' = Items /\ Risk' = Risk
    BY <2>1 DEF Items, Newest, Risk
  <2>. QED
    BY <1>1, <2>1, <2>2 DEF OpenRisk, NoRisk
<1>. QED
  BY <1>2, <1>3, <1>4, <1>5, <1>6, <1>7, <1>8, <1>9, <1>10, <1>11, <1>12, <1>13, <1>14, <1>15
  DEF Next

LEMMA RiskIsBounded == Typed /\ RiskInv => LossIsBounded
<1>. SUFFICES ASSUME Typed, RiskInv
              PROVE  LossIsBounded
  OBVIOUS
<1>1. FsyncEveryN \in Nat \ {0} /\ IsDisk(disk)
  BY WalAssumption DEF Typed
<1>2. ASSUME AcknowledgedAtRisk = {}
      PROVE  LossIsBounded
  BY <1>1, <1>2, FS_EmptySet DEF LossIsBounded
<1>3. CASE disk = <<>>
  BY <1>2, <1>3 DEF AcknowledgedAtRisk
<1>4. CASE disk # <<>>
  <2>1. DOMAIN disk # {}
    BY <1>1, <1>4, EmptyDisk
  <2>2. Newest \in DOMAIN disk
    BY <1>1, <2>1, NewestOf DEF Newest, IsNewest
  <2>3. DOMAIN Items = 1 .. Len(Items)
    BY <1>1, <2>2, SegmentOf DEF Items
  <2>4. AcknowledgedAtRisk = AtRisk(Items, synced)
    BY <1>4, <2>3 DEF AcknowledgedAtRisk, AtRisk
  <2>5. CASE isOpen
    <3>1. Items = disk[activeId].items
      BY <2>5, ActiveSegment
    <3>2. Cardinality(AtRisk(disk[activeId].items, synced)) <= FsyncEveryN - 1
      BY <2>5 DEF RiskInv, OpenRisk, Risk
    <3>. QED
      BY <2>4, <3>1, <3>2 DEF LossIsBounded
  <2>6. CASE ~isOpen
    BY <1>2, <2>1, <2>4, <2>6 DEF RiskInv, NoRisk
  <2>. QED
    BY <2>5, <2>6
<1>. QED
  BY <1>3, <1>4

(* A crash of the machine takes at most N - 1 acknowledged records, with   *)
(* any faults, if every record is synced or the process never dies alone:  *)
(* open() forgets what an earlier process left unsynced, and starts to     *)
(* count again.                                                            *)
THEOREM LossIsBoundedHolds ==
    FsyncEveryN = 1 \/ MaxCrashes = 0 => (Spec => []LossIsBounded)
<1>. SUFFICES ASSUME FsyncEveryN = 1 \/ MaxCrashes = 0
              PROVE  Spec => []LossIsBounded
  OBVIOUS
<1>1. Typed /\ Typed' /\ RiskInv /\ [Next]_vars => RiskInv'
  BY RiskStep
<1>. QED
  BY <1>1, AlwaysTyped, RiskInit, RiskIsBounded, PTL DEF Spec

-----------------------------------------------------------------------------
(* Wal implements DurableLog, when every record is synced before it is     *)
(* acknowledged, no call fails and the power stays on.                     *)

(* The place in the active segment of the record under way.                *)
Pending == IF Appending THEN Len(disk[activeId].items) ELSE 0

RecordOf(s, item) == [seg |-> s, seq |-> item.seq, op |-> item.op]

(* r stands in d, and not at place n of segment a.                         *)
Holds(d, a, n, r) ==
    \E s \in DOMAIN d : \E i \in 1 .. Len(d[s].items) :
        /\ d[s].items[i].good /\ ~(s = a /\ i = n)
        /\ r = RecordOf(s, d[s].items[i])

LoggedIs(R, d, a, n) == \A r : r \in R <=> Holds(d, a, n, r)
SameHeld(d, a, n, e, b, m) == \A r : Holds(d, a, n, r) <=> Holds(e, b, m, r)

LEMMA SameLogged ==
    ASSUME NEW R, NEW d, NEW a, NEW n, NEW Q, NEW e, NEW b, NEW m,
           LoggedIs(R, d, a, n), LoggedIs(Q, e, b, m), SameHeld(d, a, n, e, b, m)
    PROVE  Q = R
<1>1. \A r : r \in Q <=> r \in R
  BY DEF LoggedIs, SameHeld
<1>. QED
  BY <1>1

(* Without a record under way the active segment does not matter.          *)
LEMMA KeptIsHeld ==
    ASSUME NEW d, IsDisk(d), NEW e, IsDisk(e), NEW a, NEW b, Keeps(e, d), Keeps(d, e)
    PROVE  SameHeld(d, a, 0, e, b, 0)
<1>1. ASSUME NEW r, Holds(d, a, 0, r)
      PROVE  Holds(e, b, 0, r)
  <2>1. PICK s \in DOMAIN d : \E i \in 1 .. Len(d[s].items) :
            d[s].items[i].good /\ r = RecordOf(s, d[s].items[i])
    BY <1>1 DEF Holds
  <2>2. PICK i \in 1 .. Len(d[s].items) :
            d[s].items[i].good /\ r = RecordOf(s, d[s].items[i])
    BY <2>1
  <2>3. s \in DOMAIN e /\ i \in 1 .. Len(e[s].items) /\ d[s].items[i] = e[s].items[i]
    BY <2>2 DEF Keeps
  <2>4. i # 0
    BY <2>2
  <2>. QED
    BY <2>2, <2>3, <2>4 DEF Holds
<1>2. ASSUME NEW r, Holds(e, b, 0, r)
      PROVE  Holds(d, a, 0, r)
  <2>1. PICK s \in DOMAIN e : \E i \in 1 .. Len(e[s].items) :
            e[s].items[i].good /\ r = RecordOf(s, e[s].items[i])
    BY <1>2 DEF Holds
  <2>2. PICK i \in 1 .. Len(e[s].items) :
            e[s].items[i].good /\ r = RecordOf(s, e[s].items[i])
    BY <2>1
  <2>3. s \in DOMAIN d /\ i \in 1 .. Len(d[s].items) /\ e[s].items[i] = d[s].items[i]
    BY <2>2 DEF Keeps
  <2>4. i # 0
    BY <2>2
  <2>. QED
    BY <2>2, <2>3, <2>4 DEF Holds
<1>. QED
  BY <1>1, <1>2 DEF SameHeld

(* The record under way stands at the end of the active segment.           *)
LEMMA PendingCounts ==
    ASSUME NEW d, NEW a \in DOMAIN d, NEW n \in 1 .. Len(d[a].items), d[a].items[n].good
    PROVE  \A r : Holds(d, a, 0, r) <=> Holds(d, a, n, r) \/ r = RecordOf(a, d[a].items[n])
<1>1. ASSUME NEW r, Holds(d, a, 0, r), r # RecordOf(a, d[a].items[n])
      PROVE  Holds(d, a, n, r)
  <2>1. PICK s \in DOMAIN d : \E i \in 1 .. Len(d[s].items) :
            d[s].items[i].good /\ r = RecordOf(s, d[s].items[i])
    BY <1>1 DEF Holds
  <2>2. PICK i \in 1 .. Len(d[s].items) :
            d[s].items[i].good /\ r = RecordOf(s, d[s].items[i])
    BY <2>1
  <2>3. ~(s = a /\ i = n)
    BY <1>1, <2>2
  <2>. QED
    BY <2>2, <2>3 DEF Holds
<1>2. ASSUME NEW r, Holds(d, a, n, r)
      PROVE  Holds(d, a, 0, r)
  <2>1. PICK s \in DOMAIN d : \E i \in 1 .. Len(d[s].items) :
            d[s].items[i].good /\ r = RecordOf(s, d[s].items[i])
    BY <1>2 DEF Holds
  <2>2. PICK i \in 1 .. Len(d[s].items) :
            d[s].items[i].good /\ r = RecordOf(s, d[s].items[i])
    BY <2>1
  <2>3. i # 0
    BY <2>2
  <2>. QED
    BY <2>2, <2>3 DEF Holds
<1>3. Holds(d, a, 0, RecordOf(a, d[a].items[n]))
  <2>1. n # 0
    OBVIOUS
  <2>. QED
    BY <2>1 DEF Holds
<1>. QED
  BY <1>1, <1>2, <1>3

LEMMA AppendedIsPending ==
    ASSUME NEW d, IsDisk(d), NEW e, NEW a \in DOMAIN d, NEW item, Appends(e, d, a, item)
    PROVE  SameHeld(d, a, 0, e, a, Len(e[a].items))
<1>1. PICK n \in Nat : n = Len(d[a].items)
  BY SegmentOf
<1>2. /\ Len(e[a].items) = n + 1 /\ DOMAIN e = DOMAIN d
      /\ \A i \in 1 .. n : e[a].items[i] = d[a].items[i]
      /\ \A t \in DOMAIN d \ {a} : e[t] = d[t]
  BY <1>1 DEF Appends
<1>3. ASSUME NEW s \in DOMAIN d, NEW i
      PROVE  /\ i \in 1 .. Len(d[s].items) =>
                   /\ i \in 1 .. Len(e[s].items) /\ ~(s = a /\ i = n + 1)
                   /\ e[s].items[i] = d[s].items[i]
             /\ i \in 1 .. Len(e[s].items) /\ ~(s = a /\ i = n + 1) =>
                   /\ i \in 1 .. Len(d[s].items)
                   /\ e[s].items[i] = d[s].items[i]
  <2>1. CASE s = a
    BY <1>1, <1>2, <2>1
  <2>2. CASE s # a
    BY <1>2, <2>2
  <2>. QED
    BY <2>1, <2>2
<1>4. ASSUME NEW r, Holds(d, a, 0, r)
      PROVE  Holds(e, a, n + 1, r)
  <2>1. PICK s \in DOMAIN d : \E i \in 1 .. Len(d[s].items) :
            d[s].items[i].good /\ r = RecordOf(s, d[s].items[i])
    BY <1>4 DEF Holds
  <2>2. PICK i \in 1 .. Len(d[s].items) :
            d[s].items[i].good /\ r = RecordOf(s, d[s].items[i])
    BY <2>1
  <2>3. /\ s \in DOMAIN e /\ i \in 1 .. Len(e[s].items) /\ ~(s = a /\ i = n + 1)
        /\ e[s].items[i] = d[s].items[i]
    BY <1>2, <1>3
  <2>. QED
    BY <2>2, <2>3 DEF Holds
<1>5. ASSUME NEW r, Holds(e, a, n + 1, r)
      PROVE  Holds(d, a, 0, r)
  <2>1. PICK s \in DOMAIN e : \E i \in 1 .. Len(e[s].items) :
            /\ e[s].items[i].good /\ r = RecordOf(s, e[s].items[i])
            /\ ~(s = a /\ i = n + 1)
    BY <1>5 DEF Holds
  <2>2. PICK i \in 1 .. Len(e[s].items) :
            /\ e[s].items[i].good /\ r = RecordOf(s, e[s].items[i])
            /\ ~(s = a /\ i = n + 1)
    BY <2>1
  <2>3. s \in DOMAIN d /\ i \in 1 .. Len(d[s].items) /\ e[s].items[i] = d[s].items[i]
    BY <1>2, <1>3, <2>2
  <2>4. i # 0
    BY <2>2
  <2>. QED
    BY <2>2, <2>3, <2>4 DEF Holds
<1>. QED
  BY <1>2, <1>4, <1>5 DEF SameHeld

LEMMA MarkedIsHeld ==
    ASSUME NEW d, NEW e, NEW a \in DOMAIN d, NEW k \in 1 .. Len(d[a].items), NEW n,
           d[a].items[k].good, Marks(e, d, a, k)
    PROVE  SameHeld(d, a, n, e, a, n)
<1>1. ASSUME NEW s \in DOMAIN d
      PROVE  /\ s \in DOMAIN e /\ Len(e[s].items) = Len(d[s].items)
             /\ \A i \in 1 .. Len(d[s].items) :
                   /\ e[s].items[i].good = d[s].items[i].good
                   /\ RecordOf(s, e[s].items[i]) = RecordOf(s, d[s].items[i])
  <2>1. CASE s # a
    BY <2>1 DEF Marks
  <2>2. CASE s = a
    <3>1. ASSUME NEW i \in 1 .. Len(d[a].items)
          PROVE  /\ e[a].items[i].good = d[a].items[i].good
                 /\ e[a].items[i].seq = d[a].items[i].seq
                 /\ e[a].items[i].op = d[a].items[i].op
      <4>1. CASE i = k
        <5>1. /\ e[a].items[k].good /\ e[a].items[k] = [d[a].items[k] EXCEPT !.acked = TRUE]
              /\ e[a].items[k].seq = d[a].items[k].seq /\ e[a].items[k].op = d[a].items[k].op
          BY DEF Marks
        <5>2. e[a].items[k].good = d[a].items[k].good
          BY <5>1
        <5>. QED
          BY <4>1, <5>1, <5>2
      <4>2. CASE i # k
        BY <4>2 DEF Marks
      <4>. QED
        BY <4>1, <4>2
    <3>. QED
      BY <2>2, <3>1 DEF Marks, RecordOf
  <2>. QED
    BY <2>1, <2>2
<1>2. DOMAIN e = DOMAIN d
  BY DEF Marks
<1>3. \A r : Holds(d, a, n, r) => Holds(e, a, n, r)
  BY <1>1 DEF Holds
<1>4. \A r : Holds(e, a, n, r) => Holds(d, a, n, r)
  BY <1>1, <1>2 DEF Holds
<1>. QED
  BY <1>3, <1>4 DEF SameHeld

(* A restart replays what stands in the log, the record under way apart.   *)
LoggedHere == LoggedIs(LoggedRecords, disk, activeId, Pending)

LEMMA LoggedAre == Typed /\ WholeInv => LoggedHere
<1>. SUFFICES ASSUME Typed, WholeInv
              PROVE  \A r : r \in LoggedRecords <=> Holds(disk, activeId, Pending, r)
  BY DEF LoggedHere, LoggedIs
<1>1. ASSUME NEW s \in DOMAIN disk, NEW i \in 1 .. Len(disk[s].items)
      PROVE  UnderWay(s, i) <=> s = activeId /\ i = Pending
  BY DEF UnderWay, Pending, Appending
<1>2. IsDisk(disk)
  BY DEF Typed
<1>3. ASSUME NEW r \in LoggedRecords
      PROVE  Holds(disk, activeId, Pending, r)
  <2>1. PICK p \in Replayed :
            /\ ~UnderWay(p[1], p[2])
            /\ r = [seg |-> p[1], seq |-> ItemAt(p).seq, op |-> ItemAt(p).op]
    BY <1>3 DEF LoggedRecords
  <2>2. PICK s, i : s = p[1] /\ i = p[2]
    OBVIOUS
  <2>3. /\ s \in DOMAIN disk /\ i \in 1 .. Len(disk[s].items) /\ disk[s].items[i].good
        /\ ItemAt(p) = disk[s].items[i]
    BY <1>2, <2>2, ReplayedIsGood
  <2>4. ~(s = activeId /\ i = Pending)
    BY <1>1, <2>1, <2>2, <2>3
  <2>5. r = RecordOf(s, disk[s].items[i])
    BY <2>1, <2>2, <2>3 DEF RecordOf
  <2>. QED
    BY <2>3, <2>4, <2>5 DEF Holds
<1>4. ASSUME NEW r, Holds(disk, activeId, Pending, r)
      PROVE  r \in LoggedRecords
  <2>1. PICK s \in DOMAIN disk : \E i \in 1 .. Len(disk[s].items) :
            /\ disk[s].items[i].good /\ ~(s = activeId /\ i = Pending)
            /\ r = RecordOf(s, disk[s].items[i])
    BY <1>4 DEF Holds
  <2>2. PICK i \in 1 .. Len(disk[s].items) :
            /\ disk[s].items[i].good /\ ~(s = activeId /\ i = Pending)
            /\ r = RecordOf(s, disk[s].items[i])
    BY <2>1
  <2>3. <<s, i>> \in Replayed /\ ~UnderWay(s, i)
    BY <1>1, <2>2, GoodIsReplayed
  <2>4. PICK p : p = <<s, i>>
    OBVIOUS
  <2>5. /\ p \in Replayed /\ ~UnderWay(p[1], p[2])
        /\ r = [seg |-> p[1], seq |-> ItemAt(p).seq, op |-> ItemAt(p).op]
    BY <2>2, <2>3, <2>4 DEF RecordOf, ItemAt
  <2>. QED
    BY <2>5 DEF LoggedRecords
<1>. QED
  BY <1>3, <1>4

(* The class knows the highest seqNo of what stands in its segments, but   *)
(* for the record under way.                                               *)
KnowsAll(d, m, a, n) ==
    \A s \in DOMAIN d : s \in DOMAIN m =>
        \A i \in 1 .. Len(d[s].items) :
            d[s].items[i].good /\ ~(s = a /\ i = n) => d[s].items[i].seq <= m[s]

(* Only a record that is not synced yet may be missing after a crash, and  *)
(* none is added to a full segment.                                        *)
OneByOne ==
    /\ activeRecs = Len(disk[activeId].items)
    /\ Len(disk[activeId].items) <= flushed + 1
    /\ pc # "sync" => Len(disk[activeId].items) <= flushed
    /\ pc = "write" => activeRecs < RollRecords
    /\ Appending => activeRecs <= RollRecords

SyncedInv == powerCuts \in Nat /\ (isOpen => OneByOne /\ KnowsAll(disk, segMax, activeId, Pending))

NoFailures == FsyncEveryN = 1 /\ Faults = {} /\ MaxPowerCuts = 0

LEMMA SyncedInit == Init => SyncedInv
<1>. QED
  BY DEF Init, SyncedInv

LEMMA KeptKnowsAll ==
    ASSUME NEW d, NEW e, Keeps(e, d), NEW a, NEW b, NEW m, NEW k, KnowsAll(d, m, a, 0),
           \A s \in DOMAIN k : s \in DOMAIN m /\ k[s] = m[s]
    PROVE  KnowsAll(e, k, b, 0)
<1>1. ASSUME NEW s \in DOMAIN e, s \in DOMAIN k, NEW i \in 1 .. Len(e[s].items),
             e[s].items[i].good
      PROVE  e[s].items[i].seq <= k[s]
  <2>1. s \in DOMAIN d /\ i \in 1 .. Len(d[s].items) /\ e[s].items[i] = d[s].items[i]
    BY <1>1 DEF Keeps
  <2>2. s \in DOMAIN m /\ k[s] = m[s] /\ i # 0
    BY <1>1
  <2>. QED
    BY <1>1, <2>1, <2>2 DEF KnowsAll
<1>. QED
  BY <1>1 DEF KnowsAll

LEMMA AppendedKnowsAll ==
    ASSUME NEW d, IsDisk(d), NEW e, NEW a \in DOMAIN d, NEW item, Appends(e, d, a, item),
           NEW m, KnowsAll(d, m, a, 0)
    PROVE  KnowsAll(e, m, a, Len(e[a].items))
<1>1. PICK n \in Nat : n = Len(d[a].items)
  BY SegmentOf
<1>2. /\ Len(e[a].items) = n + 1 /\ DOMAIN e = DOMAIN d
      /\ \A i \in 1 .. n : e[a].items[i] = d[a].items[i]
      /\ \A t \in DOMAIN d \ {a} : e[t] = d[t]
  BY <1>1 DEF Appends
<1>3. ASSUME NEW s \in DOMAIN e, s \in DOMAIN m, NEW i \in 1 .. Len(e[s].items),
             e[s].items[i].good, ~(s = a /\ i = n + 1)
      PROVE  e[s].items[i].seq <= m[s]
  <2>1. i \in 1 .. Len(d[s].items) /\ e[s].items[i] = d[s].items[i] /\ i # 0
    <3>1. CASE s = a
      BY <1>1, <1>2, <1>3, <3>1
    <3>2. CASE s # a
      BY <1>2, <1>3, <3>2
    <3>. QED
      BY <3>1, <3>2
  <2>. QED
    BY <1>2, <1>3, <2>1 DEF KnowsAll
<1>. QED
  BY <1>2, <1>3 DEF KnowsAll

LEMMA SyncedStep ==
    ASSUME NoFailures, Typed, Typed', OrderInv, SyncedInv, [Next]_vars
    PROVE  SyncedInv'
<1>1. powerCuts' \in Nat
  <2>1. powerCuts' = powerCuts \/ powerCuts' = powerCuts + 1
    BY DEF Next, Open, Roll, RollSegment, Sync, Close, BeginAppend, RollForSize, WriteRecord,
           SyncRecord, Acknowledge, RemoveSegmentsCovered, WriteFails, SyncFails, HeaderFails,
           NoNextFile, Throw, ProcessCrash, PowerCut, CrashInRoll, boundVars, vars
  <2>. QED
    BY <2>1 DEF SyncedInv
<1>2. CASE Open
  <2>1. IsDisk(disk) /\ floor \in Nat /\ synced \in Nat /\ pc' = "idle"
    BY <1>2 DEF Typed, Open
  <2>2. /\ \A s \in DOMAIN segMax' : \A i \in 1 .. Len(disk'[s].items) :
              disk'[s].items[i].seq <= segMax'[s]
        /\ flushed' \in Nat /\ flushed' = Len(disk'[activeId'].items) /\ activeRecs' = flushed'
    BY <1>2, <2>1, Seeded
  <2>3. KnowsAll(disk', segMax', activeId', Pending')
    BY <2>2 DEF KnowsAll
  <2>4. OneByOne'
    BY <2>1, <2>2 DEF OneByOne, Appending
  <2>. QED
    BY <1>1, <2>3, <2>4 DEF SyncedInv
<1>3. CASE Roll \/ RollForSize
  <2>1. /\ isOpen /\ RollSegment /\ pc' \in {"idle", "write"} /\ pc \in {"idle", "roll"}
    BY <1>3 DEF Roll, RollForSize, Typed
  <2>2. Adds(disk', disk, activeId + 1, NewSegment(TRUE))
    BY <2>1, TypedRoll
  <2>3. activeId' = activeId + 1 /\ activeRecs' = 0 /\ flushed' = 0 /\ segMax' = segMax
    BY <2>1 DEF RollSegment
  <2>4. Len(disk'[activeId'].items) = 0 /\ Keeps(disk', disk)
    BY <2>2, <2>3 DEF Adds
  <2>5. Pending = 0 /\ Pending' = 0
    BY <2>1 DEF Pending, Appending
  <2>6. KnowsAll(disk, segMax, activeId, 0)
    BY <2>1, <2>5 DEF SyncedInv
  <2>7. KnowsAll(disk', segMax', activeId', 0)
    BY <2>3, <2>4, <2>6, KeptKnowsAll
  <2>8. OneByOne'
    BY <2>1, <2>3, <2>4, WalAssumption DEF OneByOne, Appending
  <2>. QED
    BY <1>1, <2>5, <2>7, <2>8 DEF SyncedInv
<1>4. CASE (\E o \in Op : BeginAppend(o)) \/ Sync
  <2>1. /\ isOpen /\ disk' = disk /\ activeId' = activeId /\ segMax' = segMax
        /\ activeRecs' = activeRecs /\ pc = "idle" /\ pc' \in {"idle", "roll", "write"}
        /\ pc' = "write" => ~(activeRecs >= RollRecords)
        /\ flushed' = flushed \/ flushed' = Len(Items)
    BY <1>4 DEF BeginAppend, Sync, memoryVars
  <2>2. Items = disk[activeId].items /\ Len(Items) \in Nat
    BY <2>1, ActiveSegment
  <2>3. Pending = 0 /\ Pending' = 0
    BY <2>1 DEF Pending, Appending
  <2>4. activeRecs \in Nat /\ RollRecords \in Nat
    BY WalAssumption DEF Typed
  <2>5. OneByOne
    BY <2>1 DEF SyncedInv
  <2>6. OneByOne'
    BY <2>1, <2>2, <2>4, <2>5 DEF OneByOne, Appending
  <2>. QED
    BY <1>1, <2>1, <2>3, <2>6 DEF SyncedInv
<1>5. CASE WriteRecord
  <2>1. PICK item \in ItemSet :
            /\ isOpen /\ IsDisk(disk) /\ activeId \in DOMAIN disk
            /\ Appends(disk', disk, activeId, item) /\ segMax' = segMax
            /\ activeId' = activeId
    BY <1>5, RecordWritten
  <2>2. pc = "write" /\ activeRecs' = activeRecs + 1 /\ flushed' = flushed
    BY <1>5 DEF WriteRecord
  <2>3. pc' = "sync"
    <3>1. SyncDue
      BY DEF NoFailures, SyncDue, Typed
    <3>. QED
      BY <1>5, <3>1 DEF WriteRecord
  <2>4. Pending = 0 /\ Pending' = Len(disk'[activeId'].items)
    BY <2>2, <2>3 DEF Pending, Appending
  <2>5. OneByOne /\ KnowsAll(disk, segMax, activeId, 0)
    BY <2>1, <2>4 DEF SyncedInv
  <2>6. KnowsAll(disk', segMax', activeId', Pending')
    BY <2>1, <2>4, <2>5, AppendedKnowsAll
  <2>7. /\ Len(disk'[activeId'].items) = Len(disk[activeId].items) + 1
        /\ Len(disk[activeId].items) \in Nat
    BY <2>1, SegmentOf DEF Appends
  <2>8. activeRecs \in Nat /\ RollRecords \in Nat /\ flushed \in Nat
    BY WalAssumption DEF Typed
  <2>9. /\ activeRecs = Len(disk[activeId].items) /\ activeRecs <= flushed
        /\ activeRecs < RollRecords
    BY <2>2, <2>5 DEF OneByOne
  <2>10. OneByOne'
    BY <2>2, <2>3, <2>7, <2>8, <2>9 DEF OneByOne, Appending
  <2>. QED
    BY <1>1, <2>6, <2>10 DEF SyncedInv
<1>6. CASE SyncRecord
  <2>1. /\ isOpen /\ disk' = disk /\ activeId' = activeId /\ segMax' = segMax
        /\ activeRecs' = activeRecs /\ pc = "sync" /\ pc' = "return" /\ flushed' = Len(Items)
    BY <1>6 DEF SyncRecord, Typed
  <2>2. Items = disk[activeId].items /\ Len(Items) \in Nat
    BY <2>1, ActiveSegment
  <2>3. Pending' = Pending
    BY <2>1 DEF Pending, Appending
  <2>4. OneByOne'
    BY <2>1, <2>2 DEF SyncedInv, OneByOne, Appending
  <2>. QED
    BY <1>1, <2>1, <2>3, <2>4 DEF SyncedInv
<1>7. CASE Acknowledge
  <2>1. PICK n \in 1 .. Len(disk[activeId].items) :
            /\ n = Len(disk[activeId].items) /\ disk[activeId].items[n].good
            /\ isOpen /\ IsDisk(disk) /\ activeId \in DOMAIN disk
            /\ Marks(disk', disk, activeId, n)
            /\ lastSeqno \in Nat /\ segMax' = Counted(lastSeqno + 1)
            /\ activeId' = activeId
    BY <1>7, RecordAcknowledged
  <2>2. NoneAbove(disk, lastSeqno + 1) /\ OneByOne /\ KnowsAll(disk, segMax, activeId, n)
    BY <1>7, <2>1 DEF OrderInv, SyncedInv, Pending, Appending, Acknowledge
  <2>3. ASSUME NEW s \in DOMAIN disk', s \in DOMAIN segMax',
               NEW i \in 1 .. Len(disk'[s].items), disk'[s].items[i].good
        PROVE  disk'[s].items[i].seq <= segMax'[s]
    <3>1. s \in DOMAIN disk
      BY <2>1 DEF Marks
    <3>2. CASE s = activeId
      <4>1. segMax'[s] = lastSeqno + 1
        BY <2>1, <3>2 DEF Counted, Put
      <4>2. NoneAbove(disk', lastSeqno + 1)
        BY <2>1, <2>2, MarkedInOrder
      <4>. QED
        BY <2>3, <4>1, <4>2 DEF NoneAbove
    <3>3. CASE s # activeId
      <4>1. s \in DOMAIN segMax /\ segMax'[s] = segMax[s]
        BY <2>1, <2>3, <3>3 DEF Counted, Put
      <4>2. disk'[s] = disk[s]
        BY <2>1, <3>1, <3>3 DEF Marks
      <4>. QED
        BY <2>2, <2>3, <3>1, <3>3, <4>1, <4>2 DEF KnowsAll
    <3>. QED
      BY <3>2, <3>3
  <2>4. KnowsAll(disk', segMax', activeId', Pending')
    BY <2>3 DEF KnowsAll
  <2>5. Len(disk'[activeId'].items) = Len(disk[activeId].items)
    BY <2>1 DEF Marks
  <2>6. pc = "return" /\ pc' = "idle" /\ activeRecs' = activeRecs /\ flushed' = flushed
    BY <1>7 DEF Acknowledge
  <2>7. OneByOne'
    BY <2>2, <2>5, <2>6 DEF OneByOne, Appending
  <2>. QED
    BY <1>1, <2>4, <2>7 DEF SyncedInv
<1>8. CASE \E w \in 0 .. lastSeqno : RemoveSegmentsCovered(w)
  <2>1. /\ isOpen /\ pc = "idle" /\ pc' = pc /\ activeId' = activeId
        /\ activeRecs' = activeRecs /\ flushed' = flushed
    BY <1>8 DEF RemoveSegmentsCovered
  <2>2. /\ Keeps(disk', disk) /\ activeId \in DOMAIN disk'
        /\ \A s \in DOMAIN disk' : disk'[s] = disk[s]
        /\ DOMAIN segMax' \subseteq DOMAIN segMax
        /\ \A s \in DOMAIN segMax' : segMax'[s] = segMax[s]
    BY <1>8, RemovedSegments
  <2>3. Pending = 0 /\ Pending' = 0
    BY <2>1 DEF Pending, Appending
  <2>4. OneByOne /\ KnowsAll(disk, segMax, activeId, 0)
    BY <2>1, <2>3 DEF SyncedInv
  <2>5. KnowsAll(disk', segMax', activeId', 0)
    BY <2>2, <2>4, KeptKnowsAll
  <2>6. OneByOne'
    BY <2>1, <2>2, <2>4 DEF OneByOne, Appending
  <2>. QED
    BY <1>1, <2>3, <2>5, <2>6 DEF SyncedInv
<1>9. CASE UNCHANGED vars
  <2>1. /\ disk' = disk /\ activeId' = activeId /\ segMax' = segMax /\ pc' = pc
        /\ activeRecs' = activeRecs /\ flushed' = flushed /\ isOpen' = isOpen
    BY <1>9 DEF vars, memoryVars
  <2>. QED
    BY <1>1, <2>1 DEF SyncedInv, OneByOne, Pending, Appending
<1>10. CASE Close \/ ProcessCrash \/ PowerCut \/ CrashInRoll \/ NoNextFile
  <2>1. ~isOpen'
    BY <1>10 DEF Close, ProcessCrash, PowerCut, CrashInRoll, NoNextFile, Die
  <2>. QED
    BY <1>1, <2>1 DEF SyncedInv
<1>11. CASE WriteFails \/ SyncFails \/ HeaderFails
  BY <1>11 DEF WriteFails, SyncFails, HeaderFails, NoFailures
<1>. QED
  BY <1>2, <1>3, <1>4, <1>5, <1>6, <1>7, <1>8, <1>9, <1>10, <1>11 DEF Next

(* A segment with m records, the one under way apart.                      *)
LEMMA FewInSegment ==
    ASSUME NEW d, NEW a, NEW n, NEW R, LoggedIs(R, d, a, n), NEW m \in Nat,
           \A i \in 1 .. Len(d[a].items) : i # n => i \in 1 .. m
    PROVE  /\ Cardinality({r \in R : r.seg = a}) \in Nat
           /\ Cardinality({r \in R : r.seg = a}) <= m
<1>. DEFINE f == [i \in 1 .. m |-> RecordOf(a, d[a].items[i])]
            U == {f[i] : i \in 1 .. m}
<1>1. PICK T : T = {r \in R : r.seg = a}
  OBVIOUS
<1>2. f \in Surjection(1 .. m, U)
  BY DEF Surjection
<1>3. IsFiniteSet(1 .. m) /\ Cardinality(1 .. m) = m
  BY FS_Interval
<1>4. IsFiniteSet(U) /\ Cardinality(U) <= m
  BY <1>2, <1>3, FS_Surjection
<1>5. T \subseteq U
  <2>1. ASSUME NEW r \in T
        PROVE  r \in U
    <3>1. PICK s \in DOMAIN d : \E i \in 1 .. Len(d[s].items) :
              ~(s = a /\ i = n) /\ r = RecordOf(s, d[s].items[i])
      BY <1>1, <2>1 DEF LoggedIs, Holds
    <3>2. PICK i \in 1 .. Len(d[s].items) :
              ~(s = a /\ i = n) /\ r = RecordOf(s, d[s].items[i])
      BY <3>1
    <3>3. s = a
      BY <1>1, <2>1, <3>2 DEF RecordOf
    <3>. QED
      BY <3>2, <3>3
  <2>. QED
    BY <2>1
<1>6. T \in SUBSET U
  BY <1>5
<1>7. IsFiniteSet(T) /\ Cardinality(T) <= Cardinality(U)
  BY <1>4, <1>6, FS_Subset
<1>8. Cardinality(T) \in Nat /\ Cardinality(U) \in Nat
  BY <1>4, <1>7, FS_CardinalityType
<1>9. PICK t \in Nat : t = Cardinality(T)
  BY <1>8
<1>10. PICK u \in Nat : u = Cardinality(U)
  BY <1>8
<1>11. t <= m
  BY <1>4, <1>7, <1>9, <1>10
<1>. QED
  BY <1>1, <1>9, <1>11

(* What the refinement uses of a state.                                    *)
KeptInv == Typed /\ OrderInv /\ WholeInv /\ SyncedInv

LEMMA KeptHere == KeptInv => LoggedHere
<1>. QED
  BY LoggedAre DEF KeptInv

LEMMA KeptInit == Init => KeptInv
<1>. QED
  BY TypedInit, WholeInit, SyncedInit, EmptyIsOrdered DEF KeptInv, OrderInv

LEMMA KeptStep == NoFailures /\ KeptInv /\ Typed' /\ [Next]_vars => KeptInv'
<1>1. ASSUME NoFailures, KeptInv, Typed', [Next]_vars
      PROVE  KeptInv'
  <2>1. Typed /\ OrderInv /\ WholeInv /\ SyncedInv
    BY <1>1 DEF KeptInv
  <2>2. {"write", "header"} \cap Faults = {}
    BY <1>1 DEF NoFailures
  <2>3. OrderInv' /\ WholeInv'
    BY <1>1, <2>1, <2>2, OrderStep, WholeStep
  <2>4. SyncedInv'
    BY <1>1, <2>1, SyncedStep
  <2>. QED
    BY <1>1, <2>3, <2>4 DEF KeptInv
<1>. QED
  BY <1>1

(* The operator of module FiniteSets that DurableLog uses.                 *)
LEMMA SameCardinality ==
    ASSUME NEW S
    PROVE  DL!Cardinality(S) = Cardinality(S)
<1>. QED
  BY DEF DL!Cardinality, Cardinality

(* The record under way goes where DurableLog would put it.                *)
LEMMA PendingIsNext ==
    ASSUME KeptInv, Appending
    PROVE  /\ isOpen /\ activeId \in DOMAIN disk /\ IsDisk(disk)
           /\ Pending \in 1 .. Len(disk[activeId].items)
           /\ disk[activeId].items[Pending].good
           /\ DL!AppendSeg = activeId
           /\ DL!NextRecord(op) = RecordOf(activeId, disk[activeId].items[Pending])
           /\ op \in Op
<1>1. isOpen /\ Typed /\ op \in Op
  BY DEF KeptInv, Typed, Appending
<1>2. /\ activeId \in DOMAIN disk /\ IsDisk(disk)
      /\ Items = disk[activeId].items /\ Len(Items) \in Nat
  BY <1>1, ActiveSegment
<1>3. LastIs(disk[activeId].items, Item(lastSeqno + 1, op))
  BY <1>1 DEF Typed, Appending
<1>4. PICK n \in Nat : n = Len(disk[activeId].items)
  BY <1>2
<1>5. /\ n # 0 /\ Pending = n
      /\ disk[activeId].items[n] = Item(lastSeqno + 1, op)
  <2>1. disk[activeId].items \in Seq(ItemSet)
    BY <1>2, SegmentOf
  <2>2. n # 0
    BY <1>3, <1>4, <2>1, EmptySeq DEF LastIs
  <2>. QED
    BY <1>3, <1>4, <2>2 DEF LastIs, Pending
<1>6. LoggedIs(LoggedRecords, disk, activeId, n)
  BY <1>5, KeptHere DEF LoggedHere
<1>7. OneByOne /\ activeRecs = n /\ n <= RollRecords
  BY <1>1, <1>4 DEF KeptInv, SyncedInv, OneByOne
<1>8. PICK m \in Nat : m + 1 = n
  <2>1. n - 1 \in Nat /\ (n - 1) + 1 = n
    BY <1>5
  <2>. QED
    BY <2>1
<1>9. \A i \in 1 .. Len(disk[activeId].items) : i # n => i \in 1 .. m
  BY <1>4, <1>8
<1>10. PICK c \in Nat : c = Cardinality({r \in LoggedRecords : r.seg = activeId}) /\ c <= m
  BY <1>6, <1>9, FewInSegment
<1>11. ~(c >= RollRecords)
  BY <1>7, <1>8, <1>10, WalAssumption
<1>12. DL!AppendSeg = activeId
  BY <1>10, <1>11, SameCardinality DEF DL!AppendSeg
<1>13. DL!NextRecord(op) = RecordOf(activeId, Item(lastSeqno + 1, op))
  BY <1>12 DEF DL!NextRecord, RecordOf, Item
<1>14. Item(lastSeqno + 1, op).good
  BY DEF Item
<1>. QED
  BY <1>1, <1>2, <1>4, <1>5, <1>12, <1>13, <1>14

(* What a step does to the records of DurableLog.                          *)
LEMMA RecordsStay ==
    ASSUME LoggedHere, LoggedHere',
           SameHeld(disk, activeId, Pending, disk', activeId', Pending')
    PROVE  LoggedRecords' = LoggedRecords
<1>1. PICK R, Q : R = LoggedRecords /\ Q = LoggedRecords'
  OBVIOUS
<1>2. PICK d, e : d = disk /\ e = disk'
  OBVIOUS
<1>3. PICK a, b : a = activeId /\ b = activeId'
  OBVIOUS
<1>4. PICK n, m : n = Pending /\ m = Pending'
  OBVIOUS
<1>5. LoggedIs(R, d, a, n) /\ LoggedIs(Q, e, b, m) /\ SameHeld(d, a, n, e, b, m)
  BY <1>1, <1>2, <1>3, <1>4 DEF LoggedHere
<1>6. Q = R
  BY ONLY <1>5, SameLogged
<1>. QED
  BY <1>1, <1>6

LEMMA RecordsGrow ==
    ASSUME KeptInv, LoggedHere', Appending, activeId' = activeId, Pending' = 0,
           SameHeld(disk, activeId, 0, disk', activeId, 0)
    PROVE  LoggedRecords' = LoggedRecords \cup {DL!NextRecord(op)}
<1>1. PICK new : new = DL!NextRecord(op)
  OBVIOUS
<1>2. \A r : Holds(disk, activeId, 0, r) <=> Holds(disk, activeId, Pending, r) \/ r = new
  BY <1>1, PendingIsNext, PendingCounts
<1>3. \A r : r \in LoggedRecords <=> Holds(disk, activeId, Pending, r)
  BY KeptHere DEF LoggedHere, LoggedIs
<1>4. \A r : r \in LoggedRecords' <=> Holds(disk', activeId, 0, r)
  BY DEF LoggedHere, LoggedIs
<1>5. \A r : Holds(disk, activeId, 0, r) <=> Holds(disk', activeId, 0, r)
  BY DEF SameHeld
<1>6. \A r : r \in LoggedRecords' <=> r \in LoggedRecords \/ r = new
  BY <1>2, <1>3, <1>4, <1>5
<1>. QED
  BY <1>1, <1>6

(* A step that keeps the log as it is.                                     *)
LEMMA LogStands ==
    ASSUME LoggedHere, LoggedHere',
           SameHeld(disk, activeId, Pending, disk', activeId', Pending'),
           DOMAIN disk' = DOMAIN disk, activeId' = activeId, lastSeqno' = lastSeqno,
           isOpen' = isOpen
    PROVE  UNCHANGED DL!logVars
<1>. QED
  BY RecordsStay DEF DL!logVars

LEMMA OpenRefines ==
    ASSUME KeptInv, LoggedHere, LoggedHere', Open
    PROVE  \E w \in 0 .. lastSeqno' : DL!Open(w)
<1>1. /\ IsDisk(disk) /\ floor \in Nat /\ synced \in Nat /\ ~isOpen /\ isOpen'
      /\ Pending = 0 /\ Pending' = 0 /\ Typed /\ WholeInv
  BY DEF KeptInv, Typed, Open, Pending, Appending
<1>2. /\ IsDisk(disk') /\ IsNewest(disk', activeId') /\ Keeps(disk', disk)
      /\ DOMAIN disk' = DOMAIN disk \cup {activeId'}
      /\ IF DOMAIN disk = {} THEN activeId' = 1 /\ disk'[1] = NewSegment(TRUE)
         ELSE activeId' = Newest
      /\ \A s \in DOMAIN disk : disk'[s].items = Readable(disk[s])
  BY <1>1, Opened
<1>3. /\ lastSeqno' \in Nat /\ floor <= lastSeqno'
      /\ \A s \in DOMAIN disk' : \A i \in 1 .. Len(disk'[s].items) :
            disk'[s].items[i].seq <= lastSeqno'
      /\ lastSeqno' = floor \/ \E s \in DOMAIN disk : lastSeqno' = segMax'[s]
  BY <1>1, Seeded
<1>4. Keeps(disk, disk')
  <2>1. ASSUME NEW s \in DOMAIN disk, NEW i \in 1 .. Len(disk[s].items), disk[s].items[i].good
        PROVE  /\ s \in DOMAIN disk' /\ i \in 1 .. Len(disk'[s].items)
               /\ disk[s].items[i] = disk'[s].items[i]
    <3>1. <<s, i>> \in Replayed
      BY <1>1, <2>1, GoodIsReplayed
    <3>2. PICK t \in DOMAIN disk : <<s, i>> \in {t} \X DOMAIN Readable(disk[t])
      BY <3>1 DEF Replayed
    <3>3. i \in DOMAIN Readable(disk[s])
      BY <3>2
    <3>4. disk[s] \in Segments
      BY <1>1 DEF IsDisk
    <3>5. i \in 1 .. Len(Readable(disk[s])) /\ Readable(disk[s])[i] = disk[s].items[i]
      BY <3>3, <3>4, ReadableItems
    <3>. QED
      BY <1>2, <3>5
  <2>. QED
    BY <2>1 DEF Keeps
<1>5. LoggedRecords' = LoggedRecords
  <2>1. SameHeld(disk, activeId, Pending, disk', activeId', Pending')
    BY <1>1, <1>2, <1>4, KeptIsHeld
  <2>. QED
    BY <2>1, RecordsStay
<1>6. ASSUME NEW r \in LoggedRecords
      PROVE  r.seq \in Nat /\ r.seq <= lastSeqno'
  <2>1. Holds(disk', activeId', 0, r)
    BY <1>1, <1>5, <1>6 DEF LoggedHere, LoggedIs
  <2>2. PICK s \in DOMAIN disk' : \E i \in 1 .. Len(disk'[s].items) :
            r = RecordOf(s, disk'[s].items[i])
    BY <2>1 DEF Holds
  <2>3. PICK i \in 1 .. Len(disk'[s].items) : r = RecordOf(s, disk'[s].items[i])
    BY <2>2
  <2>4. r.seq = disk'[s].items[i].seq
    BY <2>3 DEF RecordOf
  <2>5. disk'[s].items[i] \in ItemSet
    BY <1>2, SegmentOf
  <2>. QED
    BY <1>3, <2>4, <2>5, ItemFields
<1>7. lastSeqno' \in {floor} \cup {r.seq : r \in LoggedRecords}
  <2>1. CASE lastSeqno' = floor
    BY <2>1
  <2>2. CASE lastSeqno' # floor
    <3>1. PICK s \in DOMAIN disk : lastSeqno' = segMax'[s]
      BY <1>3, <2>2
    <3>2. segMax'[s] = MaxSeqnoOf(CutTail(disk[s]))
      BY <3>1 DEF Open
    <3>3. PICK items : items = Readable(disk[s])
      OBVIOUS
    <3>4. disk[s] \in Segments
      BY <1>1 DEF IsDisk
    <3>5. /\ items \in Seq(ItemSet) /\ DOMAIN items = 1 .. Len(items)
          /\ \A i \in 1 .. Len(items) : items[i].good
      BY <3>3, <3>4, ReadableItems
    <3>6. lastSeqno' = MaxSeqnoOf(items)
      BY <3>1, <3>2, <3>3 DEF CutTail
    <3>7. lastSeqno' # 0
      BY <1>1, <1>3, <2>2
    <3>8. PICK i \in 1 .. Len(items) : items[i].seq = lastSeqno'
      BY <3>5, <3>6, <3>7, HighestSeqno
    <3>9. disk'[s].items = items /\ s \in DOMAIN disk'
      BY <1>2, <3>3
    <3>10. PICK r : r = RecordOf(s, items[i])
      OBVIOUS
    <3>11. i # 0 /\ items[i].good
      BY <3>5
    <3>12. Holds(disk', activeId', 0, r)
      BY <3>9, <3>10, <3>11 DEF Holds
    <3>13. r \in LoggedRecords
      BY <1>1, <1>5, <3>12 DEF LoggedHere, LoggedIs
    <3>14. r.seq = lastSeqno'
      BY <3>8, <3>10 DEF RecordOf
    <3>. QED
      BY <3>13, <3>14
  <2>. QED
    BY <2>1, <2>2
<1>8. \A m \in {floor} \cup {r.seq : r \in LoggedRecords} : m <= lastSeqno'
  BY <1>3, <1>6
<1>9. /\ activeId' \in DOMAIN disk \cup {1} /\ DOMAIN disk' = DOMAIN disk \cup {activeId'}
      /\ IF DOMAIN disk = {} THEN activeId' = 1
         ELSE activeId' \in DOMAIN disk /\ \A q \in DOMAIN disk : q <= activeId'
  <2>1. CASE DOMAIN disk = {}
    BY <1>2, <2>1
  <2>2. CASE DOMAIN disk # {}
    <3>1. IsNewest(disk, activeId')
      BY <1>1, <1>2, <2>2, NewestOf DEF Newest
    <3>. QED
      BY <1>2, <2>2, <3>1 DEF IsNewest
  <2>. QED
    BY <2>1, <2>2
<1>10. DL!Open(floor)
  BY <1>1, <1>5, <1>7, <1>8, <1>9 DEF DL!Open
<1>. QED
  BY <1>1, <1>3, <1>10

LEMMA RollRefines ==
    ASSUME KeptInv, LoggedHere, LoggedHere', Roll \/ RollForSize
    PROVE  DL!Roll
<1>1. /\ isOpen /\ RollSegment /\ pc \in {"idle", "roll"} /\ pc' \in {"idle", "write"}
      /\ Typed /\ IsDisk(disk)
  BY DEF Roll, RollForSize, KeptInv, Typed
<1>2. Adds(disk', disk, activeId + 1, NewSegment(TRUE))
  BY <1>1, TypedRoll
<1>3. /\ IsDisk(disk') /\ Keeps(disk', disk) /\ Keeps(disk, disk')
      /\ DOMAIN disk' = DOMAIN disk \cup {activeId + 1}
  BY <1>2 DEF Adds, Keeps
<1>4. Pending = 0 /\ Pending' = 0
  BY <1>1 DEF Pending, Appending
<1>5. SameHeld(disk, activeId, Pending, disk', activeId', Pending')
  BY <1>1, <1>3, <1>4, KeptIsHeld
<1>6. LoggedRecords' = LoggedRecords
  BY <1>5, RecordsStay
<1>7. activeId' = activeId + 1 /\ lastSeqno' = lastSeqno /\ isOpen' = isOpen
  BY <1>1 DEF RollSegment
<1>. QED
  BY <1>1, <1>3, <1>6, <1>7 DEF DL!Roll

LEMMA WriteStutters ==
    ASSUME NoFailures, KeptInv, LoggedHere, LoggedHere', WriteRecord
    PROVE  UNCHANGED DL!logVars
<1>1. Typed
  BY DEF KeptInv
<1>2. PICK item \in ItemSet :
          /\ isOpen /\ isOpen' /\ IsDisk(disk) /\ activeId \in DOMAIN disk
          /\ Appends(disk', disk, activeId, item)
          /\ lastSeqno' = lastSeqno /\ activeId' = activeId
          /\ ~Appending /\ Appending'
  BY <1>1, RecordWritten
<1>3. Pending = 0 /\ Pending' = Len(disk'[activeId'].items)
  BY <1>2 DEF Pending
<1>4. SameHeld(disk, activeId, Pending, disk', activeId', Pending')
  BY <1>2, <1>3, AppendedIsPending
<1>5. DOMAIN disk' = DOMAIN disk /\ isOpen' = isOpen
  BY <1>2 DEF Appends, WriteRecord
<1>. QED
  BY <1>2, <1>4, <1>5, LogStands

LEMMA AcknowledgeRefines ==
    ASSUME KeptInv, LoggedHere, LoggedHere', Acknowledge
    PROVE  \E o \in Op : DL!Append(o)
<1>1. Typed /\ Appending /\ Pending' = 0
  BY DEF KeptInv, Acknowledge, Appending, Pending
<1>2. PICK n \in 1 .. Len(disk[activeId].items) :
          /\ disk[activeId].items[n].good
          /\ isOpen /\ activeId \in DOMAIN disk
          /\ Marks(disk', disk, activeId, n)
          /\ lastSeqno' = lastSeqno + 1 /\ activeId' = activeId
  BY <1>1, RecordAcknowledged
<1>3. SameHeld(disk, activeId, 0, disk', activeId, 0)
  BY <1>2, MarkedIsHeld
<1>4. LoggedRecords' = LoggedRecords \cup {DL!NextRecord(op)}
  BY <1>1, <1>2, <1>3, RecordsGrow
<1>5. DL!AppendSeg = activeId /\ op \in Op
  BY <1>1, PendingIsNext
<1>6. DOMAIN disk' = DOMAIN disk \cup {activeId} /\ isOpen' = isOpen
  BY <1>2 DEF Marks, Acknowledge
<1>7. DL!Append(op)
  BY <1>2, <1>4, <1>5, <1>6 DEF DL!Append
<1>. QED
  BY <1>5, <1>7

LEMMA RemoveRefines ==
    ASSUME KeptInv, LoggedHere, LoggedHere', NEW w \in 0 .. lastSeqno, RemoveSegmentsCovered(w)
    PROVE  \E gone \in SUBSET DL!Covered(w) : DL!RemoveSegments(gone)
<1>1. /\ Typed /\ isOpen /\ Pending = 0 /\ Pending' = 0
      /\ activeId' = activeId /\ lastSeqno' = lastSeqno /\ isOpen' = isOpen
  BY DEF KeptInv, RemoveSegmentsCovered, Pending, Appending
<1>2. /\ activeId \in DOMAIN disk' /\ DOMAIN disk' \subseteq DOMAIN disk
      /\ \A s \in DOMAIN disk' : disk'[s] = disk[s]
      /\ \A s \in DOMAIN disk \ DOMAIN disk' : s \in DOMAIN segMax /\ segMax[s] <= w
  BY <1>1, RemovedSegments
<1>3. PICK gone : gone = DOMAIN disk \ DOMAIN disk'
  OBVIOUS
<1>4. ASSUME NEW r
      PROVE  Holds(disk', activeId, 0, r) <=> Holds(disk, activeId, 0, r) /\ r.seg \notin gone
  <2>1. ASSUME Holds(disk', activeId, 0, r)
        PROVE  Holds(disk, activeId, 0, r) /\ r.seg \notin gone
    <3>1. PICK s \in DOMAIN disk' : \E i \in 1 .. Len(disk'[s].items) :
              /\ disk'[s].items[i].good /\ ~(s = activeId /\ i = 0)
              /\ r = RecordOf(s, disk'[s].items[i])
      BY <2>1 DEF Holds
    <3>2. s \in DOMAIN disk /\ disk'[s] = disk[s] /\ s \notin gone
      BY <1>2, <1>3
    <3>3. r.seg = s
      BY <3>1 DEF RecordOf
    <3>. QED
      BY <3>1, <3>2, <3>3 DEF Holds
  <2>2. ASSUME Holds(disk, activeId, 0, r), r.seg \notin gone
        PROVE  Holds(disk', activeId, 0, r)
    <3>1. PICK s \in DOMAIN disk : \E i \in 1 .. Len(disk[s].items) :
              /\ disk[s].items[i].good /\ ~(s = activeId /\ i = 0)
              /\ r = RecordOf(s, disk[s].items[i])
      BY <2>2 DEF Holds
    <3>2. r.seg = s
      BY <3>1 DEF RecordOf
    <3>3. s \in DOMAIN disk' /\ disk'[s] = disk[s]
      BY <1>2, <1>3, <2>2, <3>2
    <3>. QED
      BY <3>1, <3>3 DEF Holds
  <2>. QED
    BY <2>1, <2>2
<1>5. /\ \A r : r \in LoggedRecords <=> Holds(disk, activeId, 0, r)
      /\ \A r : r \in LoggedRecords' <=> Holds(disk', activeId, 0, r)
  BY <1>1 DEF LoggedHere, LoggedIs
<1>6. LoggedRecords' = {r \in LoggedRecords : r.seg \notin gone}
  BY <1>4, <1>5
<1>7. DOMAIN disk' = DOMAIN disk \ gone
  BY <1>2, <1>3
<1>8. DL!RemoveSegments(gone)
  BY <1>1, <1>6, <1>7 DEF DL!RemoveSegments
<1>9. KnowsAll(disk, segMax, activeId, 0)
  BY <1>1 DEF KeptInv, SyncedInv
<1>10. ASSUME NEW s \in gone, NEW r \in LoggedRecords, r.seg = s
       PROVE  r.seq <= w
  <2>1. Holds(disk, activeId, 0, r)
    BY <1>5
  <2>2. PICK t \in DOMAIN disk : \E i \in 1 .. Len(disk[t].items) :
            disk[t].items[i].good /\ r = RecordOf(t, disk[t].items[i])
    BY <2>1 DEF Holds
  <2>3. PICK i \in 1 .. Len(disk[t].items) :
            disk[t].items[i].good /\ r = RecordOf(t, disk[t].items[i])
    BY <2>2
  <2>4. t = s /\ r.seq = disk[t].items[i].seq /\ i # 0
    BY <1>10, <2>3 DEF RecordOf
  <2>5. s \in DOMAIN segMax /\ segMax[s] <= w
    BY <1>2, <1>3
  <2>6. r.seq <= segMax[s]
    BY <1>9, <2>3, <2>4, <2>5 DEF KnowsAll
  <2>7. disk[t].items[i].seq \in Nat /\ segMax[s] \in Nat /\ w \in Nat
    BY <1>1, <2>5, SegmentOf, ItemFields DEF Typed
  <2>. QED
    BY <2>4, <2>5, <2>6, <2>7
<1>11. gone \in SUBSET DL!Covered(w)
  BY <1>2, <1>3, <1>10 DEF DL!Covered
<1>. QED
  BY <1>8, <1>11

LEMMA CrashInRollRefines ==
    ASSUME KeptInv, LoggedHere, LoggedHere', CrashInRoll
    PROVE  DL!CrashInRoll
<1>1. /\ isOpen /\ isOpen' = FALSE /\ Typed /\ IsDisk(disk)
      /\ disk' = Put(disk, activeId + 1, NewSegment(FALSE))
      /\ activeId' = activeId /\ lastSeqno' = lastSeqno
  BY DEF CrashInRoll, Die, memoryVars, KeptInv, Typed
<1>2. Adds(disk', disk, activeId + 1, NewSegment(FALSE))
  BY <1>1, SegmentStarted DEF FreshSegments
<1>3. /\ IsDisk(disk') /\ Keeps(disk', disk) /\ Keeps(disk, disk')
      /\ DOMAIN disk' = DOMAIN disk \cup {activeId + 1}
  BY <1>2 DEF Adds, Keeps
<1>4. Pending = 0 /\ Pending' = 0
  BY DEF CrashInRoll, Die, Pending, Appending
<1>5. SameHeld(disk, activeId, Pending, disk', activeId', Pending')
  BY <1>1, <1>3, <1>4, KeptIsHeld
<1>6. LoggedRecords' = LoggedRecords
  BY <1>5, RecordsStay
<1>. QED
  BY <1>1, <1>3, <1>6 DEF DL!CrashInRoll

(* Of the active segment a crash takes the record under way or nothing.    *)
LEMMA CrashRefines ==
    ASSUME KeptInv, LoggedHere, LoggedHere', ProcessCrash
    PROVE  DL!Crash \/ \E o \in Op : DL!CrashInAppend(o)
<1>1. /\ Typed /\ isOpen /\ isOpen' = FALSE /\ Pending' = 0
      /\ activeId' = activeId /\ lastSeqno' = lastSeqno
  BY DEF ProcessCrash, Die, memoryVars, KeptInv, Pending, Appending
<1>2. /\ activeId = Newest /\ activeId \in DOMAIN disk /\ Items = disk[activeId].items
      /\ Items \in Seq(ItemSet) /\ Len(Items) \in Nat /\ IsDisk(disk)
  BY <1>1, ActiveSegment
<1>3. PICK n \in 0 .. Len(Items) : \E left \in Survivors(n) :
          n >= flushed /\ disk' = [disk EXCEPT ![Newest].items = left]
  BY <1>1, CrashedIn
<1>4. PICK left \in Survivors(n) :
          n >= flushed /\ disk' = [disk EXCEPT ![Newest].items = left]
  BY <1>3
<1>5. /\ IsDisk(disk') /\ DOMAIN disk' = DOMAIN disk /\ disk'[activeId].items = left
      /\ \A t \in DOMAIN disk \ {activeId} : disk'[t] = disk[t]
      /\ Keeps(disk', disk)
  BY <1>2, <1>4, Survived
<1>6. /\ Len(left) \in n .. n + 1 /\ Len(left) <= Len(Items)
      /\ \A i \in 1 .. n : left[i] = Items[i]
      /\ Len(left) = n + 1 => left[n + 1] = Torn
  BY <1>2, SurvivingItems
<1>7. OneByOne /\ flushed \in Nat
  BY <1>1 DEF KeptInv, SyncedInv, Typed
<1>8. PICK m \in Nat : m = Len(Items)
  BY <1>2
<1>9. n = m \/ (n + 1 = m /\ pc = "sync")
  BY <1>2, <1>4, <1>7, <1>8 DEF OneByOne
<1>10. CASE n = m
  <2>1. Keeps(disk, disk')
    <3>1. ASSUME NEW s \in DOMAIN disk, NEW i \in 1 .. Len(disk[s].items)
          PROVE  /\ s \in DOMAIN disk' /\ i \in 1 .. Len(disk'[s].items)
                 /\ disk[s].items[i] = disk'[s].items[i]
      <4>1. CASE s = activeId
        <5>1. Len(left) = m /\ i \in 1 .. m
          BY <1>2, <1>6, <1>8, <1>10, <3>1, <4>1
        <5>. QED
          BY <1>2, <1>5, <1>6, <1>10, <4>1, <5>1
      <4>2. CASE s # activeId
        BY <1>5, <4>2
      <4>. QED
        BY <4>1, <4>2
    <3>. QED
      BY <3>1 DEF Keeps
  <2>2. SameHeld(disk, activeId, 0, disk', activeId, 0)
    BY <1>2, <1>5, <2>1, KeptIsHeld
  <2>3. CASE Appending
    <3>1. LoggedRecords' = LoggedRecords \cup {DL!NextRecord(op)}
      BY <1>1, <2>2, <2>3, RecordsGrow
    <3>2. DL!AppendSeg = activeId /\ op \in Op
      BY <2>3, PendingIsNext
    <3>3. DOMAIN disk' = DOMAIN disk \cup {activeId}
      BY <1>2, <1>5
    <3>4. DL!CrashInAppend(op)
      BY <1>1, <3>1, <3>2, <3>3 DEF DL!CrashInAppend
    <3>. QED
      BY <3>2, <3>4
  <2>4. CASE ~Appending
    <3>1. Pending = 0
      BY <2>4 DEF Pending
    <3>2. LoggedRecords' = LoggedRecords
      BY <1>1, <2>2, <3>1, RecordsStay
    <3>. QED
      BY <1>1, <1>5, <3>2 DEF DL!Crash
  <2>. QED
    BY <2>3, <2>4
<1>11. CASE n + 1 = m /\ pc = "sync"
  <2>1. Pending = m
    BY <1>2, <1>8, <1>11 DEF Pending, Appending
  <2>2. ASSUME NEW r, Holds(disk, activeId, m, r)
        PROVE  Holds(disk', activeId, 0, r)
    <3>1. PICK s \in DOMAIN disk : \E i \in 1 .. Len(disk[s].items) :
              /\ disk[s].items[i].good /\ ~(s = activeId /\ i = m)
              /\ r = RecordOf(s, disk[s].items[i])
      BY <2>2 DEF Holds
    <3>2. PICK i \in 1 .. Len(disk[s].items) :
              /\ disk[s].items[i].good /\ ~(s = activeId /\ i = m)
              /\ r = RecordOf(s, disk[s].items[i])
      BY <3>1
    <3>3. i \in 1 .. Len(disk'[s].items) /\ disk'[s].items[i] = disk[s].items[i] /\ i # 0
      <4>1. CASE s = activeId
        <5>1. i \in 1 .. n
          BY <1>2, <1>8, <1>11, <3>2, <4>1
        <5>2. i \in 1 .. Len(left)
          BY <1>6, <5>1
        <5>. QED
          BY <1>2, <1>5, <1>6, <4>1, <5>1, <5>2
      <4>2. CASE s # activeId
        BY <1>5, <4>2
      <4>. QED
        BY <4>1, <4>2
    <3>. QED
      BY <1>5, <3>2, <3>3 DEF Holds
  <2>3. ASSUME NEW r, Holds(disk', activeId, 0, r)
        PROVE  Holds(disk, activeId, m, r)
    <3>1. PICK s \in DOMAIN disk' : \E i \in 1 .. Len(disk'[s].items) :
              disk'[s].items[i].good /\ r = RecordOf(s, disk'[s].items[i])
      BY <2>3 DEF Holds
    <3>2. PICK i \in 1 .. Len(disk'[s].items) :
              disk'[s].items[i].good /\ r = RecordOf(s, disk'[s].items[i])
      BY <3>1
    <3>3. /\ s \in DOMAIN disk /\ i \in 1 .. Len(disk[s].items)
          /\ disk'[s].items[i] = disk[s].items[i]
      BY <1>5, <3>2 DEF Keeps
    <3>4. ~(s = activeId /\ i = m)
      <4>1. ASSUME s = activeId, i = m
            PROVE  FALSE
        <5>1. Len(left) = n + 1
          BY <1>5, <1>6, <1>11, <3>2, <4>1
        <5>2. disk'[s].items[i] = Torn
          BY <1>5, <1>6, <1>11, <4>1, <5>1
        <5>. QED
          BY <3>2, <5>2, TornIsItem
      <4>. QED
        BY <4>1
    <3>. QED
      BY <3>2, <3>3, <3>4 DEF Holds
  <2>4. SameHeld(disk, activeId, Pending, disk', activeId', Pending')
    BY <1>1, <2>1, <2>2, <2>3 DEF SameHeld
  <2>5. LoggedRecords' = LoggedRecords
    BY <2>4, RecordsStay
  <2>. QED
    BY <1>1, <1>5, <2>5 DEF DL!Crash
<1>. QED
  BY <1>9, <1>10, <1>11

LEMMA WalRefines ==
    ASSUME NoFailures, KeptInv, LoggedHere, LoggedHere', [Next]_vars
    PROVE  [DL!Next]_DL!logVars
<1>. USE DEF DL!Next
<1>1. CASE Open
  BY <1>1, OpenRefines
<1>2. CASE Roll \/ RollForSize
  BY <1>2, RollRefines
<1>3. CASE Sync \/ SyncRecord \/ (\E o \in Op : BeginAppend(o)) \/ UNCHANGED vars
  <2>1. /\ disk' = disk /\ activeId' = activeId /\ lastSeqno' = lastSeqno
        /\ isOpen' = isOpen
    BY <1>3 DEF Sync, SyncRecord, BeginAppend, vars, memoryVars
  <2>2. Pending' = Pending
    BY <1>3, <2>1 DEF Sync, SyncRecord, BeginAppend, vars, Pending, Appending
  <2>3. SameHeld(disk, activeId, Pending, disk', activeId', Pending')
    BY <2>1, <2>2 DEF SameHeld
  <2>. QED
    BY <2>1, <2>3, LogStands
<1>4. CASE Close
  <2>1. /\ disk' = disk /\ activeId' = activeId /\ lastSeqno' = lastSeqno
        /\ isOpen /\ isOpen' = FALSE /\ Pending' = Pending
    BY <1>4 DEF Close, Pending, Appending
  <2>2. SameHeld(disk, activeId, Pending, disk', activeId', Pending')
    BY <2>1 DEF SameHeld
  <2>3. LoggedRecords' = LoggedRecords
    BY <2>2, RecordsStay
  <2>. QED
    BY <2>1, <2>3 DEF DL!Close
<1>5. CASE WriteRecord
  BY <1>5, WriteStutters
<1>6. CASE Acknowledge
  BY <1>6, AcknowledgeRefines
<1>7. CASE \E w \in 0 .. lastSeqno : RemoveSegmentsCovered(w)
  BY <1>7, RemoveRefines
<1>8. CASE ProcessCrash
  BY <1>8, CrashRefines
<1>9. CASE CrashInRoll
  BY <1>9, CrashInRollRefines
<1>10. CASE WriteFails \/ SyncFails \/ HeaderFails \/ NoNextFile
  BY <1>10 DEF WriteFails, SyncFails, HeaderFails, NoNextFile, NoFailures
<1>11. CASE PowerCut
  BY <1>11 DEF PowerCut, NoFailures, KeptInv, SyncedInv
<1>. QED
  BY <1>1, <1>2, <1>3, <1>4, <1>5, <1>6, <1>7, <1>8, <1>9, <1>10, <1>11 DEF Next

(* With a sync for every record, no failing call and no power cut the      *)
(* segment files keep what DurableLog promises to the engine: a record     *)
(* whose append returned stays until its whole segment is covered.         *)
THEOREM WalIsDurableLog ==
    FsyncEveryN = 1 /\ Faults = {} /\ MaxPowerCuts = 0 => (Spec => ImplementsDurableLog)
<1>. SUFFICES ASSUME NoFailures
              PROVE  Spec => ImplementsDurableLog
  BY DEF NoFailures
<1>1. Init => DL!Init
  <2>1. ASSUME Init
        PROVE  DL!Init
    <3>1. DOMAIN disk = {}
      BY <2>1 DEF Init
    <3>2. Replayed = {}
      BY <3>1 DEF Replayed
    <3>. QED
      BY <2>1, <3>1, <3>2 DEF Init, DL!Init, LoggedRecords
  <2>. QED
    BY <2>1
<1>2. KeptInv /\ Typed' /\ [Next]_vars => KeptInv'
  BY KeptStep
<1>3. KeptInv /\ LoggedHere /\ LoggedHere' /\ [Next]_vars => [DL!Next]_DL!logVars
  BY WalRefines
<1>4. Spec => []KeptInv
  BY <1>2, AlwaysTyped, KeptInit, PTL DEF Spec
<1>5. Spec => [][DL!Next]_DL!logVars
  BY <1>3, <1>4, KeptHere, PTL DEF Spec
<1>. QED
  BY <1>1, <1>5, PTL DEF Spec, ImplementsDurableLog, DL!Spec

=============================================================================
