----------------------------- MODULE ReadsProofs -----------------------------
(***************************************************************************)
(* Proofs about module Reads: for any number of threads calling get(), any *)
(* max_open_files and any bounds, versions and threads are well formed, no *)
(* file that a Version in use refers to is missing, and every get is       *)
(* linearizable.                                                           *)
(*                                                                         *)
(* The argument: in every Version the search order is the order of age,    *)
(* newest first, as far as the key is present at all; a Version, once      *)
(* published, only ever gains newer writes, in its active memtable; and    *)
(* what the current Version holds is the last write.                       *)
(*                                                                         *)
(* The pool of open files is a second argument, at the end of the module:  *)
(* a handle that still lives is open exactly when it is in one place,      *)
(* the list of recently used files or the victims of one evicting thread,  *)
(* and in no place twice.                                                  *)
(***************************************************************************)
EXTENDS Reads, CommonLemmas, SequenceTheorems, TLAPS

PCs == {"idle", "memtables", "table", "open", "evict", "requeue", "read", "done"}
AtTable == {"table", "open", "evict", "requeue", "read"}
Version == [act : Nat, imms : Seq(Nat), tabs : Seq(Nat)]
GetRec == [pc : PCs, snap : Version, pos : Nat, result : Nat, since : Nat, done : Nat]

Typed ==
    /\ writes \in Nat /\ mem \in Seq(Nat) /\ tab \in Seq(Nat)
    /\ cur \in Version /\ cur.act = Len(mem)
    /\ job \in [todo : Seq(Nat), deferred : SUBSET Nat]
    /\ get \in [Threads -> GetRec]
    /\ files \subseteq DOMAIN tab /\ open \subseteq DOMAIN tab

(* No memtable and no table holds a write that was not made.               *)
Bounded == /\ \A i \in DOMAIN mem : mem[i] <= writes
           /\ \A t \in DOMAIN tab : tab[t] <= writes

Fits(v) == Range(v.imms) \subseteq DOMAIN mem /\ Range(v.tabs) \subseteq DOMAIN tab
Memtables(v) == {v.act} \cup Range(v.imms)

(* What a get finds first is the newest in the Version.                    *)
Ordered(v) ==
    /\ v.act \in DOMAIN mem
    /\ \A i \in Memtables(v) : mem[i] = 0 \/ \A t \in Range(v.tabs) : tab[t] <= mem[i]
    /\ \A p, q \in DOMAIN v.tabs :
          p < q => tab[v.tabs[p]] = 0 \/ tab[v.tabs[q]] <= tab[v.tabs[p]]

(* Write n, or a later one, is in the Version.                             *)
Reaches(v, n) == \/ n = 0
                 \/ \E i \in Memtables(v) : mem[i] >= n
                 \/ \E t \in Range(v.tabs) : tab[t] >= n

(* The queue that flushes take the oldest of.                              *)
QueueOrdered ==
    /\ \A p \in DOMAIN cur.imms : /\ cur.imms[p] < cur.act
                                  /\ mem[cur.act] = 0 \/ mem[cur.imms[p]] <= mem[cur.act]
    /\ \A p, q \in DOMAIN cur.imms :
          p < q => mem[cur.imms[p]] = 0 \/ mem[cur.imms[q]] <= mem[cur.imms[p]]

CurOK == Fits(cur) /\ Ordered(cur) /\ QueueOrdered /\ Reaches(cur, writes)

(* A get at a table has what it looks for there or in a later one.         *)
ReaderOK(g) ==
    /\ Fits(g.snap)
    /\ g.pc # "idle" => Ordered(g.snap) /\ g.since <= writes
    /\ g.pc = "memtables" => Reaches(g.snap, g.since) /\ g.pos = 0
    /\ g.pc \in AtTable =>
          /\ g.pos \in DOMAIN g.snap.tabs
          /\ g.since = 0 \/ \E q \in DOMAIN g.snap.tabs : g.pos <= q /\ tab[g.snap.tabs[q]] >= g.since
    /\ g.pc = "done" => g.result \in g.since .. writes

(* A table is in the current Version once, and not in it when retired.     *)
FilesOK ==
    /\ \A p, q \in DOMAIN cur.tabs : cur.tabs[p] = cur.tabs[q] => p = q
    /\ Range(job.todo) \cap Range(cur.tabs) = {}
    /\ Range(cur.tabs) \subseteq files
    /\ \A r \in Threads : PinnedBy(r) \subseteq files

Inv == Typed /\ Bounded /\ CurOK /\ FilesOK /\ \A r \in Threads : ReaderOK(get[r])

-----------------------------------------------------------------------------
(* Sequences.                                                              *)

LEMMA AppendFacts ==
    ASSUME NEW S, NEW s \in Seq(S), NEW v \in S
    PROVE  /\ Append(s, v) \in Seq(S)
           /\ Len(s) \in Nat /\ DOMAIN s = 1 .. Len(s)
           /\ Len(Append(s, v)) = Len(s) + 1 /\ DOMAIN Append(s, v) = 1 .. Len(s) + 1
           /\ \A j \in 1 .. Len(s) : Append(s, v)[j] = s[j]
           /\ Append(s, v)[Len(s) + 1] = v
OBVIOUS

LEMMA AppendNat ==
    ASSUME NEW s \in Seq(Nat), NEW x \in Nat
    PROVE  LET n == Len(s) + 1 IN
           /\ Append(s, x) \in Seq(Nat) /\ DOMAIN s = 1 .. n - 1 /\ DOMAIN Append(s, x) = 1 .. n
           /\ \A t \in 1 .. n - 1 : Append(s, x)[t] = s[t] /\ s[t] \in Nat
           /\ Append(s, x)[n] = x
<1>1. \A t \in DOMAIN s : s[t] \in Nat
  OBVIOUS
<1>2. Len(s) \in Nat /\ Len(s) + 1 - 1 = Len(s)
  OBVIOUS
<1>3. /\ Append(s, x) \in Seq(Nat) /\ DOMAIN s = 1 .. Len(s)
      /\ DOMAIN Append(s, x) = 1 .. Len(s) + 1
      /\ \A j \in 1 .. Len(s) : Append(s, x)[j] = s[j]
      /\ Append(s, x)[Len(s) + 1] = x
  BY AppendFacts
<1> QED BY <1>1, <1>2, <1>3

LEMMA FrontFacts ==
    ASSUME NEW S, NEW s \in Seq(S), s # <<>>
    PROVE  /\ Front(s) \in Seq(S) /\ Len(s) \in Nat /\ Len(s) >= 1 /\ DOMAIN s = 1 .. Len(s)
           /\ DOMAIN Front(s) = 1 .. Len(s) - 1
           /\ \A j \in 1 .. Len(s) - 1 : Front(s)[j] = s[j]
           /\ Last(s) = s[Len(s)] /\ Last(s) \in S
           /\ Range(s) = Range(Front(s)) \cup {Last(s)}
<1>1. Len(s) \in Nat /\ Len(s) >= 1 /\ DOMAIN s = 1 .. Len(s)
  OBVIOUS
<1>2. /\ Front(s) \in Seq(S) /\ DOMAIN Front(s) = 1 .. Len(s) - 1
      /\ \A j \in 1 .. Len(s) - 1 : Front(s)[j] = s[j]
  BY <1>1 DEF Front
<1>3. Last(s) = s[Len(s)] /\ Last(s) \in S
  BY <1>1 DEF Last
<1>4. Range(s) = Range(Front(s)) \cup {Last(s)}
  <2>1. \A j \in DOMAIN s : j \in DOMAIN Front(s) \/ j = Len(s)
    BY <1>1, <1>2
  <2>2. Len(s) \in DOMAIN s /\ DOMAIN Front(s) \subseteq DOMAIN s
    BY <1>1, <1>2
  <2> QED BY <2>1, <2>2, <1>2, <1>3 DEF Range
<1> QED BY <1>1, <1>2, <1>3, <1>4

(* x in the place of the elements i .. j.                                  *)
Splice(s, i, j, x) == SubSeq(s, 1, i - 1) \o <<x>> \o SubSeq(s, j + 1, Len(s))

IsSplice(S, s, i, j, x, X) ==
    /\ X \in Seq(S) /\ SubSeq(s, i, j) \in Seq(S)
    /\ Len(s) \in Nat /\ DOMAIN s = 1 .. Len(s) /\ i \in Nat /\ j \in Nat
    /\ DOMAIN X = 1 .. Len(s) - (j - i)
    /\ \A p \in DOMAIN X : X[p] = IF p < i THEN s[p] ELSE IF p = i THEN x ELSE s[p + (j - i)]
    /\ Range(SubSeq(s, i, j)) = {s[p] : p \in i .. j}

LEMMA SpliceFacts ==
    ASSUME NEW S, NEW s \in Seq(S), NEW x \in S, NEW j \in DOMAIN s, NEW i \in 1 .. j - 1
    PROVE  IsSplice(S, s, i, j, x, Splice(s, i, j, x))
<1> DEFINE A == SubSeq(s, 1, i - 1)
           B == SubSeq(s, j + 1, Len(s))
           I == SubSeq(s, i, j)
<1>1. Len(s) \in Nat /\ DOMAIN s = 1 .. Len(s) /\ i \in Nat /\ j \in Nat /\ 1 <= i /\ i < j /\ j <= Len(s)
  OBVIOUS
<1>2. A \in Seq(S) /\ Len(A) = i - 1 /\ \A p \in 1 .. i - 1 : A[p] = s[p]
  BY <1>1
<1>3. B \in Seq(S) /\ Len(B) = Len(s) - j /\ \A p \in 1 .. Len(s) - j : B[p] = s[j + p]
  BY <1>1
<1>4. I \in Seq(S) /\ DOMAIN I = 1 .. j - i + 1 /\ \A p \in 1 .. j - i + 1 : I[p] = s[i + p - 1]
  BY <1>1
<1>5. Range(I) = {s[p] : p \in i .. j}
  <2>1. \A p \in DOMAIN I : i + p - 1 \in i .. j
    BY <1>1, <1>4
  <2>2. \A p \in i .. j : p - i + 1 \in DOMAIN I /\ I[p - i + 1] = s[p]
    BY <1>1, <1>4
  <2>3. Range(I) = {I[p] : p \in DOMAIN I}
    BY DEF Range
  <2>4. \A p \in DOMAIN I : I[p] = s[i + p - 1]
    BY <1>4
  <2> HIDE DEF I
  <2>5. \A y \in Range(I) : y \in {s[p] : p \in i .. j}
    BY <2>1, <2>3, <2>4
  <2>6. \A p \in i .. j : s[p] \in Range(I)
    BY <2>2, <2>3
  <2> QED BY <2>5, <2>6
<1> HIDE DEF A, B
<1>6. <<x>> \in Seq(S) /\ Len(<<x>>) = 1 /\ <<x>>[1] = x
  OBVIOUS
<1> DEFINE AX == A \o <<x>>
<1>7. AX \in Seq(S) /\ Len(AX) = i /\ \A p \in 1 .. i : AX[p] = IF p < i THEN s[p] ELSE x
  <2>1. /\ AX \in Seq(S) /\ Len(AX) = Len(A) + Len(<<x>>)
        /\ \A p \in 1 .. Len(A) + Len(<<x>>) : AX[p] = IF p <= Len(A) THEN A[p] ELSE <<x>>[p - Len(A)]
    BY <1>2, <1>6, ConcatProperties
  <2> QED BY <2>1, <1>1, <1>2, <1>6
<1> HIDE DEF AX
<1> DEFINE X == AX \o B
<1>8. /\ X \in Seq(S) /\ Len(X) = Len(AX) + Len(B)
      /\ \A p \in 1 .. Len(AX) + Len(B) : X[p] = IF p <= Len(AX) THEN AX[p] ELSE B[p - Len(AX)]
  BY <1>3, <1>7, ConcatProperties
<1>9. DOMAIN X = 1 .. Len(s) - (j - i)
  BY <1>8, <1>7, <1>3, <1>1
<1> HIDE DEF X
<1>10. ASSUME NEW p \in DOMAIN X
       PROVE  X[p] = IF p < i THEN s[p] ELSE IF p = i THEN x ELSE s[p + (j - i)]
  <2>1. p \in 1 .. Len(AX) + Len(B) /\ p \in 1 .. Len(s) - (j - i)
    BY <1>1, <1>3, <1>7, <1>9
  <2>2. CASE p <= i
    <3>1. X[p] = AX[p] /\ p \in 1 .. i
      BY <2>1, <2>2, <1>1, <1>7, <1>8
    <3> QED BY <2>2, <3>1, <1>1, <1>7
  <2>3. CASE p > i
    <3>1. X[p] = B[p - i] /\ p - i \in 1 .. Len(s) - j
      BY <2>1, <2>3, <1>1, <1>3, <1>7, <1>8
    <3>2. B[p - i] = s[j + (p - i)]
      BY <3>1, <1>3
    <3>3. p \in Nat /\ j + (p - i) = p + (j - i)
      BY <2>1, <1>1
    <3>4. X[p] = s[p + (j - i)]
      BY <3>1, <3>2, <3>3
    <3> QED BY <2>3, <3>3, <3>4, <1>1
  <2> QED BY <2>1, <2>2, <2>3, <1>1
<1>11. Splice(s, i, j, x) = X
  BY DEF Splice, X, AX, A, B
<1> QED BY <1>1, <1>4, <1>5, <1>8, <1>9, <1>10, <1>11 DEF IsSplice

(* Updates of a Version.                                                   *)
LEMMA RecordUpdates ==
    ASSUME NEW S, NEW v \in [act : Nat, imms : S, tabs : S], NEW a \in Nat, NEW s \in S, NEW t \in S
    PROVE  /\ [v EXCEPT !.act = a] \in [act : Nat, imms : S, tabs : S]
           /\ [v EXCEPT !.act = a, !.imms = s] \in [act : Nat, imms : S, tabs : S]
           /\ [v EXCEPT !.imms = s, !.tabs = t] \in [act : Nat, imms : S, tabs : S]
           /\ [v EXCEPT !.tabs = t] \in [act : Nat, imms : S, tabs : S]
OBVIOUS

LEMMA VersionUpdates ==
    ASSUME NEW v \in Version, NEW a \in Nat, NEW s \in Seq(Nat), NEW t \in Seq(Nat)
    PROVE  /\ [v EXCEPT !.act = a] \in Version
           /\ [v EXCEPT !.act = a, !.imms = s] \in Version
           /\ [v EXCEPT !.imms = s, !.tabs = t] \in Version
           /\ [v EXCEPT !.tabs = t] \in Version
BY RecordUpdates DEF Version

LEMMA NoVersionIsOne == NoVersion \in Version
<1>1. <<>> \in Seq(Nat)
  OBVIOUS
<1> QED BY <1>1 DEF Version, NoVersion

-----------------------------------------------------------------------------
(* Steps in general.                                                       *)

LEMMA InitInv == ReadsAssumption /\ Init => Inv
<1> SUFFICES ASSUME Init PROVE Inv
  OBVIOUS
<1>0. cur \in Version /\ cur.act = 1
  <2>1. NoVersion.act = 0 /\ cur = [NoVersion EXCEPT !.act = 1] /\ 1 \in Nat /\ <<>> \in Seq(Nat)
    BY DEF Init, NoVersion
  <2>2. cur \in Version
    BY <2>1, NoVersionIsOne, VersionUpdates
  <2>3. [NoVersion EXCEPT !.act = 1].act = 1
    BY DEF NoVersion
  <2> QED BY <2>1, <2>2, <2>3
<1> USE DEF Init, NoVersion, NoGet
<1>1. Typed
  <2>1. get \in [Threads -> GetRec]
    BY DEF GetRec, PCs, Version
  <2>3. mem \in Seq(Nat) /\ tab \in Seq(Nat) /\ Len(mem) = 1
    OBVIOUS
  <2>4. job \in [todo : Seq(Nat), deferred : SUBSET Nat]
    OBVIOUS
  <2>5. writes \in Nat /\ files \subseteq DOMAIN tab /\ open \subseteq DOMAIN tab
    OBVIOUS
  <2> QED BY ONLY <1>0, <2>1, <2>3, <2>4, <2>5 DEF Typed
<1>2. Bounded
  BY DEF Bounded
<1>3. CurOK
  BY DEF CurOK, Fits, Ordered, QueueOrdered, Reaches, Memtables, Range
<1>4. FilesOK
  BY DEF FilesOK, PinnedBy, Range
<1>5. \A r \in Threads : ReaderOK(get[r])
  BY DEF ReaderOK, Fits, Range, AtTable
<1> QED BY <1>1, <1>2, <1>3, <1>4, <1>5 DEF Inv

(* A step of one get().                                                    *)
LEMMA ReaderMoves ==
    ASSUME Inv, UNCHANGED <<writes, mem, tab, cur, files, job>>, open' \subseteq DOMAIN tab,
           NEW r \in Threads, NEW g \in GetRec, Step(r, g),
           ReaderOK(g), Range(g.snap.tabs) \subseteq files
    PROVE  Inv'
<1>1. /\ get' \in [Threads -> GetRec] /\ get'[r] = g
      /\ \A s \in Threads : s # r => get'[s] = get[s]
  BY DEF Step, Inv, Typed
<1>2. Typed'
  BY <1>1 DEF Inv, Typed
<1>3. Bounded' /\ CurOK'
  BY DEF Inv, Bounded, CurOK, Fits, Ordered, QueueOrdered, Reaches, Memtables
<1>4. FilesOK'
  BY <1>1 DEF Inv, FilesOK, PinnedBy
<1>5. ASSUME NEW s \in Threads PROVE ReaderOK(get[s])'
  <2>1. ReaderOK(get'[s])
    BY <1>1 DEF Inv
  <2> QED BY <2>1 DEF ReaderOK, Fits, Ordered, Reaches, Memtables
<1> QED BY <1>2, <1>3, <1>4, <1>5 DEF Inv

(* A step of the compaction among its retired handles.                     *)
LEMMA JobMoves ==
    ASSUME Inv, UNCHANGED <<writes, mem, tab, cur, get>>, open' \subseteq DOMAIN tab,
           job' \in [todo : Seq(Nat), deferred : SUBSET Nat],
           Range(job'.todo) \subseteq Range(job.todo),
           files' \subseteq files, Range(cur.tabs) \subseteq files',
           \A r \in Threads : PinnedBy(r) \subseteq files'
    PROVE  Inv'
<1>1. Typed'
  BY DEF Inv, Typed
<1>2. Bounded' /\ CurOK'
  BY DEF Inv, Bounded, CurOK, Fits, Ordered, QueueOrdered, Reaches, Memtables
<1>3. FilesOK'
  BY DEF Inv, FilesOK, PinnedBy
<1>4. ASSUME NEW s \in Threads PROVE ReaderOK(get[s])'
  <2>1. ReaderOK(get'[s])
    BY DEF Inv
  <2> QED BY <2>1 DEF ReaderOK, Fits, Ordered, Reaches, Memtables
<1> QED BY <1>1, <1>2, <1>3, <1>4 DEF Inv

(* Memtables gain newer writes, tables never change, new ones appear.      *)
Grew ==
    /\ writes <= writes' /\ DOMAIN mem \subseteq DOMAIN mem' /\ DOMAIN tab \subseteq DOMAIN tab'
    /\ \A t \in DOMAIN tab : tab'[t] = tab[t]
    /\ \A i \in DOMAIN mem : mem'[i] = mem[i] \/ mem'[i] = writes'

(* What a published Version promises survives that.                        *)
LEMMA VersionKept ==
    ASSUME Typed, Typed', Bounded, Bounded', Grew, NEW v \in Version, Fits(v), Ordered(v)
    PROVE  Fits(v)' /\ Ordered(v)' /\ \A n \in Nat : Reaches(v, n) => Reaches(v, n)'
<1>1. Range(v.imms) \subseteq DOMAIN mem /\ Range(v.tabs) \subseteq DOMAIN tab
  BY DEF Fits
<1>2. Fits(v)'
  BY <1>1 DEF Fits, Grew
<1>3. Memtables(v) \subseteq DOMAIN mem
  BY <1>1 DEF Memtables, Ordered
<1>4. /\ \A i \in DOMAIN mem : mem[i] \in Nat /\ mem'[i] \in Nat /\ mem[i] <= mem'[i]
      /\ \A t \in DOMAIN tab : tab[t] \in Nat /\ tab'[t] = tab[t] /\ tab[t] <= writes'
  <2>1. \A i \in DOMAIN mem : mem[i] \in Nat /\ mem'[i] \in Nat /\ mem[i] <= writes
    <3>1. mem \in Seq(Nat) /\ mem' \in Seq(Nat)
      BY DEF Typed
    <3>2. (\A i \in DOMAIN mem : mem[i] \in Nat) /\ \A i \in DOMAIN mem' : mem'[i] \in Nat
      BY ONLY <3>1
    <3>3. DOMAIN mem \subseteq DOMAIN mem' /\ \A i \in DOMAIN mem : mem[i] <= writes
      BY DEF Grew, Bounded
    <3> QED BY ONLY <3>2, <3>3
  <2>2. \A t \in DOMAIN tab : tab[t] \in Nat /\ tab[t] <= writes
    BY DEF Typed, Bounded
  <2>3. writes \in Nat /\ writes' \in Nat /\ writes <= writes'
    BY DEF Typed, Grew
  <2>4. \A i \in DOMAIN mem : mem'[i] = mem[i] \/ mem'[i] = writes'
    BY DEF Grew
  <2>5. \A i \in DOMAIN mem : mem[i] <= mem'[i]
    BY ONLY <2>1, <2>3, <2>4
  <2>6. \A t \in DOMAIN tab : tab'[t] = tab[t] /\ tab[t] <= writes'
    BY <2>2, <2>3 DEF Grew
  <2> QED BY ONLY <2>1, <2>2, <2>5, <2>6
<1>5. \A p \in DOMAIN v.tabs : v.tabs[p] \in DOMAIN tab
  BY <1>1 DEF Range
<1>6. Ordered(v)'
  <2>1. v.act \in DOMAIN mem'
    BY DEF Ordered, Grew
  <2>2. ASSUME NEW i \in Memtables(v)
        PROVE  mem'[i] = 0 \/ \A t \in Range(v.tabs) : tab'[t] <= mem'[i]
    BY <1>1, <1>3, <1>4 DEF Ordered, Grew
  <2>3. ASSUME NEW p \in DOMAIN v.tabs, NEW q \in DOMAIN v.tabs, p < q
        PROVE  tab'[v.tabs[p]] = 0 \/ tab'[v.tabs[q]] <= tab'[v.tabs[p]]
    BY <2>3, <1>4, <1>5 DEF Ordered
  <2> QED BY <2>1, <2>2, <2>3 DEF Ordered, Memtables
<1>7. ASSUME NEW n \in Nat, Reaches(v, n) PROVE Reaches(v, n)'
  <2>1. CASE n = 0
    BY <2>1 DEF Reaches
  <2>2. CASE \E i \in Memtables(v) : mem[i] >= n
    <3>1. PICK i \in Memtables(v) : mem[i] >= n
      BY <2>2
    <3>2. mem'[i] >= n
      BY <3>1, <1>3, <1>4
    <3> QED BY <3>2 DEF Reaches, Memtables
  <2>3. CASE \E t \in Range(v.tabs) : tab[t] >= n
    BY <2>3, <1>1, <1>4 DEF Reaches
  <2> QED BY <1>7, <2>1, <2>2, <2>3 DEF Reaches
<1> QED BY <1>2, <1>6, <1>7

LEMMA ReaderKept ==
    ASSUME Typed, Typed', Bounded, Bounded', Grew, NEW g \in GetRec, ReaderOK(g)
    PROVE  ReaderOK(g)'
<1>1. g.snap \in Version /\ g.since \in Nat
  BY DEF GetRec
<1>2. Fits(g.snap)
  BY DEF ReaderOK
<1>3. Fits(g.snap)'
  BY <1>2 DEF Fits, Grew
<1>4. ASSUME g.pc # "idle" PROVE Ordered(g.snap)' /\ g.since <= writes'
  <2>1. Ordered(g.snap) /\ g.since <= writes
    BY <1>4 DEF ReaderOK
  <2>2. Ordered(g.snap)'
    BY <1>1, <1>2, <2>1, VersionKept
  <2> QED BY <1>1, <2>1, <2>2 DEF Grew, Typed
<1>5. ASSUME g.pc = "memtables" PROVE Reaches(g.snap, g.since)' /\ g.pos = 0
  <2>1. Ordered(g.snap) /\ Reaches(g.snap, g.since)
    BY <1>5 DEF ReaderOK
  <2>2. Reaches(g.snap, g.since)'
    BY <1>1, <1>2, <2>1, VersionKept
  <2> QED BY <1>5, <2>2 DEF ReaderOK
<1>6. ASSUME g.pc \in AtTable
      PROVE  /\ g.pos \in DOMAIN g.snap.tabs
             /\ g.since = 0 \/ \E q \in DOMAIN g.snap.tabs :
                                   g.pos <= q /\ tab'[g.snap.tabs[q]] >= g.since
  <2>1. \A q \in DOMAIN g.snap.tabs : tab'[g.snap.tabs[q]] = tab[g.snap.tabs[q]]
    BY <1>2 DEF Fits, Range, Grew
  <2> QED BY <1>6, <2>1 DEF ReaderOK
<1>7. ASSUME g.pc = "done" PROVE g.result \in g.since .. writes'
  BY <1>7, <1>1 DEF ReaderOK, GetRec, Grew, Typed
<1> QED BY <1>3, <1>4, <1>5, <1>6, <1>7 DEF ReaderOK

(* A step that publishes or writes: the threads in get() are as before.    *)
LEMMA DataMoves ==
    ASSUME Inv, UNCHANGED get, Typed', Bounded', CurOK', Grew, files \subseteq files',
           \A p, q \in DOMAIN cur'.tabs : cur'.tabs[p] = cur'.tabs[q] => p = q,
           Range(job'.todo) \cap Range(cur'.tabs) = {},
           Range(cur'.tabs) \subseteq files'
    PROVE  Inv'
<1>1. FilesOK'
  BY DEF Inv, FilesOK, PinnedBy
<1>2. ASSUME NEW s \in Threads PROVE ReaderOK(get[s])'
  <2>1. PICK g \in GetRec : g = get[s] /\ g = get'[s]
    BY DEF Inv, Typed
  <2>2. ReaderOK(g)
    BY <2>1 DEF Inv
  <2>3. ReaderOK(g)'
    BY <2>2, ReaderKept DEF Inv
  <2> QED BY <2>1, <2>3 DEF ReaderOK, Fits, Ordered, Reaches, Memtables
<1> QED BY <1>1, <1>2 DEF Inv

-----------------------------------------------------------------------------
(* The writer, the flush and the compaction.                               *)

LEMMA WriteStep == Inv /\ Write => Inv'
<1> SUFFICES ASSUME Inv, Write PROVE Inv'
  OBVIOUS
<1>0. /\ writes' = writes + 1 /\ mem' = [mem EXCEPT ![cur.act] = writes + 1]
      /\ tab' = tab /\ cur' = cur /\ files' = files /\ job' = job /\ get' = get /\ open' = open
  BY DEF Write
<1>1. /\ writes \in Nat /\ mem \in Seq(Nat) /\ cur.act \in DOMAIN mem
      /\ cur \in Version /\ Fits(cur) /\ Ordered(cur) /\ QueueOrdered
  BY DEF Inv, Typed, CurOK, Ordered
<1>2. /\ mem' \in Seq(Nat) /\ Len(mem') = Len(mem) /\ DOMAIN mem' = DOMAIN mem
      /\ \A i \in DOMAIN mem : mem'[i] = IF i = cur.act THEN writes + 1 ELSE mem[i]
  BY <1>0, <1>1
<1>3. \A i \in DOMAIN mem : mem[i] \in Nat /\ mem[i] <= writes
  BY <1>1 DEF Inv, Bounded
<1>4. Typed'
  BY <1>0, <1>1, <1>2 DEF Inv, Typed
<1>5. Bounded'
  <2>1. \A i \in DOMAIN mem' : mem'[i] <= writes'
    BY <1>0, <1>1, <1>2, <1>3
  <2>2. \A t \in DOMAIN tab' : tab'[t] <= writes'
    BY <1>0, <1>1 DEF Inv, Bounded, Typed
  <2> QED BY <2>1, <2>2 DEF Bounded
<1>6. Grew
  BY <1>0, <1>1, <1>2 DEF Grew
<1>7. CurOK'
  <2>1. PICK v \in Version : v = cur
    BY <1>1
  <2>2. Fits(v)' /\ Ordered(v)'
    BY <2>1, <1>1, <1>4, <1>5, <1>6, VersionKept DEF Inv
  <2>3. Fits(cur)' /\ Ordered(cur)'
    BY <2>1, <2>2, <1>0 DEF Fits, Ordered, Memtables
  <2>4. Reaches(cur, writes)'
    BY <1>0, <1>1, <1>2 DEF Reaches, Memtables
  <2>5. \A q \in DOMAIN cur.imms : /\ cur.imms[q] < cur.act /\ cur.imms[q] \in DOMAIN mem
                                   /\ cur.imms[q] # cur.act
    BY <1>1 DEF QueueOrdered, Version, Fits, Range
  <2>6. \A q \in DOMAIN cur.imms : mem'[cur.imms[q]] = mem[cur.imms[q]]
    BY <2>5, <1>2
  <2>7. mem'[cur.act] = writes + 1
    BY <1>1, <1>2
  <2>8. \A q \in DOMAIN cur.imms : mem'[cur.imms[q]] <= mem'[cur.act]
    BY <2>5, <2>6, <2>7, <1>1, <1>3
  <2>9. QueueOrdered'
    BY <2>5, <2>6, <2>8, <1>0, <1>1 DEF QueueOrdered
  <2> QED BY <2>3, <2>4, <2>9 DEF CurOK
<1>8. FilesOK
  BY DEF Inv
<1> QED BY <1>0, <1>4, <1>5, <1>6, <1>7, <1>8, DataMoves DEF FilesOK

LEMMA RotateStep == Inv /\ Rotate => Inv'
<1> SUFFICES ASSUME Inv, Rotate PROVE Inv'
  OBVIOUS
<1>0. /\ writes' = writes /\ mem' = Append(mem, 0) /\ tab' = tab /\ files' = files /\ job' = job
      /\ get' = get /\ open' = open
      /\ cur' = [cur EXCEPT !.act = Len(mem) + 1, !.imms = <<cur.act>> \o @]
  BY DEF Rotate
<1>1. /\ writes \in Nat /\ mem \in Seq(Nat) /\ cur.act \in DOMAIN mem
      /\ cur \in Version /\ cur.act = Len(mem)
      /\ Fits(cur) /\ Ordered(cur) /\ QueueOrdered /\ Reaches(cur, writes)
  BY DEF Inv, Typed, CurOK, Ordered
<1>2. /\ cur.act \in Nat /\ cur.imms \in Seq(Nat) /\ cur.tabs \in Seq(Nat)
      /\ cur'.act = Len(mem) + 1 /\ cur'.imms = <<cur.act>> \o cur.imms /\ cur'.tabs = cur.tabs
  BY <1>0, <1>1 DEF Version
<1> DEFINE n == Len(mem)
           I == cur.imms
<1>3. /\ mem' \in Seq(Nat) /\ n \in Nat /\ DOMAIN mem = 1 .. n
      /\ Len(mem') = n + 1 /\ DOMAIN mem' = 1 .. n + 1
      /\ \A i \in 1 .. n : mem'[i] = mem[i]
      /\ mem'[n + 1] = 0
  BY <1>0, <1>1, AppendFacts
<1>4. /\ cur'.imms \in Seq(Nat) /\ Len(I) \in Nat /\ DOMAIN I = 1 .. Len(I)
      /\ DOMAIN cur'.imms = 1 .. Len(I) + 1
      /\ \A j \in 1 .. Len(I) + 1 : cur'.imms[j] = IF j = 1 THEN cur.act ELSE I[j - 1]
      /\ Range(cur'.imms) = {cur.act} \cup Range(I)
  BY <1>2, PrependFacts
<1>5. Typed'
  <2>1. cur' = [cur EXCEPT !.act = Len(mem) + 1, !.imms = cur'.imms]
    BY <1>0, <1>2
  <2>2. cur' \in Version
    <3>1. cur \in Version /\ Len(mem) + 1 \in Nat /\ cur'.imms \in Seq(Nat) /\ cur.tabs \in Seq(Nat)
      BY <1>1, <1>2, <1>3, <1>4
    <3>2. [cur EXCEPT !.act = Len(mem) + 1, !.imms = cur'.imms] \in Version
      BY ONLY <3>1, VersionUpdates
    <3> QED BY ONLY <2>1, <3>2
  <2> QED BY <2>2, <1>0, <1>2, <1>3 DEF Inv, Typed
<1>6. Bounded'
  <2>1. \A i \in DOMAIN mem' : mem'[i] <= writes'
    <3>1. \A i \in 1 .. n : mem[i] <= writes
      BY <1>3 DEF Inv, Bounded
    <3> QED BY <3>1, <1>0, <1>1, <1>3
  <2>2. \A t \in DOMAIN tab' : tab'[t] <= writes'
    BY <1>0 DEF Inv, Bounded
  <2> QED BY <2>1, <2>2 DEF Bounded
<1>7. Grew
  BY <1>0, <1>1, <1>3 DEF Grew
<1>8. Range(I) \subseteq 1 .. n /\ Memtables(cur) = {cur.act} \cup Range(I)
  BY <1>1, <1>3 DEF Fits, Memtables
<1>9. \A i \in Memtables(cur) : i \in 1 .. n /\ mem'[i] = mem[i]
  BY <1>1, <1>3, <1>8
<1>10. CurOK'
  <2>1. Fits(cur)'
    <3>1. Range(cur'.imms) \subseteq DOMAIN mem'
      BY <1>1, <1>3, <1>4, <1>8
    <3>2. Range(cur'.tabs) \subseteq DOMAIN tab'
      BY <1>0, <1>1, <1>2 DEF Fits
    <3> QED BY <3>1, <3>2 DEF Fits
  <2>2. Ordered(cur)'
    <3>1. cur'.act \in DOMAIN mem' /\ mem'[cur'.act] = 0
      BY <1>2, <1>3
    <3>2. \A i \in Memtables(cur) : mem'[i] = 0 \/ \A t \in Range(cur.tabs) : tab'[t] <= mem'[i]
      BY <1>0, <1>1, <1>9 DEF Ordered
    <3>3. Memtables(cur)' = {cur'.act} \cup Memtables(cur)
      BY <1>4, <1>8 DEF Memtables
    <3>4. \A p, q \in DOMAIN cur.tabs :
             p < q => tab[cur.tabs[p]] = 0 \/ tab[cur.tabs[q]] <= tab[cur.tabs[p]]
      BY <1>1 DEF Ordered
    <3> QED BY <3>1, <3>2, <3>3, <3>4, <1>0, <1>2 DEF Ordered
  <2>3. QueueOrdered'
    <3>1. \A p \in 1 .. Len(I) :
             /\ I[p] < cur.act /\ I[p] \in 1 .. n /\ mem'[I[p]] = mem[I[p]]
             /\ mem[cur.act] = 0 \/ mem[I[p]] <= mem[cur.act]
      BY <1>1, <1>3, <1>4, <1>8 DEF QueueOrdered, Range
    <3>2. \A p, q \in 1 .. Len(I) : p < q => mem[I[p]] = 0 \/ mem[I[q]] <= mem[I[p]]
      BY <1>1, <1>4 DEF QueueOrdered
    <3>3. mem'[cur.act] = mem[cur.act] /\ cur.act = n
      BY <1>1, <1>3
    <3>4. \A p \in 1 .. Len(I) + 1 : cur'.imms[p] < cur'.act
      <4> TAKE p \in 1 .. Len(I) + 1
      <4>1. CASE p = 1
        BY <4>1, <1>1, <1>2, <1>3, <1>4
      <4>2. CASE p # 1
        <5>1. p - 1 \in 1 .. Len(I)
          BY <4>2, <1>4
        <5>2. cur'.imms[p] = I[p - 1]
          BY <4>2, <1>4
        <5>3. I[p - 1] \in Nat /\ I[p - 1] < n
          BY <5>1, <3>1, <1>1, <1>3
        <5> QED BY <5>2, <5>3, <1>2, <1>3
      <4> QED BY <4>1, <4>2
    <3>5. ASSUME NEW p \in 1 .. Len(I) + 1, NEW q \in 1 .. Len(I) + 1, p < q
          PROVE  mem'[cur'.imms[p]] = 0 \/ mem'[cur'.imms[q]] <= mem'[cur'.imms[p]]
      <4>0. q # 1 /\ q - 1 \in 1 .. Len(I)
        BY <3>5, <1>4
      <4>1. q - 1 \in 1 .. Len(I) /\ cur'.imms[q] = I[q - 1]
        BY <4>0, <1>4
      <4>2. CASE p = 1
        <5>1. cur'.imms[p] = cur.act
          BY <4>2, <1>4
        <5> QED BY <5>1, <4>1, <3>1, <3>3
      <4>3. CASE p # 1
        <5>1. p - 1 \in 1 .. Len(I) /\ p - 1 < q - 1
          BY <3>5, <4>3, <1>4
        <5>2. cur'.imms[p] = I[p - 1]
          BY <4>3, <1>4
        <5> QED BY <5>1, <5>2, <4>1, <3>1, <3>2
      <4> QED BY <4>2, <4>3
    <3>6. mem'[cur'.act] = 0
      BY <1>2, <1>3
    <3> QED BY <3>4, <3>5, <3>6, <1>4 DEF QueueOrdered
  <2>4. Reaches(cur, writes)'
    <3>1. writes = 0 \/ (\E i \in Memtables(cur) : mem'[i] >= writes)
          \/ \E t \in Range(cur.tabs) : tab'[t] >= writes
      BY <1>0, <1>1, <1>9 DEF Reaches
    <3>2. Memtables(cur) \subseteq {cur'.act} \cup Range(cur'.imms)
      BY <1>4, <1>8
    <3> QED BY <3>1, <3>2, <1>0, <1>2 DEF Reaches, Memtables
  <2> QED BY <2>1, <2>2, <2>3, <2>4 DEF CurOK
<1>11. FilesOK
  BY DEF Inv
<1> QED BY <1>0, <1>2, <1>5, <1>6, <1>7, <1>10, <1>11, DataMoves DEF FilesOK

LEMMA FlushPublishStep == Inv /\ FlushPublish => Inv'
<1> SUFFICES ASSUME Inv, FlushPublish PROVE Inv'
  OBVIOUS
<1> DEFINE n == Len(tab) + 1
           I == cur.imms
           T == cur.tabs
           x == mem[Last(I)]
<1>0. /\ writes' = writes /\ mem' = mem /\ tab' = Append(tab, x) /\ files' = files \cup {n}
      /\ job' = job /\ get' = get /\ open' = open
      /\ cur' = [cur EXCEPT !.imms = Front(@), !.tabs = <<n>> \o @]
      /\ I # <<>> /\ job.todo = <<>>
  BY DEF FlushPublish, TableInstead, NoJob
<1>1. /\ writes \in Nat /\ mem \in Seq(Nat) /\ tab \in Seq(Nat) /\ cur.act \in DOMAIN mem
      /\ cur \in Version /\ cur.act = Len(mem)
      /\ Fits(cur) /\ Ordered(cur) /\ QueueOrdered /\ Reaches(cur, writes)
      /\ I \in Seq(Nat) /\ T \in Seq(Nat) /\ n \in Nat
  BY DEF Inv, Typed, CurOK, Ordered, Version
<1>2. /\ Front(I) \in Seq(Nat) /\ Len(I) \in Nat /\ Len(I) >= 1 /\ DOMAIN I = 1 .. Len(I)
      /\ DOMAIN Front(I) = 1 .. Len(I) - 1
      /\ \A j \in 1 .. Len(I) - 1 : Front(I)[j] = I[j]
      /\ Last(I) = I[Len(I)]
      /\ Range(I) = Range(Front(I)) \cup {Last(I)}
  BY <1>0, <1>1, FrontFacts
<1>3. /\ <<n>> \o T \in Seq(Nat) /\ Len(T) \in Nat /\ DOMAIN T = 1 .. Len(T)
      /\ DOMAIN (<<n>> \o T) = 1 .. Len(T) + 1
      /\ \A j \in 1 .. Len(T) + 1 : (<<n>> \o T)[j] = IF j = 1 THEN n ELSE T[j - 1]
      /\ Range(<<n>> \o T) = {n} \cup Range(T)
  BY <1>1, PrependFacts
<1>4. cur' \in Version /\ cur'.act = cur.act /\ cur'.imms = Front(I) /\ cur'.tabs = <<n>> \o T
  <2>1. cur' = [cur EXCEPT !.imms = Front(I), !.tabs = <<n>> \o T]
    BY <1>0
  <2>2. cur' \in Version
    <3>1. cur \in Version /\ 0 \in Nat /\ Front(I) \in Seq(Nat) /\ <<n>> \o T \in Seq(Nat)
      BY <1>1, <1>2, <1>3
    <3>2. [cur EXCEPT !.imms = Front(I), !.tabs = <<n>> \o T] \in Version
      BY ONLY <3>1, VersionUpdates
    <3> QED BY ONLY <2>1, <3>2
  <2> QED BY <2>1, <2>2, <1>1 DEF Version
<1> DEFINE F == Front(I)
           N == <<n>> \o T
<1> HIDE DEF F, N
<1>5. Last(I) \in Memtables(cur) /\ Memtables(cur) \subseteq DOMAIN mem /\ Memtables(cur)' \subseteq Memtables(cur)
      /\ Memtables(cur) \subseteq Memtables(cur)' \cup {Last(I)}
  <2>1. Memtables(cur) = {cur.act} \cup Range(F) \cup {Last(I)}
    BY <1>2 DEF Memtables, F
  <2>2. Memtables(cur)' = {cur.act} \cup Range(F)
    BY <1>4 DEF Memtables, F
  <2>3. Memtables(cur) \subseteq DOMAIN mem
    BY <1>1 DEF Memtables, Fits
  <2> QED BY <2>1, <2>2, <2>3
<1>6. x \in Nat /\ x <= writes
  BY <1>1, <1>5 DEF Inv, Bounded
<1>7. /\ tab' \in Seq(Nat) /\ DOMAIN tab = 1 .. n - 1 /\ DOMAIN tab' = 1 .. n
      /\ \A t \in 1 .. n - 1 : tab'[t] = tab[t] /\ tab[t] \in Nat
      /\ tab'[n] = x
  <2> HIDE DEF x
  <2> QED BY ONLY <1>0, <1>1, <1>6, AppendNat
<1>71. n \in 1 .. n /\ 1 .. n - 1 \subseteq 1 .. n /\ \A t \in 1 .. n : t = n \/ t \in 1 .. n - 1
  BY <1>1
<1> HIDE DEF x, n
<1>8. Typed'
  <2>1. files' \subseteq DOMAIN tab' /\ open' \subseteq DOMAIN tab'
    BY <1>0, <1>7, <1>71 DEF Inv, Typed
  <2> QED BY <2>1, <1>0, <1>1, <1>4, <1>7 DEF Inv, Typed
<1>9. Bounded'
  <2>1. \A t \in 1 .. n - 1 : tab[t] <= writes
    BY <1>7 DEF Inv, Bounded
  <2>2. \A t \in 1 .. n : tab'[t] <= writes
    BY <2>1, <1>6, <1>7, <1>71
  <2>3. \A i \in DOMAIN mem : mem[i] <= writes
    BY DEF Inv, Bounded
  <2> QED BY <2>2, <2>3, <1>0, <1>7 DEF Bounded
<1>10. Grew
  BY <1>0, <1>1, <1>7 DEF Grew
<1>11. Range(T) \subseteq 1 .. n - 1 /\ \A p \in 1 .. Len(T) : T[p] \in 1 .. n - 1
  <2>1. Range(T) \subseteq 1 .. n - 1
    BY <1>1, <1>7 DEF Fits
  <2> QED BY <2>1, <1>3 DEF Range
<1>12. Range(cur'.tabs) = {n} \cup Range(T) /\ DOMAIN cur'.tabs = 1 .. Len(T) + 1
  BY <1>3, <1>4
<1>13. \A p \in 1 .. Len(T) + 1 : cur'.tabs[p] = IF p = 1 THEN n ELSE T[p - 1]
  BY <1>3, <1>4
<1>14. CurOK'
  <2>1. Fits(cur)'
    <3>1. Range(cur'.imms) \subseteq DOMAIN mem'
      BY <1>0, <1>1, <1>2, <1>4 DEF Fits
    <3>2. Range(cur'.tabs) \subseteq DOMAIN tab'
      BY <1>7, <1>71, <1>11, <1>12
    <3> QED BY <3>1, <3>2 DEF Fits
  <2>2. \A i \in Memtables(cur)' : mem[i] = 0 \/ x <= mem[i]
    <3>1. QueueOrdered /\ Last(I) = I[Len(I)] /\ Len(I) \in DOMAIN I
      BY <1>1, <1>2
    <3>2. mem[cur.act] = 0 \/ x <= mem[cur.act]
      BY <3>1 DEF QueueOrdered, x
    <3>3. ASSUME NEW j \in 1 .. Len(I) - 1
          PROVE  mem[F[j]] = 0 \/ x <= mem[F[j]]
      <4>1. F[j] = I[j] /\ j \in DOMAIN I /\ j < Len(I)
        BY <1>2 DEF F
      <4> QED BY <4>1, <3>1 DEF QueueOrdered, x
    <3>4. Memtables(cur)' = {cur.act} \cup Range(F) /\ Range(F) = {F[j] : j \in 1 .. Len(I) - 1}
      BY <1>2, <1>4 DEF Memtables, F, Range
    <3> QED BY <3>2, <3>3, <3>4
  <2>3. x = 0 \/ \A t \in Range(T) : tab[t] <= x
    BY <1>1, <1>5 DEF Ordered, x
  <2>4. Ordered(cur)'
    <3>1. cur'.act \in DOMAIN mem'
      BY <1>0, <1>1, <1>4
    <3>2. ASSUME NEW i \in Memtables(cur)', mem[i] # 0, NEW t \in {n} \cup Range(T)
          PROVE  tab'[t] <= mem[i]
      <4>1. CASE t = n
        BY <4>1, <3>2, <2>2, <1>7
      <4>2. CASE t \in Range(T)
        BY <4>2, <3>2, <1>1, <1>5, <1>7, <1>11 DEF Ordered
      <4> QED BY <4>1, <4>2
    <3>3. \A p, q \in 1 .. Len(T) : p < q => tab[T[p]] = 0 \/ tab[T[q]] <= tab[T[p]]
      BY <1>1, <1>3 DEF Ordered
    <3>4. ASSUME NEW p \in 1 .. Len(T) + 1, NEW q \in 1 .. Len(T) + 1, p < q
          PROVE  tab'[cur'.tabs[p]] = 0 \/ tab'[cur'.tabs[q]] <= tab'[cur'.tabs[p]]
      <4>0. q - 1 \in 1 .. Len(T) /\ q # 1
        BY <3>4, <1>3
      <4>1. cur'.tabs[q] = T[q - 1] /\ tab'[T[q - 1]] = tab[T[q - 1]] /\ T[q - 1] \in Range(T)
        BY <4>0, <1>3, <1>7, <1>11, <1>13 DEF Range
      <4>2. CASE p = 1
        <5>1. tab'[cur'.tabs[p]] = x
          BY <4>2, <1>7, <1>13
        <5> QED BY <5>1, <4>1, <2>3
      <4>3. CASE p # 1
        <5>1. p - 1 \in 1 .. Len(T) /\ p - 1 < q - 1
          BY <3>4, <4>3, <1>3
        <5>2. cur'.tabs[p] = T[p - 1] /\ tab'[T[p - 1]] = tab[T[p - 1]]
          BY <5>1, <4>3, <1>7, <1>11, <1>13
        <5> QED BY <5>1, <5>2, <4>0, <4>1, <3>3
      <4> QED BY <4>2, <4>3
    <3> QED BY <3>1, <3>2, <3>4, <1>0, <1>12 DEF Ordered
  <2>5. QueueOrdered'
    <3>0. \A j \in 1 .. Len(I) - 1 : j \in DOMAIN I
      BY <1>2
    <3>1. \A j \in 1 .. Len(I) - 1 : cur'.imms[j] = I[j]
      BY <1>2, <1>4
    <3>2. DOMAIN cur'.imms = 1 .. Len(I) - 1
      BY <1>2, <1>4
    <3> QED BY <3>0, <3>1, <3>2, <1>0, <1>1, <1>4 DEF QueueOrdered
  <2>6. Reaches(cur, writes)'
    <3>1. CASE writes = 0
      BY <3>1, <1>0 DEF Reaches
    <3>2. CASE \E i \in Memtables(cur) : mem[i] >= writes
      <4>1. PICK i \in Memtables(cur) : mem[i] >= writes
        BY <3>2
      <4>2. CASE i = Last(I)
        <5>1. tab'[n] >= writes' /\ n \in Range(cur'.tabs)
          BY <4>1, <4>2, <1>0, <1>7, <1>1, <1>12 DEF x, n
        <5> QED BY <5>1 DEF Reaches
      <4>3. CASE i # Last(I)
        <5>1. i \in Memtables(cur)' /\ mem'[i] >= writes'
          BY <4>1, <4>3, <1>0, <1>5
        <5> QED BY <5>1 DEF Reaches
      <4> QED BY <4>2, <4>3
    <3>3. CASE \E t \in Range(T) : tab[t] >= writes
      <4>1. PICK t \in Range(T) : tab[t] >= writes
        BY <3>3
      <4>2. t \in Range(cur'.tabs) /\ tab'[t] >= writes'
        BY <4>1, <1>0, <1>7, <1>11, <1>12
      <4> QED BY <4>2 DEF Reaches
    <3> QED BY <3>1, <3>2, <3>3, <1>1 DEF Reaches
  <2> QED BY <2>1, <2>4, <2>5, <2>6 DEF CurOK
<1>15. \A p, q \in DOMAIN cur'.tabs : cur'.tabs[p] = cur'.tabs[q] => p = q
  <2>1. \A p, q \in 1 .. Len(T) : T[p] = T[q] => p = q
    BY <1>3 DEF Inv, FilesOK
  <2>2. n \notin 1 .. n - 1
    BY <1>1 DEF n
  <2> TAKE p, q \in DOMAIN cur'.tabs
  <2> HAVE cur'.tabs[p] = cur'.tabs[q]
  <2>3. p \in 1 .. Len(T) + 1 /\ q \in 1 .. Len(T) + 1
    BY <1>12
  <2>4. CASE p = 1 \/ q = 1
    <3>1. \A k \in 1 .. Len(T) + 1 : k # 1 => k - 1 \in 1 .. Len(T) /\ cur'.tabs[k] = T[k - 1]
      BY <1>3, <1>13
    <3>2. \A k \in 1 .. Len(T) + 1 : k # 1 => cur'.tabs[k] # n
      BY <3>1, <2>2, <1>11
    <3>3. \A k \in 1 .. Len(T) + 1 : k = 1 => cur'.tabs[k] = n
      BY <1>13
    <3> QED BY <2>3, <2>4, <3>2, <3>3
  <2>5. CASE p # 1 /\ q # 1
    <3>0. \A k \in 1 .. Len(T) + 1 : k # 1 => k - 1 \in 1 .. Len(T) /\ cur'.tabs[k] = T[k - 1]
      BY <1>3, <1>13
    <3>1. p - 1 \in 1 .. Len(T) /\ q - 1 \in 1 .. Len(T) /\ T[p - 1] = T[q - 1]
      BY <2>3, <2>5, <3>0
    <3>2. p - 1 = q - 1
      BY <3>1, <2>1
    <3> QED BY <3>2, <2>3, <1>3
  <2> QED BY <2>4, <2>5
<1>16. Range(cur'.tabs) \subseteq files' /\ files \subseteq files'
  BY <1>0, <1>12 DEF Inv, FilesOK
<1>17. Range(job'.todo) \cap Range(cur'.tabs) = {}
  BY <1>0 DEF Range
<1> QED BY <1>0, <1>8, <1>9, <1>10, <1>14, <1>15, <1>16, <1>17, DataMoves

(* The output of a compaction holds the newest of its inputs.              *)
LEMMA NewestOfInputs ==
    ASSUME Typed, Bounded, NEW s, Range(s) \subseteq DOMAIN tab
    PROVE  /\ NewestOf(s) \in Nat /\ NewestOf(s) <= writes
           /\ \A t \in Range(s) : tab[t] <= NewestOf(s)
           /\ NewestOf(s) = 0 \/ \E t \in Range(s) : NewestOf(s) = tab[t]
<1> DEFINE S == {0} \cup {tab[t] : t \in Range(s)}
<1>1. writes \in Nat /\ \A t \in DOMAIN tab : tab[t] \in Nat /\ tab[t] <= writes
  BY DEF Typed, Bounded
<1>2. S \in SUBSET Nat /\ S # {} /\ \A x \in S : x <= writes
  BY <1>1
<1>3. Max(S) \in S /\ \A x \in S : x <= Max(S)
  <2> HIDE DEF S
  <2> QED BY <1>1, <1>2, GreatestOfBounded
<1>4. NewestOf(s) = Max(S)
  BY DEF NewestOf
<1> QED BY <1>2, <1>3, <1>4

LEMMA CompactPublishStep ==
    ASSUME Inv, NEW j \in DOMAIN cur.tabs, NEW i \in 1 .. j - 1, CompactPublish(i, j)
    PROVE  Inv'
<1> DEFINE n == Len(tab) + 1
           T == cur.tabs
           I == SubSeq(T, i, j)
           N == Splice(T, i, j, n)
           w == NewestOf(I)
           O(p) == IF p < i THEN p ELSE p + (j - i)
<1>0. /\ writes' = writes /\ mem' = mem /\ tab' = Append(tab, w) /\ files' = files \cup {n}
      /\ job' = [job EXCEPT !.todo = I] /\ get' = get /\ open' = open
      /\ cur' = [cur EXCEPT !.tabs = N]
  BY DEF CompactPublish, Splice
<1>1. /\ writes \in Nat /\ mem \in Seq(Nat) /\ tab \in Seq(Nat) /\ cur.act \in DOMAIN mem
      /\ cur \in Version /\ cur.act = Len(mem)
      /\ Fits(cur) /\ Ordered(cur) /\ QueueOrdered /\ Reaches(cur, writes)
      /\ T \in Seq(Nat) /\ n \in Nat /\ cur.imms \in Seq(Nat)
  BY DEF Inv, Typed, CurOK, Ordered, Version
<1>2. /\ N \in Seq(Nat) /\ I \in Seq(Nat)
      /\ Len(T) \in Nat /\ DOMAIN T = 1 .. Len(T) /\ i \in Nat /\ j \in Nat
      /\ DOMAIN N = 1 .. Len(T) - (j - i)
      /\ \A p \in DOMAIN N : N[p] = IF p < i THEN T[p] ELSE IF p = i THEN n ELSE T[p + (j - i)]
      /\ Range(I) = {T[p] : p \in i .. j}
  <2>1. n \in Nat /\ T \in Seq(Nat) /\ j \in DOMAIN T /\ i \in 1 .. j - 1
    BY <1>1
  <2> HIDE DEF n, T
  <2>2. IsSplice(Nat, T, i, j, n, N)
    BY ONLY <2>1, SpliceFacts
  <2> QED BY <2>2 DEF IsSplice
<1>3. cur' \in Version /\ cur'.act = cur.act /\ cur'.imms = cur.imms /\ cur'.tabs = N
  <2>1. cur \in Version /\ 0 \in Nat /\ cur.imms \in Seq(Nat) /\ N \in Seq(Nat)
    BY <1>1, <1>2
  <2>2. [cur EXCEPT !.tabs = N] \in Version
    BY ONLY <2>1, VersionUpdates
  <2> HIDE DEF N
  <2> QED BY <2>2, <1>0, <1>1 DEF Version
<1> HIDE DEF N
<1>4. 1 <= i /\ i < j /\ j <= Len(T) /\ i \in 1 .. Len(T) - (j - i)
  BY <1>2
<1>5. ASSUME NEW p \in DOMAIN N, p # i
      PROVE  O(p) \in DOMAIN T /\ O(p) \notin i .. j /\ N[p] = T[O(p)] /\ (p < i => O(p) < i) /\ (p > i => O(p) > j)
  <2>1. p \in 1 .. Len(T) - (j - i) /\ p \in Nat
    BY <1>2
  <2>2. /\ O(p) \in 1 .. Len(T) /\ O(p) \notin i .. j
        /\ (p < i => O(p) < i) /\ (p > i => O(p) > j)
    BY <2>1, <1>2, <1>4, <1>5
  <2>3. N[p] = T[O(p)]
    <3>1. CASE p < i
      BY <3>1, <1>2
    <3>2. CASE ~(p < i)
      BY <3>2, <1>2, <1>5
    <3> QED BY <3>1, <3>2
  <2> QED BY <2>2, <2>3, <1>2
<1>6. N[i] = n /\ i \in DOMAIN N
  <2>1. i \in DOMAIN N
    BY <1>2, <1>4
  <2>2. ~(i < i)
    BY <1>2
  <2> QED BY <2>1, <2>2, <1>2
<1>7. ASSUME NEW p \in DOMAIN N, NEW q \in DOMAIN N, p < q, p # i, q # i
      PROVE  O(p) < O(q)
  BY <1>2, <1>4, <1>7
<1>8. ASSUME NEW k \in DOMAIN T, k \notin i .. j
      PROVE  \E p \in DOMAIN N : p # i /\ N[p] = T[k]
  <2>1. CASE k < i
    <3>1. k \in DOMAIN N /\ k # i
      BY <2>1, <1>2, <1>4
    <3>2. N[k] = T[k]
      BY <2>1, <3>1, <1>2
    <3> QED BY <3>1, <3>2
  <2>2. CASE k > j
    <3>1. k - (j - i) \in DOMAIN N /\ k - (j - i) > i /\ (k - (j - i)) + (j - i) = k
      BY <2>2, <1>2, <1>4
    <3>2. PICK p \in DOMAIN N : p > i /\ p + (j - i) = k
      BY <3>1
    <3>3. ~(p < i) /\ p # i
      BY <3>2, <1>2
    <3>4. N[p] = T[p + (j - i)]
      BY <3>3, <1>2
    <3> QED BY <3>2, <3>3, <3>4
  <2> QED BY <2>1, <2>2, <1>2, <1>8
<1> HIDE DEF I
<1>9. Range(T) \subseteq DOMAIN tab /\ \A p \in DOMAIN T : T[p] \in DOMAIN tab
  BY <1>1 DEF Fits, Range
<1>10. Range(I) \subseteq Range(T) /\ \A p \in i .. j : p \in DOMAIN T /\ T[p] \in Range(I)
  <2>1. \A p \in i .. j : p \in DOMAIN T
    BY <1>2, <1>4
  <2> QED BY <2>1, <1>2 DEF Range
<1>11. /\ w \in Nat /\ w <= writes /\ \A p \in i .. j : tab[T[p]] <= w
       /\ w = 0 \/ \E p \in i .. j : w = tab[T[p]]
  <2>1. /\ w \in Nat /\ w <= writes /\ \A t \in Range(I) : tab[t] <= w
        /\ w = 0 \/ \E t \in Range(I) : w = tab[t]
    BY <1>9, <1>10, NewestOfInputs DEF Inv
  <2> HIDE DEF w
  <2>2. \A p \in i .. j : tab[T[p]] <= w
    BY <2>1, <1>10
  <2>3. w = 0 \/ \E p \in i .. j : w = tab[T[p]]
    <3>1. ASSUME NEW t \in Range(I), w = tab[t]
          PROVE  \E p \in i .. j : w = tab[T[p]]
      <4>1. PICK p \in i .. j : t = T[p]
        BY ONLY <1>2, <3>1
      <4> QED BY ONLY <3>1, <4>1
    <3> QED BY ONLY <2>1, <3>1
  <2> QED BY ONLY <2>1, <2>2, <2>3
<1> HIDE DEF w
<1>12. /\ tab' \in Seq(Nat) /\ DOMAIN tab = 1 .. n - 1 /\ DOMAIN tab' = 1 .. n
       /\ \A t \in 1 .. n - 1 : tab'[t] = tab[t] /\ tab[t] \in Nat
       /\ tab'[n] = w
  BY ONLY <1>0, <1>1, <1>11, AppendNat
<1>13. n \in 1 .. n /\ 1 .. n - 1 \subseteq 1 .. n /\ n \notin 1 .. n - 1 /\ \A t \in 1 .. n : t = n \/ t \in 1 .. n - 1
  <2>1. Len(tab) \in Nat
    BY <1>1
  <2> QED BY ONLY <2>1
<1> HIDE DEF n, O
(* What position p of the new Version holds.                               *)
<1>14. /\ tab'[N[i]] = w
       /\ \A p \in DOMAIN N : p # i => /\ O(p) \in DOMAIN T /\ N[p] = T[O(p)]
                                        /\ tab'[N[p]] = tab[T[O(p)]]
  BY <1>5, <1>6, <1>9, <1>12
<1>15. Range(N) \subseteq {n} \cup Range(T)
  BY <1>6, <1>14 DEF Range
<1>16. Typed'
  <2>1. files' \subseteq DOMAIN tab' /\ open' \subseteq DOMAIN tab'
    BY <1>0, <1>12, <1>13 DEF Inv, Typed
  <2>2. job' \in [todo : Seq(Nat), deferred : SUBSET Nat]
    BY <1>0, <1>2 DEF Inv, Typed
  <2> QED BY <2>1, <2>2, <1>0, <1>1, <1>3, <1>12 DEF Inv, Typed
<1>17. Bounded'
  <2>1. \A t \in 1 .. n - 1 : tab[t] <= writes
    BY <1>12 DEF Inv, Bounded
  <2>2. \A t \in 1 .. n : tab'[t] <= writes
    BY <2>1, <1>11, <1>12, <1>13
  <2>3. \A k \in DOMAIN mem : mem[k] <= writes
    BY DEF Inv, Bounded
  <2> QED BY <2>2, <2>3, <1>0, <1>12 DEF Bounded
<1>18. Grew
  <2>1. writes <= writes' /\ mem' = mem
    BY <1>0, <1>1
  <2>2. DOMAIN tab \subseteq DOMAIN tab' /\ \A t \in DOMAIN tab : tab'[t] = tab[t]
    BY <1>12, <1>13
  <2> QED BY ONLY <2>1, <2>2 DEF Grew
<1>19. \A p, q \in DOMAIN T : p < q => tab[T[p]] = 0 \/ tab[T[q]] <= tab[T[p]]
  BY <1>1 DEF Ordered
<1>20. \A p \in DOMAIN T : tab[T[p]] \in Nat
  BY <1>9, <1>12
<1>21. Ordered(cur)'
  <2>1. ASSUME NEW m \in Memtables(cur), mem[m] # 0, NEW t \in Range(N)
        PROVE  tab'[t] <= mem[m]
    <3>1. \A p \in DOMAIN T : tab[T[p]] <= mem[m]
      BY <2>1, <1>1 DEF Ordered, Range
    <3>2. m \in DOMAIN mem
      BY <1>1 DEF Memtables, Fits
    <3>3. mem[m] \in Nat
      BY <3>2, <1>1
    <3>4. w <= mem[m]
      <4>1. CASE w = 0
        BY <4>1, <3>3
      <4>2. CASE w # 0
        BY <4>2, <3>1, <1>10, <1>11
      <4> QED BY <4>1, <4>2
    <3>5. PICK p \in DOMAIN N : t = N[p]
      BY DEF Range
    <3>6. CASE p = i
      BY <3>4, <3>5, <3>6, <1>14
    <3>7. CASE p # i
      BY <3>1, <3>5, <3>7, <1>14
    <3> QED BY <3>6, <3>7
  <2>2. ASSUME NEW p \in DOMAIN N, NEW q \in DOMAIN N, p < q
        PROVE  tab'[N[p]] = 0 \/ tab'[N[q]] <= tab'[N[p]]
    <3>1. CASE p # i /\ q # i
      <4>1. O(p) < O(q)
        BY <2>2, <3>1, <1>7
      <4> QED BY <3>1, <4>1, <1>14, <1>19
    <3>2. CASE p = i
      <4>1. q # i /\ q > i
        BY <2>2, <3>2, <1>2
      <4>2. O(q) > j /\ O(q) \in DOMAIN T /\ tab'[N[q]] = tab[T[O(q)]]
        BY <4>1, <1>5, <1>14
      <4>3. CASE w = 0
        BY <3>2, <4>3, <1>14
      <4>4. CASE w # 0
        <5>1. PICK k \in i .. j : w = tab[T[k]]
          BY <4>4, <1>11
        <5>2. k \in DOMAIN T /\ k < O(q)
          BY <4>2, <1>2, <1>10
        <5>3. tab[T[O(q)]] <= tab[T[k]]
          BY <4>2, <4>4, <5>1, <5>2, <1>19
        <5> QED BY <3>2, <4>2, <5>1, <5>3, <1>14
      <4> QED BY <4>3, <4>4
    <3>3. CASE q = i
      <4>1. p # i /\ p < i
        BY <2>2, <3>3, <1>2
      <4>2. O(p) < i /\ O(p) \in DOMAIN T /\ tab'[N[p]] = tab[T[O(p)]] /\ tab[T[O(p)]] \in Nat
        BY <4>1, <1>5, <1>14, <1>20
      <4>3. CASE w = 0
        BY <3>3, <4>2, <4>3, <1>14
      <4>4. CASE w # 0
        <5>1. PICK k \in i .. j : w = tab[T[k]]
          BY <4>4, <1>11
        <5>2. k \in DOMAIN T /\ O(p) < k
          BY <4>2, <1>2, <1>10
        <5>3. tab[T[O(p)]] = 0 \/ tab[T[k]] <= tab[T[O(p)]]
          BY <4>2, <5>2, <1>19
        <5> QED BY <3>3, <4>2, <5>1, <5>3, <1>14
      <4> QED BY <4>3, <4>4
    <3> QED BY <3>1, <3>2, <3>3
  <2>3. Memtables(cur)' = Memtables(cur)
    BY <1>3 DEF Memtables
  <2> QED BY <2>1, <2>2, <2>3, <1>0, <1>1, <1>3 DEF Ordered
<1>22. CurOK'
  <2>1. Fits(cur)'
    <3>1. Range(cur'.tabs) \subseteq DOMAIN tab'
      BY <1>3, <1>9, <1>12, <1>13, <1>15
    <3>2. Range(cur'.imms) \subseteq DOMAIN mem'
      BY <1>0, <1>1, <1>3 DEF Fits
    <3> QED BY <3>1, <3>2 DEF Fits
  <2>2. QueueOrdered'
    BY <1>0, <1>1, <1>3 DEF QueueOrdered
  <2>3. Reaches(cur, writes)'
    <3>1. CASE writes = 0
      BY <3>1, <1>0 DEF Reaches
    <3>2. CASE \E m \in Memtables(cur) : mem[m] >= writes
      BY <3>2, <1>0, <1>3 DEF Reaches, Memtables
    <3>3. CASE \E t \in Range(T) : tab[t] >= writes
      <4>1. PICK k \in DOMAIN T : tab[T[k]] >= writes
        BY <3>3 DEF Range
      <4>2. CASE k \in i .. j
        <5>1. tab[T[k]] <= w /\ tab[T[k]] \in Nat
          BY <4>2, <1>11, <1>20
        <5>2. w >= writes
          <6>1. w \in Nat /\ writes \in Nat /\ tab[T[k]] >= writes
            BY <4>1, <1>1, <1>11
          <6> QED BY ONLY <5>1, <6>1
        <5>3. N[i] \in Range(N) /\ tab'[N[i]] >= writes'
          BY <5>2, <1>0, <1>6, <1>14 DEF Range
        <5> QED BY <5>3, <1>3 DEF Reaches
      <4>3. CASE k \notin i .. j
        <5>1. PICK p \in DOMAIN N : p # i /\ N[p] = T[k]
          BY <4>3, <1>8
        <5>2. N[p] \in Range(N) /\ tab'[N[p]] >= writes'
          <6>1. tab'[N[p]] = tab[T[k]]
            BY <5>1, <1>9, <1>12
          <6> QED BY <4>1, <5>1, <6>1, <1>0 DEF Range
        <5> QED BY <5>2, <1>3 DEF Reaches
      <4> QED BY <4>2, <4>3
    <3> QED BY <3>1, <3>2, <3>3, <1>1 DEF Reaches
  <2> QED BY <2>1, <2>2, <2>3, <1>21 DEF CurOK
<1>23. \A p, q \in DOMAIN T : T[p] = T[q] => p = q
  BY DEF Inv, FilesOK
<1>24. \A p, q \in DOMAIN N : N[p] = N[q] => p = q
  <2> SUFFICES ASSUME NEW p \in DOMAIN N, NEW q \in DOMAIN N, N[p] = N[q], p # q PROVE FALSE
    OBVIOUS
  <2>1. CASE p # i /\ q # i
    <3>1. O(p) = O(q)
      BY <2>1, <1>14, <1>23
    <3>2. p < q \/ q < p
      BY <1>2
    <3>3. O(p) \in Nat /\ (O(p) < O(q) \/ O(q) < O(p))
      BY <2>1, <3>2, <1>2, <1>7, <1>14
    <3> QED BY <3>1, <3>3
  <2>2. CASE p = i
    <3>1. N[q] = T[O(q)] /\ O(q) \in DOMAIN T
      BY <2>2, <1>14
    <3> QED BY <2>2, <3>1, <1>6, <1>9, <1>12, <1>13
  <2>3. CASE q = i
    <3>1. N[p] = T[O(p)] /\ O(p) \in DOMAIN T
      BY <2>3, <1>14
    <3> QED BY <2>3, <3>1, <1>6, <1>9, <1>12, <1>13
  <2> QED BY <2>1, <2>2, <2>3
<1>25. Range(job'.todo) \cap Range(cur'.tabs) = {}
  <2>1. job'.todo = I
    BY <1>0 DEF Inv, Typed
  <2> SUFFICES ASSUME NEW t \in Range(I), t \in Range(N) PROVE FALSE
    BY <2>1, <1>3
  <2>2. PICK k \in i .. j : t = T[k]
    BY <1>2
  <2>3. PICK p \in DOMAIN N : t = N[p]
    BY DEF Range
  <2>4. p # i
    BY <2>2, <2>3, <1>6, <1>9, <1>10, <1>12, <1>13
  <2>5. O(p) = k
    BY <2>2, <2>3, <2>4, <1>10, <1>14, <1>23
  <2> QED BY <2>4, <2>5, <1>5
<1>26. Range(cur'.tabs) \subseteq files' /\ files \subseteq files'
  BY <1>0, <1>3, <1>15 DEF Inv, FilesOK
<1> QED BY <1>0, <1>3, <1>16, <1>17, <1>18, <1>22, <1>24, <1>25, <1>26, DataMoves

LEMMA DeleteInputStep == Inv /\ DeleteInput => Inv'
<1> SUFFICES ASSUME Inv, DeleteInput PROVE Inv'
  OBVIOUS
<1> DEFINE t == Head(job.todo)
<1>1. /\ UNCHANGED <<writes, mem, tab, cur, get>> /\ job.todo # <<>>
      /\ job' \in [todo : Seq(Nat), deferred : SUBSET Nat] /\ job'.todo = Tail(job.todo)
  <2>1. job.todo \in Seq(Nat) /\ job.deferred \in SUBSET Nat /\ job.todo # <<>>
    BY DEF DeleteInput, Inv, Typed
  <2>2. t \in Nat /\ Tail(job.todo) \in Seq(Nat)
    BY <2>1
  <2>3. /\ UNCHANGED <<writes, mem, tab, cur, get>>
        /\ \/ job' = [job EXCEPT !.todo = Tail(@)]
           \/ job' = [todo |-> Tail(job.todo), deferred |-> job.deferred \cup {t}]
    BY DEF DeleteInput
  <2>4. job \in [todo : Seq(Nat), deferred : SUBSET Nat]
    BY DEF Inv, Typed
  <2> HIDE DEF t
  <2>5. job' \in [todo : Seq(Nat), deferred : SUBSET Nat]
    <3>1. CASE job' = [job EXCEPT !.todo = Tail(@)]
      BY ONLY <3>1, <2>2, <2>4
    <3>2. CASE job' = [todo |-> Tail(job.todo), deferred |-> job.deferred \cup {t}]
      <4>1. job.deferred \cup {t} \in SUBSET Nat
        BY ONLY <2>1, <2>2
      <4> QED BY ONLY <3>2, <4>1, <2>2
    <3> QED BY <3>1, <3>2, <2>3
  <2>6. job'.todo = Tail(job.todo)
    BY ONLY <2>3, <2>4
  <2> QED BY <2>1, <2>3, <2>5, <2>6
<1>2. t \in Range(job.todo) /\ Range(job'.todo) \subseteq Range(job.todo)
  <2>1. job.todo \in Seq(Nat) /\ job.todo # <<>>
    BY <1>1 DEF Inv, Typed
  <2>2. 1 \in DOMAIN job.todo /\ t = job.todo[1]
    BY <2>1
  <2>3. \A k \in DOMAIN Tail(job.todo) : k + 1 \in DOMAIN job.todo /\ Tail(job.todo)[k] = job.todo[k + 1]
    BY <2>1
  <2> QED BY <1>1, <2>2, <2>3 DEF Range
<1>3. open' \subseteq DOMAIN tab
  BY DEF DeleteInput, DestroyUnreferenced, Inv, Typed
<1>4. files' \subseteq files
  BY DEF DeleteInput
<1>5. files' = files \/ (files' = files \ {t} /\ Unreferenced(t))
  BY DEF DeleteInput
<1>6. Range(cur.tabs) \subseteq files' /\ \A r \in Threads : PinnedBy(r) \subseteq files'
  BY <1>2, <1>5 DEF Inv, FilesOK, Unreferenced
<1> QED BY <1>1, <1>2, <1>3, <1>4, <1>6, JobMoves

LEMMA FinishCompactionStep == Inv /\ FinishCompaction => Inv'
<1> SUFFICES ASSUME Inv, FinishCompaction PROVE Inv'
  OBVIOUS
<1>1. /\ UNCHANGED <<writes, mem, tab, cur, get, files>>
      /\ job' \in [todo : Seq(Nat), deferred : SUBSET Nat] /\ job'.todo = job.todo
  BY DEF FinishCompaction, Inv, Typed
<1>2. open' \subseteq DOMAIN tab
  BY DEF FinishCompaction, DestroyUnreferenced, Inv, Typed
<1>3. Range(cur.tabs) \subseteq files /\ \A r \in Threads : PinnedBy(r) \subseteq files
  BY DEF Inv, FilesOK
<1> QED BY <1>1, <1>2, <1>3, JobMoves

-----------------------------------------------------------------------------
(* get()                                                                   *)

LEMMA GetFacts ==
    ASSUME Inv, NEW r \in Threads
    PROVE  /\ get[r] \in GetRec /\ get[r].pc \in PCs /\ get[r].snap \in Version /\ get[r].pos \in Nat
           /\ get[r].result \in Nat /\ get[r].since \in Nat /\ get[r].done \in Nat
           /\ get[r].snap.tabs \in Seq(Nat) /\ Len(get[r].snap.tabs) \in Nat
           /\ DOMAIN get[r].snap.tabs = 1 .. Len(get[r].snap.tabs)
           /\ ReaderOK(get[r]) /\ Range(get[r].snap.tabs) \subseteq files
           /\ Range(get[r].snap.tabs) \subseteq DOMAIN tab
           /\ writes \in Nat
<1>1. get[r] \in GetRec /\ ReaderOK(get[r]) /\ writes \in Nat
  BY DEF Inv, Typed
<1>2. /\ get[r].pc \in PCs /\ get[r].snap \in Version /\ get[r].pos \in Nat
      /\ get[r].result \in Nat /\ get[r].since \in Nat /\ get[r].done \in Nat
  BY <1>1 DEF GetRec
<1>3. get[r].snap.tabs \in Seq(Nat)
  BY <1>2 DEF Version
<1>4. Range(get[r].snap.tabs) \subseteq files /\ Range(get[r].snap.tabs) \subseteq DOMAIN tab
  BY <1>1 DEF Inv, FilesOK, PinnedBy, ReaderOK, Fits
<1> QED BY <1>1, <1>2, <1>3, <1>4

LEMMA AtKeeps ==
    ASSUME Inv, NEW r \in Threads, get[r].pc \in AtTable, NEW pc \in AtTable
    PROVE  /\ At(r, pc) \in GetRec /\ ReaderOK(At(r, pc))
           /\ Range(At(r, pc).snap.tabs) \subseteq files
<1> DEFINE g == At(r, pc)
<1>1. get[r] \in GetRec /\ ReaderOK(get[r]) /\ Range(get[r].snap.tabs) \subseteq files
  BY GetFacts
<1>2. /\ g.pc = pc /\ g.snap = get[r].snap /\ g.pos = get[r].pos /\ g.since = get[r].since
      /\ g \in GetRec
  BY <1>1 DEF At, GetRec, AtTable, PCs
<1> HIDE DEF g
<1>3. pc # "idle" /\ pc # "memtables" /\ pc # "done" /\ get[r].pc # "idle"
  BY DEF AtTable
<1>4. ReaderOK(g)
  BY <1>1, <1>2, <1>3 DEF ReaderOK
<1> QED BY <1>1, <1>2, <1>4 DEF g

LEMMA AnswerOK ==
    ASSUME Inv, NEW r \in Threads, get[r].pc # "idle", NEW n \in Nat, n \in get[r].since .. writes
    PROVE  /\ Answer(r, n) \in GetRec /\ ReaderOK(Answer(r, n))
           /\ Range(Answer(r, n).snap.tabs) \subseteq files
<1> DEFINE g == Answer(r, n)
<1>1. get[r] \in GetRec /\ ReaderOK(get[r]) /\ Range(get[r].snap.tabs) \subseteq files
  BY GetFacts
<1>2. /\ g.pc = "done" /\ g.snap = get[r].snap /\ g.result = n /\ g.since = get[r].since
      /\ g \in GetRec
  BY <1>1 DEF Answer, GetRec, PCs
<1> HIDE DEF g
<1>3. g.pc # "idle" /\ g.pc # "memtables" /\ g.pc \notin AtTable
  BY <1>2 DEF AtTable
<1>4. ReaderOK(g)
  BY <1>1, <1>2, <1>3 DEF ReaderOK
<1> QED BY <1>1, <1>2, <1>4 DEF g

(* What a get looks for is in a later table, or was never written.         *)
Later(r) == \/ get[r].since = 0
            \/ \E q \in DOMAIN get[r].snap.tabs :
                  get[r].pos < q /\ tab[get[r].snap.tabs[q]] >= get[r].since

LEMMA OnwardOK ==
    ASSUME Inv, NEW r \in Threads, get[r].pc # "idle", Later(r)
    PROVE  /\ Onward(r) \in GetRec /\ ReaderOK(Onward(r))
           /\ Range(Onward(r).snap.tabs) \subseteq files
<1>1. /\ get[r] \in GetRec /\ ReaderOK(get[r]) /\ Range(get[r].snap.tabs) \subseteq files
      /\ get[r].pos \in Nat /\ get[r].since \in Nat /\ Len(get[r].snap.tabs) \in Nat /\ writes \in Nat
      /\ DOMAIN get[r].snap.tabs = 1 .. Len(get[r].snap.tabs)
  BY GetFacts
<1>2. CASE get[r].pos < Len(get[r].snap.tabs)
  <2> DEFINE g == TableAt(r)
  <2>1. /\ g.pc = "table" /\ g.snap = get[r].snap /\ g.pos = get[r].pos + 1 /\ g.since = get[r].since
        /\ g \in GetRec
    <3>1. get[r].pos + 1 \in Nat /\ "table" \in PCs
      BY <1>1 DEF PCs
    <3>2. g = [get[r] EXCEPT !.pc = "table", !.pos = get[r].pos + 1]
      BY DEF TableAt
    <3> QED BY ONLY <1>1, <3>1, <3>2 DEF GetRec
  <2>2. g.pos \in DOMAIN g.snap.tabs
    BY <2>1, <1>1, <1>2
  <2> HIDE DEF g
  <2>3. g.since = 0 \/ \E q \in DOMAIN g.snap.tabs : g.pos <= q /\ tab[g.snap.tabs[q]] >= g.since
    <3>1. CASE get[r].since = 0
      BY <3>1, <2>1
    <3>2. CASE get[r].since # 0
      <4>1. PICK q \in DOMAIN get[r].snap.tabs :
                   get[r].pos < q /\ tab[get[r].snap.tabs[q]] >= get[r].since
        BY <3>2 DEF Later
      <4>2. get[r].pos + 1 <= q
        BY <4>1, <1>1
      <4> QED BY <4>1, <4>2, <2>1
    <3> QED BY <3>1, <3>2
  <2>4. ReaderOK(g)
    BY <2>1, <2>2, <2>3, <1>1 DEF ReaderOK
  <2>5. Onward(r) = g
    BY <1>2 DEF Onward, g
  <2> QED BY <2>1, <2>4, <2>5, <1>1
<1>3. CASE ~(get[r].pos < Len(get[r].snap.tabs))
  <2>1. get[r].since = 0
    BY <1>1, <1>3 DEF Later
  <2>2. 0 \in get[r].since .. writes
    BY <2>1, <1>1
  <2>3. Onward(r) = Answer(r, 0)
    BY <1>3 DEF Onward
  <2> QED BY <2>2, <2>3, AnswerOK
<1> QED BY <1>2, <1>3

LEMMA MemtablesOf ==
    ASSUME Typed, Bounded, NEW v, Fits(v), v.act \in DOMAIN mem
    PROVE  /\ InMemtables(v) \in Nat /\ InMemtables(v) <= writes
           /\ \A i \in Memtables(v) : mem[i] <= InMemtables(v)
           /\ \E i \in Memtables(v) : InMemtables(v) = mem[i]
<1> DEFINE S == {mem[i] : i \in Memtables(v)}
<1>1. writes \in Nat /\ \A i \in DOMAIN mem : mem[i] \in Nat /\ mem[i] <= writes
  BY DEF Typed, Bounded
<1>2. Memtables(v) \subseteq DOMAIN mem /\ v.act \in Memtables(v)
  BY DEF Memtables, Fits
<1>3. S \in SUBSET Nat /\ S # {} /\ \A x \in S : x <= writes
  BY <1>1, <1>2
<1>4. Max(S) \in S /\ \A x \in S : x <= Max(S)
  <2> HIDE DEF S
  <2> QED BY <1>1, <1>3, GreatestOfBounded
<1>5. InMemtables(v) = Max(S)
  BY DEF InMemtables, Memtables
<1> QED BY <1>3, <1>4, <1>5

LEMMA BeginStep ==
    ASSUME Inv, NEW r \in Threads, Begin(r)
    PROVE  Inv'
<1> DEFINE g == [At(r, "memtables") EXCEPT !.snap = cur, !.since = writes, !.pos = 0]
<1>1. get[r] \in GetRec /\ cur \in Version /\ writes \in Nat /\ CurOK /\ Range(cur.tabs) \subseteq files
  BY DEF Inv, Typed, FilesOK
<1>2. /\ g.pc = "memtables" /\ g.snap = cur /\ g.since = writes /\ g.pos = 0
      /\ g \in GetRec
  BY <1>1 DEF At, GetRec, PCs
<1>3. Step(r, g) /\ UNCHANGED <<writes, mem, tab, cur, files, job, open>>
  BY DEF Begin
<1> HIDE DEF g
<1>4. ReaderOK(g)
  BY <1>1, <1>2 DEF ReaderOK, CurOK, AtTable
<1>5. open' \subseteq DOMAIN tab
  BY <1>3 DEF Inv, Typed
<1> QED BY <1>1, <1>2, <1>3, <1>4, <1>5, ReaderMoves

LEMMA LookInMemtablesStep ==
    ASSUME Inv, NEW r \in Threads, LookInMemtables(r)
    PROVE  Inv'
<1> DEFINE v == get[r].snap
           n == InMemtables(v)
<1>1. /\ get[r].pc = "memtables" /\ UNCHANGED <<writes, mem, tab, cur, files, job, open>>
      /\ Step(r, IF n # 0 THEN Answer(r, n) ELSE Onward(r))
  BY DEF LookInMemtables
<1>2. /\ writes \in Nat /\ get[r].since \in Nat /\ ReaderOK(get[r])
      /\ DOMAIN v.tabs = 1 .. Len(v.tabs) /\ Len(v.tabs) \in Nat
  BY GetFacts
<1>3. /\ Fits(v) /\ Ordered(v) /\ get[r].since <= writes
      /\ Reaches(v, get[r].since) /\ get[r].pos = 0
  BY <1>1, <1>2 DEF ReaderOK
<1> HIDE DEF v
<1>4. /\ n \in Nat /\ n <= writes
      /\ \A i \in Memtables(v) : mem[i] <= n
      /\ \E i \in Memtables(v) : n = mem[i]
  <2>1. v.act \in DOMAIN mem
    BY <1>3 DEF Ordered
  <2> QED BY <2>1, <1>3, MemtablesOf DEF Inv
<1> HIDE DEF n
<1>5. Memtables(v) \subseteq DOMAIN mem /\ \A i \in Memtables(v) : mem[i] \in Nat
  <2>1. Memtables(v) \subseteq DOMAIN mem
    BY <1>3 DEF Fits, Ordered, Memtables
  <2> QED BY <2>1 DEF Inv, Typed
<1>6. Range(v.tabs) \subseteq DOMAIN tab /\ \A t \in Range(v.tabs) : tab[t] \in Nat
  <2>1. Range(v.tabs) \subseteq DOMAIN tab
    BY <1>3 DEF Fits
  <2> QED BY <2>1 DEF Inv, Typed
<1>7. open' \subseteq DOMAIN tab
  BY <1>1 DEF Inv, Typed
<1>8. CASE n # 0
  <2>1. get[r].since <= n
    <3>1. CASE get[r].since = 0
      BY <3>1, <1>4
    <3>2. CASE \E i \in Memtables(v) : mem[i] >= get[r].since
      BY <3>2, <1>2, <1>4, <1>5
    <3>3. CASE \E t \in Range(v.tabs) : tab[t] >= get[r].since
      <4>1. PICK t \in Range(v.tabs) : tab[t] >= get[r].since
        BY <3>3
      <4>2. PICK i \in Memtables(v) : n = mem[i]
        BY <1>4
      <4>3. tab[t] <= n
        BY <4>2, <1>3, <1>8 DEF Ordered
      <4> QED BY <4>1, <4>3, <1>2, <1>4, <1>6
    <3> QED BY <3>1, <3>2, <3>3, <1>3 DEF Reaches
  <2>2. n \in get[r].since .. writes
    BY <2>1, <1>2, <1>4
  <2>3. Step(r, Answer(r, n)) /\ get[r].pc # "idle"
    BY <1>1, <1>8
  <2>4. Answer(r, n) \in GetRec /\ ReaderOK(Answer(r, n)) /\ Range(Answer(r, n).snap.tabs) \subseteq files
    BY <2>2, <2>3, <1>4, AnswerOK
  <2> QED BY <2>3, <2>4, <1>1, <1>7, ReaderMoves
<1>9. CASE n = 0
  <2>1. Later(r)
    <3>1. CASE get[r].since = 0
      BY <3>1 DEF Later
    <3>2. CASE get[r].since # 0 /\ \E i \in Memtables(v) : mem[i] >= get[r].since
      BY <3>2, <1>2, <1>4, <1>5, <1>9
    <3>3. CASE \E t \in Range(v.tabs) : tab[t] >= get[r].since
      <4>1. PICK q \in DOMAIN v.tabs : tab[v.tabs[q]] >= get[r].since
        BY <3>3 DEF Range
      <4>2. get[r].pos < q
        BY <4>1, <1>2, <1>3 DEF v
      <4> QED BY <4>1, <4>2 DEF Later, v
    <3> QED BY <3>1, <3>2, <3>3, <1>3 DEF Reaches
  <2>2. Step(r, Onward(r)) /\ get[r].pc # "idle"
    BY <1>1, <1>9
  <2>3. Onward(r) \in GetRec /\ ReaderOK(Onward(r)) /\ Range(Onward(r).snap.tabs) \subseteq files
    BY <2>1, <2>2, OnwardOK
  <2> QED BY <2>2, <2>3, <1>1, <1>7, ReaderMoves
<1> QED BY <1>8, <1>9

(* What a get learns from the table it is at.                              *)
LEMMA AtATable ==
    ASSUME Inv, NEW r \in Threads, get[r].pc \in AtTable
    PROVE  /\ tab[Table(r)] \in Nat /\ Table(r) \in DOMAIN tab
           /\ tab[Table(r)] # 0 => tab[Table(r)] \in get[r].since .. writes
           /\ tab[Table(r)] = 0 => Later(r)
<1> DEFINE T == get[r].snap.tabs
           p == get[r].pos
           n == tab[T[p]]
<1>1. /\ p \in DOMAIN T /\ Ordered(get[r].snap) /\ Range(T) \subseteq DOMAIN tab
      /\ get[r].since = 0 \/ \E q \in DOMAIN T : p <= q /\ tab[T[q]] >= get[r].since
      /\ get[r].since \in Nat /\ writes \in Nat /\ DOMAIN T = 1 .. Len(T) /\ Len(T) \in Nat
  BY GetFacts DEF ReaderOK, AtTable
<1>2. \A q \in DOMAIN T : T[q] \in DOMAIN tab
  BY <1>1 DEF Range
<1>3. \A q \in DOMAIN T : tab[T[q]] \in Nat /\ tab[T[q]] <= writes
  BY <1>2 DEF Inv, Typed, Bounded
<1>4. \A q \in DOMAIN T : p < q => n = 0 \/ tab[T[q]] <= n
  BY <1>1 DEF Ordered
<1>5. Table(r) = T[p]
  BY DEF Table
<1> HIDE DEF T, p
<1>6. n # 0 => get[r].since <= n
  <2> SUFFICES ASSUME n # 0, get[r].since # 0 PROVE get[r].since <= n
    BY <1>1, <1>3
  <2>1. PICK q \in DOMAIN T : p <= q /\ tab[T[q]] >= get[r].since
    BY <1>1
  <2>2. CASE p = q
    BY <2>1, <2>2, <1>1, <1>3
  <2>3. CASE p < q
    BY <2>1, <2>3, <1>1, <1>3, <1>4
  <2> QED BY <2>1, <2>2, <2>3, <1>1
<1>7. n = 0 => Later(r)
  <2> SUFFICES ASSUME n = 0, get[r].since # 0 PROVE \E q \in DOMAIN T : p < q /\ tab[T[q]] >= get[r].since
    BY DEF Later, T, p
  <2>1. PICK q \in DOMAIN T : p <= q /\ tab[T[q]] >= get[r].since
    BY <1>1
  <2>2. p # q
    BY <2>1, <1>1, <1>3
  <2> QED BY <2>1, <2>2, <1>1
<1> QED BY <1>1, <1>2, <1>3, <1>5, <1>6, <1>7

LEMMA ReadTableStep ==
    ASSUME Inv, NEW r \in Threads, ReadTable(r) \/ SkipTable(r)
    PROVE  Inv'
<1> DEFINE n == tab[Table(r)]
<1>1. /\ get[r].pc \in AtTable /\ get[r].pc # "idle" /\ UNCHANGED <<writes, mem, tab, cur, files, job, open>>
      /\ \/ n # 0 /\ Step(r, Answer(r, n))
         \/ n = 0 /\ Step(r, Onward(r))
  BY DEF ReadTable, SkipTable, AtTable
<1>2. open' \subseteq DOMAIN tab
  BY <1>1 DEF Inv, Typed
<1>3. /\ n \in Nat
      /\ n # 0 => n \in get[r].since .. writes
      /\ n = 0 => Later(r)
  BY <1>1, AtATable
<1> HIDE DEF n
<1>4. CASE n # 0
  <2>1. Answer(r, n) \in GetRec /\ ReaderOK(Answer(r, n)) /\ Range(Answer(r, n).snap.tabs) \subseteq files
    BY <1>1, <1>3, <1>4, AnswerOK
  <2> QED BY <2>1, <1>1, <1>2, <1>4, ReaderMoves
<1>5. CASE n = 0
  <2>1. Onward(r) \in GetRec /\ ReaderOK(Onward(r)) /\ Range(Onward(r).snap.tabs) \subseteq files
    BY <1>1, <1>3, <1>5, OnwardOK
  <2> QED BY <2>1, <1>1, <1>2, <1>5, ReaderMoves
<1> QED BY <1>4, <1>5

(* The steps that only move the thread within a table.                     *)
LEMMA MoveAtTable ==
    ASSUME Inv, NEW r \in Threads, get[r].pc \in AtTable, NEW pc \in AtTable, Step(r, At(r, pc)),
           UNCHANGED <<writes, mem, tab, cur, files, job>>, open' \subseteq DOMAIN tab
    PROVE  Inv'
<1>1. At(r, pc) \in GetRec /\ ReaderOK(At(r, pc)) /\ Range(At(r, pc).snap.tabs) \subseteq files
  BY AtKeeps
<1> QED BY <1>1, ReaderMoves

LEMMA TableSteps ==
    ASSUME Inv, NEW r \in Threads,
           LockTable(r) \/ OpenTable(r) \/ CloseVictim(r) \/ Requeue(r) \/ UseDestroyed(r)
    PROVE  Inv'
<1>0. open \subseteq DOMAIN tab /\ files \subseteq DOMAIN tab /\ get \in [Threads -> GetRec]
      /\ job \in [todo : Seq(Nat), deferred : SUBSET Nat]
  BY DEF Inv, Typed
<1>1. UNCHANGED <<writes, mem, tab, cur, files, job>>
  BY DEF LockTable, OpenTable, CloseVictim, Requeue, UseDestroyed
<1>2. get[r].pc \in AtTable
  BY DEF LockTable, OpenTable, CloseVictim, Requeue, UseDestroyed, Evicting, AtTable
<1>3. open' \subseteq DOMAIN tab
  BY <1>0 DEF LockTable, OpenTable, CloseVictim, Requeue, UseDestroyed
<1>4. {"open", "read", "evict", "requeue"} \subseteq AtTable
  BY DEF AtTable
<1>5. (\E pc \in {"open", "read", "evict", "requeue"} : Step(r, At(r, pc))) \/ get' = get
  BY DEF LockTable, OpenTable, CloseVictim, Requeue, UseDestroyed
<1>6. CASE \E pc \in {"open", "read", "evict", "requeue"} : Step(r, At(r, pc))
  BY <1>1, <1>2, <1>3, <1>4, <1>6, MoveAtTable
<1>7. CASE get' = get
  <2>1. Range(cur.tabs) \subseteq files /\ \A s \in Threads : PinnedBy(s) \subseteq files
    BY DEF Inv, FilesOK
  <2> QED BY <2>1, <1>0, <1>1, <1>3, <1>7, JobMoves
<1> QED BY <1>5, <1>6, <1>7

LEMMA ReturnStep ==
    ASSUME Inv, NEW r \in Threads, Return(r)
    PROVE  Inv'
<1> DEFINE g == [NoGet EXCEPT !.done = get[r].done + 1]
<1>1. UNCHANGED <<writes, mem, tab, cur, files, job>> /\ Step(r, g)
  BY DEF Return, Step
<1>2. open' \subseteq DOMAIN tab
  BY DEF Return, DestroyUnreferenced, Inv, Typed
<1>3. NoGet \in GetRec /\ NoGet.pc = "idle" /\ NoGet.snap = NoVersion
  BY NoVersionIsOne DEF NoGet, GetRec, PCs
<1>4. get[r].done + 1 \in Nat
  BY GetFacts
<1>5. g \in GetRec /\ g.pc = "idle" /\ g.snap = NoVersion
  <2> HIDE DEF NoVersion
  <2> QED BY <1>3, <1>4 DEF GetRec, NoGet
<1> HIDE DEF g
<1>6. Range(NoVersion.tabs) = {} /\ Range(NoVersion.imms) = {}
  BY DEF NoVersion, Range
<1>7. ReaderOK(g) /\ Range(g.snap.tabs) \subseteq files
  BY <1>5, <1>6 DEF ReaderOK, Fits, AtTable
<1> QED BY <1>1, <1>2, <1>5, <1>7, ReaderMoves

-----------------------------------------------------------------------------
(* Theorems.                                                               *)

LEMMA NextKeepsInv == Inv /\ [Next]_vars => Inv'
<1> SUFFICES ASSUME Inv, [Next]_vars PROVE Inv'
  OBVIOUS
<1>1. CASE Write
  BY <1>1, WriteStep
<1>2. CASE Rotate
  BY <1>2, RotateStep
<1>3. CASE FlushPublish
  BY <1>3, FlushPublishStep
<1>4. CASE Compact
  <2>1. PICK j \in DOMAIN cur.tabs : \E i \in 1 .. j - 1 : CompactPublish(i, j)
    BY <1>4 DEF Compact
  <2> QED BY <2>1, CompactPublishStep
<1>5. CASE DeleteInput
  BY <1>5, DeleteInputStep
<1>6. CASE FinishCompaction
  BY <1>6, FinishCompactionStep
<1>7. CASE \E r \in Threads : Begin(r) \/ GetStep(r)
  <2>1. PICK r \in Threads : Begin(r) \/ GetStep(r)
    BY <1>7
  <2>2. CASE Begin(r)
    BY <2>2, BeginStep
  <2>3. CASE LookInMemtables(r)
    BY <2>3, LookInMemtablesStep
  <2>4. CASE ReadTable(r) \/ SkipTable(r)
    BY <2>4, ReadTableStep
  <2>5. CASE LockTable(r) \/ OpenTable(r) \/ CloseVictim(r) \/ Requeue(r) \/ UseDestroyed(r)
    BY <2>5, TableSteps
  <2>6. CASE Return(r)
    BY <2>6, ReturnStep
  <2> QED BY <2>1, <2>2, <2>3, <2>4, <2>5, <2>6 DEF GetStep
<1>8. CASE UNCHANGED vars
  <2>1. open \subseteq DOMAIN tab /\ job \in [todo : Seq(Nat), deferred : SUBSET Nat]
    BY DEF Inv, Typed
  <2>2. Range(cur.tabs) \subseteq files /\ \A s \in Threads : PinnedBy(s) \subseteq files
    BY DEF Inv, FilesOK
  <2> QED BY <2>1, <2>2, <1>8, JobMoves DEF vars
<1> QED BY <1>1, <1>2, <1>3, <1>4, <1>5, <1>6, <1>7, <1>8 DEF Next

LEMMA InvIsInvariant == Spec => []Inv
<1>1. Init => Inv
  BY InitInv, ReadsAssumption
<1> QED BY <1>1, NextKeepsInv, PTL DEF Spec

(* engine.hpp's Version: what a reader grabbed and what is current refer   *)
(* only to memtables and tables that exist, and a thread is at a table of  *)
(* its own Version (Engine::get, FdPool).                                  *)
THEOREM TypeOKHolds == Spec => []TypeOK
<1>1. Inv => TypeOK
  <2> SUFFICES ASSUME Inv PROVE TypeOK
    OBVIOUS
  <2>1. writes \in Nat /\ cur.act = Len(mem) /\ files \subseteq DOMAIN tab /\ open \subseteq DOMAIN tab
    BY DEF Inv, Typed
  <2>2. Range(cur.imms) \subseteq DOMAIN mem /\ Range(cur.tabs) \subseteq DOMAIN tab
    BY DEF Inv, CurOK, Fits
  <2>3. ASSUME NEW r \in Threads
        PROVE  /\ Range(get[r].snap.imms) \subseteq DOMAIN mem /\ Range(get[r].snap.tabs) \subseteq DOMAIN tab
               /\ get[r].pc \in {"table", "open", "evict", "requeue", "read"} =>
                     get[r].pos \in DOMAIN get[r].snap.tabs
    BY DEF Inv, ReaderOK, Fits, AtTable
  <2> QED BY <2>1, <2>2, <2>3 DEF TypeOK
<1> QED BY <1>1, InvIsInvariant, PTL

(* Engine::run_compaction deletes an input only when use_count() says that *)
(* no Version refers to it: every file that a reader may still open, and   *)
(* every file of the current Version, is there.                            *)
THEOREM PinnedFilesExistHolds == Spec => []PinnedFilesExist
<1>1. Inv => PinnedFilesExist
  BY DEF Inv, FilesOK, PinnedFilesExist
<1> QED BY <1>1, InvIsInvariant, PTL

(* Engine::get on the Version it grabbed returns a value that was the last *)
(* written at some moment between its call and its return.                 *)
THEOREM GetIsLinearizableHolds == Spec => []GetIsLinearizable
<1>1. Inv => GetIsLinearizable
  BY DEF Inv, ReaderOK, GetIsLinearizable
<1> QED BY <1>1, InvIsInvariant, PTL
-----------------------------------------------------------------------------
(* The open files.                                                         *)

Tracked == Range(lru) \cup UNION {Range(victims[r]) : r \in Threads}

JobFits == Range(job.todo) \cup job.deferred \subseteq DOMAIN tab

PoolLists ==
    /\ lru \in Seq(Nat) /\ IsInjective(lru) /\ Range(lru) \subseteq DOMAIN tab
    /\ victims \in [Threads -> Seq(Nat)]
    /\ \A r \in Threads : IsInjective(victims[r]) /\ Range(victims[r]) \subseteq DOMAIN tab

(* No handle is in two places.                                             *)
PoolApart ==
    \A r \in Threads :
        /\ Range(lru) \cap Range(victims[r]) = {}
        /\ \A q \in Threads : q # r => Range(victims[q]) \cap Range(victims[r]) = {}

(* A handle that lives is open if and only if it is in one.                *)
PoolCovers == open \subseteq Tracked /\ Tracked \cap Alive \subseteq open

PoolPlaces ==
    \A r \in Threads :
        /\ victims[r] # <<>> => get[r].pc \in {"evict", "requeue"}
        /\ get[r].pc = "requeue" => victims[r] # <<>>

PoolInv == JobFits /\ PoolLists /\ PoolApart /\ PoolCovers /\ PoolPlaces

LEMMA AliveFits ==
    ASSUME Inv, JobFits
    PROVE  Alive \subseteq DOMAIN tab /\ IsFiniteSet(DOMAIN tab)
<1>1. Range(cur.tabs) \subseteq DOMAIN tab
  BY DEF Inv, CurOK, Fits
<1>2. \A r \in Threads : PinnedBy(r) \subseteq DOMAIN tab
  BY GetFacts DEF PinnedBy
<1>3. IsFiniteSet(DOMAIN tab)
  <2>1. Len(tab) \in Nat /\ DOMAIN tab = 1 .. Len(tab) /\ 1 \in Int /\ Len(tab) \in Int
    BY DEF Inv, Typed
  <2> QED BY <2>1, FS_Interval
<1> QED BY <1>1, <1>2, <1>3 DEF Alive, JobFits

(* Steps that leave the pool alone.                                        *)
LEMMA PoolStays ==
    ASSUME PoolInv, UNCHANGED <<lru, victims, open>>, DOMAIN tab \subseteq DOMAIN tab', JobFits',
           Alive' \cap DOMAIN tab \subseteq Alive, PoolPlaces'
    PROVE  PoolInv'
<1>1. Tracked' = Tracked /\ Tracked \subseteq DOMAIN tab
  BY DEF PoolInv, PoolLists, Tracked
<1>2. PoolCovers'
  BY <1>1 DEF PoolInv, PoolCovers
<1>3. PoolLists' /\ PoolApart'
  BY DEF PoolInv, PoolLists, PoolApart
<1> QED BY <1>2, <1>3 DEF PoolInv

(* A table that was not there.                                             *)
LEMMA NewTable ==
    ASSUME Inv, PoolInv, NEW x \in Nat, tab' = Append(tab, x),
           UNCHANGED <<lru, victims, open, get>>,
           Range(cur'.tabs) \subseteq Range(cur.tabs) \cup {Len(tab) + 1},
           Range(job'.todo) \subseteq Range(job.todo) \cup Range(cur.tabs),
           job'.deferred = job.deferred
    PROVE  PoolInv'
<1>1. tab \in Seq(Nat)
  BY DEF Inv, Typed
<1>2. DOMAIN tab \subseteq DOMAIN tab' /\ Len(tab) + 1 \notin DOMAIN tab
  BY <1>1, AppendNat
<1>3. \A r \in Threads : PinnedBy(r)' = PinnedBy(r)
  BY DEF PinnedBy
<1>4. Alive' \subseteq Alive \cup {Len(tab) + 1}
  BY <1>3 DEF Alive
<1>5. Range(cur.tabs) \subseteq DOMAIN tab
  BY DEF Inv, CurOK, Fits
<1>6. JobFits'
  BY <1>2, <1>5 DEF PoolInv, JobFits
<1>7. PoolPlaces'
  BY DEF PoolInv, PoolPlaces
<1> QED BY <1>2, <1>4, <1>6, <1>7, PoolStays

LEMMA FlushKeepsPool ==
    ASSUME Inv, PoolInv, FlushPublish
    PROVE  PoolInv'
<1>1. /\ cur.imms \in Seq(Nat) /\ cur.tabs \in Seq(Nat) /\ mem \in Seq(Nat) /\ cur \in Version
      /\ Range(cur.imms) \subseteq DOMAIN mem /\ cur.imms # <<>> /\ tab \in Seq(Nat)
  BY DEF Inv, Typed, Version, CurOK, Fits, FlushPublish
<1>2. Last(cur.imms) \in Range(cur.imms)
  BY <1>1, FrontFacts
<1>3. mem[Last(cur.imms)] \in Nat
  BY <1>1, <1>2
<1>4. cur'.tabs = <<Len(tab) + 1>> \o cur.tabs
  BY <1>1 DEF FlushPublish, TableInstead, Version
<1>5. Range(<<Len(tab) + 1>> \o cur.tabs) = {Len(tab) + 1} \cup Range(cur.tabs)
  BY <1>1, PrependFacts
<1>6. /\ tab' = Append(tab, mem[Last(cur.imms)]) /\ job' = job
      /\ UNCHANGED <<lru, victims, open, get>>
  BY DEF FlushPublish
<1> QED BY <1>3, <1>4, <1>5, <1>6, NewTable

LEMMA CompactKeepsPool ==
    ASSUME Inv, PoolInv, NEW j \in DOMAIN cur.tabs, NEW i \in 1 .. j - 1, CompactPublish(i, j)
    PROVE  PoolInv'
<1> DEFINE n == Len(tab) + 1
           T == cur.tabs
           I == SubSeq(T, i, j)
           N == Splice(T, i, j, n)
<1>1. /\ tab' = Append(tab, NewestOf(I)) /\ job' = [job EXCEPT !.todo = I]
      /\ cur' = [cur EXCEPT !.tabs = N]
      /\ UNCHANGED <<lru, victims, open, get>>
  BY DEF CompactPublish, Splice
<1>2. /\ T \in Seq(Nat) /\ n \in Nat /\ cur \in Version /\ tab \in Seq(Nat)
      /\ job \in [todo : Seq(Nat), deferred : SUBSET Nat]
      /\ Range(T) \subseteq DOMAIN tab
  BY DEF Inv, Typed, Version, CurOK, Fits
<1>3. IsSplice(Nat, T, i, j, n, N)
  <2> HIDE DEF T, n, N
  <2>1. T \in Seq(Nat) /\ n \in Nat /\ j \in DOMAIN T /\ i \in 1 .. j - 1
    BY <1>2 DEF T
  <2> QED BY ONLY <2>1, SpliceFacts DEF N
<1>4. cur'.tabs = N /\ job'.todo = I /\ job'.deferred = job.deferred
  <2> HIDE DEF N, I, T
  <2>1. cur'.tabs = N
    BY <1>1, <1>2 DEF Version
  <2>2. job'.todo = I /\ job'.deferred = job.deferred
    BY <1>1, <1>2
  <2> QED BY <2>1, <2>2
<1> HIDE DEF N, I
<1>5. Range(I) \subseteq Range(T)
  <2>1. Range(I) = {T[p] : p \in i .. j} /\ DOMAIN T = 1 .. Len(T) /\ Len(T) \in Nat /\ i \in Nat /\ j \in Nat
    BY <1>3 DEF IsSplice, I
  <2>2. \A p \in i .. j : p \in DOMAIN T
    BY <2>1
  <2> HIDE DEF T
  <2> QED BY <2>1, <2>2 DEF Range
<1>6. Range(N) \subseteq Range(T) \cup {n}
  <2> SUFFICES ASSUME NEW p \in DOMAIN N PROVE N[p] \in Range(T) \cup {n}
    BY DEF Range
  <2>1. p < i => p \in DOMAIN T
    BY <1>3 DEF IsSplice
  <2>2. p > i => p + (j - i) \in DOMAIN T
    BY <1>3 DEF IsSplice
  <2>3. p < i \/ p = i \/ p > i
    BY <1>3 DEF IsSplice
  <2>4. N[p] = IF p < i THEN T[p] ELSE IF p = i THEN n ELSE T[p + (j - i)]
    BY <1>3 DEF IsSplice
  <2> HIDE DEF T, n
  <2> QED BY <2>1, <2>2, <2>3, <2>4 DEF Range
<1>7. NewestOf(I) \in Nat
  <2>1. I \in Seq(Nat) /\ Range(I) \subseteq DOMAIN tab
    BY <1>2, <1>3, <1>5 DEF IsSplice, I
  <2>2. Typed /\ Bounded
    BY DEF Inv
  <2> QED BY <2>1, <2>2, <1>2, NewestOfInputs
<1> QED BY <1>1, <1>4, <1>5, <1>6, <1>7, NewTable

(* The destructor of the handles that a step let go.                       *)
LEMMA DestroyKeepsPool ==
    ASSUME Inv, PoolInv, DestroyUnreferenced, UNCHANGED <<tab, victims>>,
           Alive' \subseteq Alive, JobFits', PoolPlaces'
    PROVE  PoolInv'
<1>1. PICK gone : gone = Alive \ Alive'
  OBVIOUS
<1>2. IsFiniteSet(gone)
  BY <1>1, AliveFits, FS_Subset DEF PoolInv
<1>3. lru' = FoldSet(LAMBDA t, list : RemoveFirst(list, t), lru, gone) /\ open' = open \ gone
  BY <1>1 DEF DestroyUnreferenced
<1>4. lru \in Seq(Nat) /\ IsInjective(lru)
  BY DEF PoolInv, PoolLists
<1>5. IsRemoval(FoldSet(LAMBDA t, list : RemoveFirst(list, t), lru, gone), lru, gone, Nat)
  BY <1>2, <1>4, RemovalOfSet
<1>6. lru' \in Seq(Nat) /\ IsInjective(lru') /\ Range(lru') = Range(lru) \ gone
  BY <1>3, <1>5 DEF IsRemoval
<1>7. PoolLists'
  BY <1>6 DEF PoolInv, PoolLists
<1>8. PoolApart'
  BY <1>6 DEF PoolInv, PoolApart
<1>9. PoolCovers'
  <2>1. Tracked' = Range(lru') \cup UNION {Range(victims[r]) : r \in Threads}
    BY DEF Tracked
  <2>2. Tracked \ gone \subseteq Tracked' /\ Tracked' \subseteq Tracked
    BY <2>1, <1>6 DEF Tracked
  <2> QED BY <2>2, <1>1, <1>3 DEF PoolInv, PoolCovers
<1> QED BY <1>7, <1>8, <1>9 DEF PoolInv

LEMMA JobKeepsPool ==
    ASSUME Inv, PoolInv, DeleteInput \/ FinishCompaction
    PROVE  PoolInv'
<1>1. /\ UNCHANGED <<tab, cur, get, victims>> /\ DestroyUnreferenced
      /\ job \in [todo : Seq(Nat), deferred : SUBSET Nat]
  BY DEF DeleteInput, FinishCompaction, Inv, Typed
<1>2. /\ Range(job'.todo) \subseteq Range(job.todo)
      /\ job'.deferred \subseteq Range(job.todo) \cup job.deferred
  <2>1. CASE DeleteInput
    <3>1. /\ job.todo \in Seq(Nat) /\ job.todo # <<>>
          /\ job'.todo = Tail(job.todo)
          /\ job'.deferred \subseteq job.deferred \cup {Head(job.todo)}
      BY <2>1, <1>1 DEF DeleteInput
    <3>2. PICK s : s = job.todo
      OBVIOUS
    <3>3. Range(Tail(s)) \subseteq Range(s) /\ Head(s) \in Range(s)
      <4>1. /\ Len(s) \in Nat /\ Len(s) >= 1 /\ DOMAIN s = 1 .. Len(s) /\ Head(s) = s[1]
            /\ DOMAIN Tail(s) = 1 .. Len(s) - 1
            /\ \A j \in 1 .. Len(s) - 1 : Tail(s)[j] = s[j + 1]
        BY <3>1, <3>2
      <4>2. \A j \in DOMAIN Tail(s) : j + 1 \in DOMAIN s /\ Tail(s)[j] = s[j + 1]
        BY <4>1
      <4>3. 1 \in DOMAIN s
        BY <4>1
      <4> QED BY <4>1, <4>2, <4>3 DEF Range
    <3> QED BY <3>1, <3>2, <3>3
  <2>2. CASE FinishCompaction
    BY <2>2, <1>1 DEF FinishCompaction
  <2> QED BY <2>1, <2>2
<1>3. \A r \in Threads : PinnedBy(r)' = PinnedBy(r)
  BY <1>1 DEF PinnedBy
<1>4. Alive' \subseteq Alive
  BY <1>1, <1>2, <1>3 DEF Alive
<1>5. JobFits'
  BY <1>1, <1>2 DEF PoolInv, JobFits
<1>6. PoolPlaces'
  BY <1>1 DEF PoolInv, PoolPlaces
<1> QED BY <1>1, <1>4, <1>5, <1>6, DestroyKeepsPool

(* A step of one get() on the Version it has.                              *)
LEMMA GetKeepsAlive ==
    ASSUME Inv, UNCHANGED <<cur, job, tab>>, NEW r \in Threads, NEW g, Step(r, g),
           Range(g.snap.tabs) \subseteq Range(get[r].snap.tabs) \cup Range(cur.tabs)
    PROVE  /\ Alive' \subseteq Alive
           /\ get'[r] = g /\ \A q \in Threads : q # r => get'[q] = get[q]
           /\ Range(g.snap.tabs) = Range(get[r].snap.tabs) => Alive' = Alive
<1>1. get'[r] = g /\ \A q \in Threads : q # r => get'[q] = get[q]
  BY DEF Step, Inv, Typed
<1>2. /\ PinnedBy(r)' = Range(g.snap.tabs) /\ PinnedBy(r) = Range(get[r].snap.tabs)
      /\ \A q \in Threads : q # r => PinnedBy(q)' = PinnedBy(q)
  BY <1>1 DEF PinnedBy
<1>3. Alive' = Range(cur.tabs) \cup Range(job.todo) \cup job.deferred
                  \cup UNION {PinnedBy(q)' : q \in Threads}
  BY DEF Alive
<1>4. \A q \in Threads : PinnedBy(q)' \subseteq PinnedBy(q) \cup Range(cur.tabs)
  BY <1>2
<1>5. Alive' \subseteq Alive
  BY <1>3, <1>4 DEF Alive
<1>6. ASSUME Range(g.snap.tabs) = Range(get[r].snap.tabs) PROVE Alive' = Alive
  <2>1. \A q \in Threads : PinnedBy(q)' = PinnedBy(q)
    BY <1>2, <1>6
  <2> QED BY <2>1, <1>3 DEF Alive
<1> QED BY <1>1, <1>5, <1>6

(* A thread that is not evicting.                                          *)
LEMMA GetKeepsPool ==
    ASSUME Inv, PoolInv, UNCHANGED <<cur, job, tab, lru, victims, open>>,
           NEW r \in Threads, NEW g, Step(r, g),
           Range(g.snap.tabs) \subseteq Range(get[r].snap.tabs) \cup Range(cur.tabs),
           g.pc = "requeue" => victims[r] # <<>>,
           victims[r] # <<>> => g.pc = "requeue"
    PROVE  PoolInv'
<1>1. Alive' \subseteq Alive /\ get'[r] = g /\ \A q \in Threads : q # r => get'[q] = get[q]
  BY GetKeepsAlive
<1>2. JobFits'
  BY DEF PoolInv, JobFits
<1>3. PoolPlaces'
  BY <1>1 DEF PoolInv, PoolPlaces
<1> QED BY <1>1, <1>2, <1>3, PoolStays

LEMMA ReturnKeepsPool ==
    ASSUME Inv, PoolInv, NEW r \in Threads, Return(r)
    PROVE  PoolInv'
<1> DEFINE g == [NoGet EXCEPT !.done = get[r].done + 1]
<1>1. UNCHANGED <<cur, tab, job, victims>> /\ Step(r, g) /\ DestroyUnreferenced /\ get[r].pc = "done"
  BY DEF Return, Step
<1>2. g.pc = "idle" /\ Range(g.snap.tabs) = {}
  BY DEF NoGet, NoVersion, Range
<1> HIDE DEF g
<1>3. Alive' \subseteq Alive /\ get'[r] = g /\ \A q \in Threads : q # r => get'[q] = get[q]
  BY <1>1, <1>2, GetKeepsAlive
<1>4. JobFits'
  BY <1>1 DEF PoolInv, JobFits
<1>5. victims[r] = <<>>
  BY <1>1 DEF PoolInv, PoolPlaces
<1>6. PoolPlaces'
  BY <1>1, <1>2, <1>3, <1>5 DEF PoolInv, PoolPlaces
<1> QED BY <1>1, <1>3, <1>4, <1>6, DestroyKeepsPool

LEMMA NextPlaces ==
    ASSUME Inv, NEW r \in Threads
    PROVE  /\ \A pc : At(r, pc).pc = pc /\ At(r, pc).snap = get[r].snap
           /\ \A n : Answer(r, n).pc = "done" /\ Answer(r, n).snap = get[r].snap
           /\ Onward(r).pc \in {"table", "done"} /\ Onward(r).snap = get[r].snap
<1>1. get[r] \in GetRec
  BY GetFacts
<1>2. \A pc : At(r, pc).pc = pc /\ At(r, pc).snap = get[r].snap
  BY <1>1 DEF At, GetRec
<1>3. \A n : Answer(r, n).pc = "done" /\ Answer(r, n).snap = get[r].snap
  BY <1>1 DEF Answer, GetRec
<1>4. TableAt(r).pc = "table" /\ TableAt(r).snap = get[r].snap
  BY <1>1 DEF TableAt, GetRec
<1> QED BY <1>2, <1>3, <1>4 DEF Onward

(* Steps of a get() that do not touch the pool.                            *)
LEMMA ReadingKeepsPool ==
    ASSUME Inv, PoolInv, NEW r \in Threads,
           Begin(r) \/ LookInMemtables(r) \/ SkipTable(r) \/ LockTable(r) \/ ReadTable(r)
    PROVE  PoolInv'
<1>1. UNCHANGED <<cur, tab, job, lru, victims, open>>
  BY DEF Begin, LookInMemtables, SkipTable, LockTable, ReadTable
<1>2. victims[r] = <<>>
  BY DEF PoolInv, PoolPlaces, Begin, LookInMemtables, SkipTable, LockTable, ReadTable
<1>3. PICK g : /\ Step(r, g) /\ g.pc # "requeue"
               /\ Range(g.snap.tabs) \subseteq Range(get[r].snap.tabs) \cup Range(cur.tabs)
  <2>1. CASE Begin(r)
    <3> DEFINE g == [At(r, "memtables") EXCEPT !.snap = cur, !.since = writes, !.pos = 0]
    <3>1. Step(r, g)
      BY <2>1 DEF Begin
    <3>2. g.pc = "memtables" /\ g.snap = cur
      BY GetFacts DEF At, GetRec
    <3> QED BY <3>1, <3>2
  <2>2. CASE LookInMemtables(r)
    <3>1. PICK n : Step(r, IF n # 0 THEN Answer(r, n) ELSE Onward(r))
      BY <2>2 DEF LookInMemtables
    <3> QED BY <3>1, NextPlaces
  <2>3. CASE SkipTable(r)
    <3>1. Step(r, Onward(r))
      BY <2>3 DEF SkipTable
    <3> QED BY <3>1, NextPlaces
  <2>4. CASE LockTable(r)
    <3>1. Step(r, At(r, "open"))
      BY <2>4 DEF LockTable
    <3>2. At(r, "open").pc = "open" /\ At(r, "open").snap = get[r].snap
      BY NextPlaces
    <3> QED BY <3>1, <3>2
  <2>5. CASE ReadTable(r)
    <3>1. PICK n : Step(r, IF n # 0 THEN Answer(r, n) ELSE Onward(r))
      BY <2>5 DEF ReadTable
    <3> QED BY <3>1, NextPlaces
  <2> QED BY <2>1, <2>2, <2>3, <2>4, <2>5
<1> QED BY <1>1, <1>2, <1>3, GetKeepsPool

(* A step of a thread that moves within the pool.                          *)
LEMMA AtInPool ==
    ASSUME Inv, UNCHANGED <<cur, job, tab>>, NEW r \in Threads, NEW pc, Step(r, At(r, pc))
    PROVE  /\ Alive' = Alive /\ get'[r].pc = pc /\ \A q \in Threads : q # r => get'[q] = get[q]
<1>1. At(r, pc).pc = pc /\ At(r, pc).snap = get[r].snap
  BY NextPlaces
<1> DEFINE g == At(r, pc)
<1> HIDE DEF g
<1>2. Step(r, g) /\ g.pc = pc /\ g.snap = get[r].snap
  BY <1>1 DEF g
<1> QED BY <1>2, GetKeepsAlive

(* The table a thread is at is one it has pinned.                          *)
LEMMA TableIsAlive ==
    ASSUME Inv, NEW r \in Threads, get[r].pc \in AtTable
    PROVE  Table(r) \in Alive /\ Table(r) \in DOMAIN tab /\ Table(r) \in Nat
<1>1. get[r].pos \in DOMAIN get[r].snap.tabs
  BY GetFacts DEF ReaderOK
<1>2. Table(r) \in PinnedBy(r)
  BY <1>1 DEF Table, PinnedBy, Range
<1>3. Table(r) \in DOMAIN tab /\ DOMAIN tab \subseteq Nat
  BY AtATable DEF Inv, Typed
<1> QED BY <1>2, <1>3 DEF Alive

LEMMA TouchKeepsPool ==
    ASSUME Inv, PoolInv, NEW r \in Threads, OpenTable(r), Table(r) \in open
    PROVE  PoolInv'
<1> DEFINE t == Table(r)
<1>1. /\ get[r].pc = "open" /\ UNCHANGED <<cur, tab, job, victims, open>>
      /\ lru' = Touched(t) /\ Step(r, At(r, "read"))
  BY DEF OpenTable
<1>2. /\ Alive' = Alive /\ get'[r].pc = "read" /\ \A q \in Threads : q # r => get'[q] = get[q]
  BY <1>1, AtInPool
<1>3. t \in DOMAIN tab /\ t \in Nat
  BY <1>1, TableIsAlive DEF AtTable
<1> HIDE DEF t
<1>4. lru' \in Seq(Nat) /\ IsInjective(lru') /\ Range(lru') = Range(lru)
  <2>1. lru \in Seq(Nat) /\ IsInjective(lru)
    BY DEF PoolInv, PoolLists
  <2>2. CASE t \in Range(lru)
    <3>1. PICK s : s = RemoveFirst(lru, t)
      OBVIOUS
    <3>2. s \in Seq(Nat) /\ IsInjective(s) /\ Range(s) = Range(lru) \ {t}
      BY <2>1, <3>1, RemoveFirstFacts
    <3>3. /\ <<t>> \o s \in Seq(Nat) /\ IsInjective(<<t>> \o s)
          /\ Range(<<t>> \o s) = {t} \cup Range(s)
      BY <3>2, <1>3, PrependNew
    <3> QED BY <2>2, <3>1, <3>2, <3>3, <1>1 DEF Touched
  <2>3. CASE t \notin Range(lru)
    BY <2>1, <2>3, <1>1 DEF Touched
  <2> QED BY <2>2, <2>3
<1>5. JobFits' /\ PoolLists' /\ PoolApart'
  BY <1>1, <1>4 DEF PoolInv, JobFits, PoolLists, PoolApart
<1>6. PoolCovers'
  <2>1. Tracked' = Tracked
    BY <1>1, <1>4 DEF Tracked
  <2> QED BY <2>1, <1>1, <1>2 DEF PoolInv, PoolCovers
<1>7. PoolPlaces'
  BY <1>1, <1>2 DEF PoolInv, PoolPlaces
<1> QED BY <1>5, <1>6, <1>7 DEF PoolInv

LEMMA OpenKeepsPool ==
    ASSUME Inv, PoolInv, NEW r \in Threads, OpenTable(r), Table(r) \notin open
    PROVE  PoolInv'
<1> DEFINE t == Table(r)
           P == <<t>> \o lru
           n == Min({Len(P), MaxOpen})
           a == SubSeq(P, 1, n)
           b == Reverse(SubSeq(P, n + 1, Len(P)))
<1>1. /\ get[r].pc = "open" /\ UNCHANGED <<cur, tab, job>>
      /\ open' = open \cup {t} /\ lru' = a /\ Step(r, At(r, "evict"))
      /\ victims' = [victims EXCEPT ![r] = b]
  BY DEF OpenTable, Pushed
<1>2. /\ Alive' = Alive /\ get'[r].pc = "evict" /\ \A q \in Threads : q # r => get'[q] = get[q]
  BY <1>1, AtInPool
<1>3. t \in Alive /\ t \in DOMAIN tab /\ t \in Nat
  BY <1>1, TableIsAlive DEF AtTable
<1>4. t \notin Tracked
  BY <1>3 DEF PoolInv, PoolCovers
<1>5. /\ lru \in Seq(Nat) /\ IsInjective(lru) /\ Range(lru) \subseteq DOMAIN tab
      /\ victims \in [Threads -> Seq(Nat)]
  BY DEF PoolInv, PoolLists
<1> HIDE DEF t
<1>6. P \in Seq(Nat) /\ IsInjective(P) /\ Range(P) = {t} \cup Range(lru)
  <2>1. t \notin Range(lru)
    BY <1>4 DEF Tracked
  <2> QED BY <2>1, <1>3, <1>5, PrependNew
<1> HIDE DEF P
<1>7. n \in 0 .. Len(P)
  <2>1. Len(P) \in Nat /\ MaxOpen \in Nat
    BY <1>6, ReadsAssumption
  <2> QED BY <2>1, LesserOfTwo
<1> HIDE DEF n
<1>8. /\ a \in Seq(Nat) /\ IsInjective(a) /\ b \in Seq(Nat) /\ IsInjective(b)
      /\ Range(a) \cap Range(b) = {} /\ Range(a) \cup Range(b) = Range(P)
  BY <1>6, <1>7, SplitFacts
<1> HIDE DEF a, b
<1>9. /\ victims' \in [Threads -> Seq(Nat)] /\ victims'[r] = b
      /\ \A q \in Threads : q # r => victims'[q] = victims[q]
  BY <1>1, <1>5, <1>8
<1>10. victims[r] = <<>>
  BY <1>1 DEF PoolInv, PoolPlaces
<1>11. JobFits' /\ PoolPlaces'
  BY <1>1, <1>2, <1>9 DEF PoolInv, JobFits, PoolPlaces
<1>12. Range(P) \subseteq DOMAIN tab
  BY <1>3, <1>5, <1>6
<1>13. PoolLists'
  <2>1. \A q \in Threads : IsInjective(victims'[q]) /\ Range(victims'[q]) \subseteq DOMAIN tab
    BY <1>8, <1>9, <1>12 DEF PoolInv, PoolLists
  <2> QED BY <2>1, <1>1, <1>8, <1>9, <1>12 DEF PoolLists
<1>14. \A q \in Threads : q # r => Range(P) \cap Range(victims[q]) = {}
  BY <1>4, <1>6 DEF Tracked, PoolInv, PoolApart
<1>15. PoolApart'
  <2>1. ASSUME NEW q \in Threads PROVE Range(lru') \cap Range(victims'[q]) = {}
    BY <1>1, <1>8, <1>9, <1>14
  <2>2. ASSUME NEW q \in Threads, NEW u \in Threads, q # u
        PROVE  Range(victims'[q]) \cap Range(victims'[u]) = {}
    <3>1. CASE q = r
      BY <2>2, <3>1, <1>8, <1>9, <1>14
    <3>2. CASE u = r
      BY <2>2, <3>2, <1>8, <1>9, <1>14
    <3>3. CASE q # r /\ u # r
      BY <2>2, <3>3, <1>9 DEF PoolInv, PoolApart
    <3> QED BY <3>1, <3>2, <3>3
  <2> QED BY <2>1, <2>2 DEF PoolApart
<1>16. PoolCovers'
  <2>1. Tracked' = Tracked \cup {t}
    <3>1. Range(<<>>) = {}
      BY DEF Range
    <3>2. Tracked' = Range(a) \cup UNION {Range(victims'[q]) : q \in Threads}
      BY <1>1 DEF Tracked
    <3>3. UNION {Range(victims'[q]) : q \in Threads} = Range(b) \cup UNION {Range(victims[q]) : q \in Threads}
      BY <3>1, <1>9, <1>10
    <3> QED BY <3>2, <3>3, <1>6, <1>8 DEF Tracked
  <2> QED BY <2>1, <1>1, <1>2 DEF PoolInv, PoolCovers
<1> QED BY <1>11, <1>13, <1>15, <1>16 DEF PoolInv

(* A victim that leaves the list of the thread that evicts it.             *)
LEMMA VictimLeaves ==
    ASSUME PoolInv, NEW r \in Threads, victims[r] # <<>>, NextVictim(r)
    PROVE  /\ victims' \in [Threads -> Seq(Nat)]
           /\ IsInjective(victims'[r]) /\ Range(victims'[r]) = Range(victims[r]) \ {Victim(r)}
           /\ Victim(r) \in Range(victims[r]) /\ Victim(r) \in Nat
           /\ \A q \in Threads : q # r => victims'[q] = victims[q]
<1>1. victims \in [Threads -> Seq(Nat)] /\ victims[r] \in Seq(Nat) /\ IsInjective(victims[r])
  BY DEF PoolInv, PoolLists
<1>2. PICK s : s = victims[r]
  OBVIOUS
<1>3. s \in Seq(Nat) /\ IsInjective(s) /\ s # <<>>
  BY <1>1, <1>2
<1>4. /\ Tail(s) \in Seq(Nat) /\ IsInjective(Tail(s)) /\ Head(s) \in Range(s)
      /\ Range(Tail(s)) = Range(s) \ {Head(s)} /\ Head(s) \in Nat
  BY <1>3, TailOfInjective
<1>5. victims' = [victims EXCEPT ![r] = Tail(s)] /\ Victim(r) = Head(s)
  BY <1>2 DEF NextVictim, Victim
<1> QED BY <1>1, <1>2, <1>4, <1>5

LEMMA CloseKeepsPool ==
    ASSUME Inv, PoolInv, NEW r \in Threads, CloseVictim(r)
    PROVE  PoolInv'
<1>1. /\ get[r].pc = "evict" /\ victims[r] # <<>> /\ UNCHANGED <<cur, tab, job, lru>>
  BY DEF CloseVictim, Evicting
<1>2. CASE Busy(Victim(r))
  <2>1. Step(r, At(r, "requeue")) /\ UNCHANGED <<open, victims>>
    BY <1>2 DEF CloseVictim
  <2>2. At(r, "requeue").pc = "requeue" /\ At(r, "requeue").snap = get[r].snap
    BY NextPlaces
  <2> DEFINE g == At(r, "requeue")
  <2> HIDE DEF g
  <2>3. Step(r, g) /\ g.pc = "requeue" /\ g.snap = get[r].snap
    BY <2>1, <2>2 DEF g
  <2> QED BY <2>1, <2>3, <1>1, GetKeepsPool
<1>3. CASE ~Busy(Victim(r))
  <2> DEFINE v == Victim(r)
  <2>1. open' = open \ {v} /\ NextVictim(r) /\ get' = get
    BY <1>3 DEF CloseVictim
  <2>2. /\ victims' \in [Threads -> Seq(Nat)]
        /\ IsInjective(victims'[r]) /\ Range(victims'[r]) = Range(victims[r]) \ {v}
        /\ v \in Range(victims[r])
        /\ \A q \in Threads : q # r => victims'[q] = victims[q]
    BY <1>1, <2>1, VictimLeaves
  <2> HIDE DEF v
  <2>3. \A q \in Threads : Range(victims'[q]) \subseteq Range(victims[q])
    BY <2>2
  <2>4. PoolLists'
    BY <1>1, <2>2, <2>3 DEF PoolInv, PoolLists
  <2>5. PoolApart'
    BY <1>1, <2>3 DEF PoolInv, PoolApart
  <2>6. v \notin Range(lru) /\ \A q \in Threads : q # r => v \notin Range(victims[q])
    BY <2>2 DEF PoolInv, PoolApart
  <2>7. Tracked' = Tracked \ {v}
    <3>1. \A q \in Threads : Range(victims'[q]) = Range(victims[q]) \ {v}
      BY <2>2, <2>6
    <3>2. Tracked' = Range(lru) \cup UNION {Range(victims'[q]) : q \in Threads}
      BY <1>1 DEF Tracked
    <3> QED BY <3>1, <3>2, <2>6 DEF Tracked
  <2>8. Alive' = Alive
    BY <1>1, <2>1 DEF Alive, PinnedBy
  <2>9. PoolCovers'
    BY <2>1, <2>7, <2>8 DEF PoolInv, PoolCovers
  <2>10. JobFits'
    BY <1>1 DEF PoolInv, JobFits
  <2>11. PoolPlaces'
    BY <1>1, <2>1, <2>2 DEF PoolInv, PoolPlaces
  <2> QED BY <2>4, <2>5, <2>9, <2>10, <2>11 DEF PoolInv
<1> QED BY <1>2, <1>3

LEMMA RequeueKeepsPool ==
    ASSUME Inv, PoolInv, NEW r \in Threads, Requeue(r)
    PROVE  PoolInv'
<1> DEFINE v == Victim(r)
<1>1. /\ get[r].pc = "requeue" /\ victims[r] # <<>> /\ UNCHANGED <<cur, tab, job, open>>
      /\ lru' = Append(lru, v) /\ Step(r, At(r, "evict")) /\ NextVictim(r)
  BY DEF Requeue, PoolInv, PoolPlaces
<1>2. Alive' = Alive /\ get'[r].pc = "evict" /\ \A q \in Threads : q # r => get'[q] = get[q]
  BY <1>1, AtInPool
<1>3. /\ victims' \in [Threads -> Seq(Nat)]
      /\ IsInjective(victims'[r]) /\ Range(victims'[r]) = Range(victims[r]) \ {v}
      /\ v \in Range(victims[r]) /\ v \in Nat
      /\ \A q \in Threads : q # r => victims'[q] = victims[q]
  BY <1>1, VictimLeaves
<1> HIDE DEF v
<1>4. v \notin Range(lru) /\ \A q \in Threads : q # r => v \notin Range(victims[q])
  BY <1>3 DEF PoolInv, PoolApart
<1>5. lru' \in Seq(Nat) /\ IsInjective(lru') /\ Range(lru') = Range(lru) \cup {v}
  <2>1. lru \in Seq(Nat) /\ IsInjective(lru)
    BY DEF PoolInv, PoolLists
  <2>2. PICK s : s = lru
    OBVIOUS
  <2>3. /\ Append(s, v) \in Seq(Nat) /\ IsInjective(Append(s, v))
        /\ Range(Append(s, v)) = Range(s) \cup {v}
    BY <2>1, <2>2, <1>3, <1>4, AppendNew
  <2> QED BY <2>2, <2>3, <1>1
<1>6. \A q \in Threads : Range(victims'[q]) = Range(victims[q]) \ {v}
  BY <1>3, <1>4
<1>7. v \in DOMAIN tab
  BY <1>3 DEF PoolInv, PoolLists
<1>8. PoolLists'
  BY <1>1, <1>3, <1>5, <1>6, <1>7 DEF PoolInv, PoolLists
<1>9. PoolApart'
  <2>1. ASSUME NEW q \in Threads PROVE Range(lru') \cap Range(victims'[q]) = {}
    BY <1>5, <1>6 DEF PoolInv, PoolApart
  <2>2. ASSUME NEW q \in Threads, NEW u \in Threads, q # u
        PROVE  Range(victims'[q]) \cap Range(victims'[u]) = {}
    BY <2>2, <1>6 DEF PoolInv, PoolApart
  <2> QED BY <2>1, <2>2 DEF PoolApart
<1>10. Tracked' = Tracked
  <2>1. Tracked' = Range(lru) \cup {v} \cup UNION {Range(victims'[q]) : q \in Threads}
    BY <1>5 DEF Tracked
  <2> QED BY <2>1, <1>3, <1>6 DEF Tracked
<1>11. PoolCovers'
  BY <1>1, <1>2, <1>10 DEF PoolInv, PoolCovers
<1>12. JobFits'
  BY <1>1 DEF PoolInv, JobFits
<1>13. PoolPlaces'
  BY <1>1, <1>2, <1>3 DEF PoolInv, PoolPlaces
<1> QED BY <1>8, <1>9, <1>11, <1>12, <1>13 DEF PoolInv

LEMMA InitPool == Init => PoolInv
<1> SUFFICES ASSUME Init PROVE PoolInv
  OBVIOUS
<1>1. /\ lru = <<>> /\ open = {} /\ job.todo = <<>> /\ job.deferred = {}
      /\ victims = [r \in Threads |-> <<>>] /\ get = [r \in Threads |-> NoGet]
  BY DEF Init
<1>2. Range(<<>>) = {} /\ IsInjective(<<>>) /\ <<>> \in Seq(Nat)
  BY DEF Range, IsInjective
<1>3. JobFits /\ PoolLists /\ PoolApart
  BY <1>1, <1>2 DEF JobFits, PoolLists, PoolApart
<1>4. Tracked = {}
  BY <1>1, <1>2 DEF Tracked
<1>5. PoolCovers
  BY <1>1, <1>4 DEF PoolCovers
<1>6. PoolPlaces
  BY <1>1 DEF PoolPlaces, NoGet
<1> QED BY <1>3, <1>5, <1>6 DEF PoolInv

LEMMA NextKeepsPool == Inv /\ PoolInv /\ [Next]_vars => PoolInv'
<1> SUFFICES ASSUME Inv, PoolInv, [Next]_vars PROVE PoolInv'
  OBVIOUS
<1>1. ASSUME UNCHANGED <<tab, job, get, lru, victims, open>>, cur'.tabs = cur.tabs PROVE PoolInv'
  <2>1. Alive' = Alive
    BY <1>1 DEF Alive, PinnedBy
  <2>2. JobFits' /\ PoolPlaces'
    BY <1>1 DEF PoolInv, JobFits, PoolPlaces
  <2> QED BY <1>1, <2>1, <2>2, PoolStays
<1>2. CASE Write
  BY <1>1, <1>2 DEF Write
<1>3. CASE Rotate
  <2>1. UNCHANGED <<tab, job, get, lru, victims, open>>
    BY <1>3 DEF Rotate
  <2>2. cur'.tabs = cur.tabs
    BY <1>3 DEF Rotate, Inv, Typed, Version
  <2> QED BY <2>1, <2>2, <1>1
<1>4. CASE FlushPublish
  BY <1>4, FlushKeepsPool
<1>5. CASE Compact
  BY <1>5, CompactKeepsPool DEF Compact
<1>6. CASE DeleteInput \/ FinishCompaction
  BY <1>6, JobKeepsPool
<1>7. CASE \E r \in Threads : Begin(r) \/ GetStep(r)
  <2>1. PICK r \in Threads : Begin(r) \/ GetStep(r)
    BY <1>7
  <2>2. CASE Begin(r) \/ LookInMemtables(r) \/ SkipTable(r) \/ LockTable(r) \/ ReadTable(r)
    BY <2>2, ReadingKeepsPool
  <2>3. CASE OpenTable(r)
    BY <2>3, TouchKeepsPool, OpenKeepsPool
  <2>4. CASE CloseVictim(r)
    BY <2>4, CloseKeepsPool
  <2>5. CASE Requeue(r)
    BY <2>5, RequeueKeepsPool
  <2>6. CASE UseDestroyed(r)
    BY <2>6, <1>1 DEF UseDestroyed
  <2>7. CASE Return(r)
    BY <2>7, ReturnKeepsPool
  <2> QED BY <2>1, <2>2, <2>3, <2>4, <2>5, <2>6, <2>7 DEF GetStep
<1>8. CASE UNCHANGED vars
  BY <1>1, <1>8 DEF vars
<1> QED BY <1>2, <1>3, <1>4, <1>5, <1>6, <1>7, <1>8 DEF Next

LEMMA PoolInvIsInvariant == Spec => []PoolInv
<1> QED BY InitPool, NextKeepsPool, InvIsInvariant, PTL DEF Spec

(* FdPool::on_open, touch, on_close and try_close_file keep every open     *)
(* file on the list or among the victims of one thread: none is forgotten  *)
(* by the pool and left open, and none counts twice, under any threads,    *)
(* evictions, busy victims and handles destroyed meanwhile.                *)
THEOREM OpenFilesAreTrackedHolds == Spec => []OpenFilesAreTracked
<1>1. PoolInv => OpenFilesAreTracked
  <2> SUFFICES ASSUME PoolInv, NEW t \in open PROVE Listed(t) + Chosen(t) = 1
    BY DEF OpenFilesAreTracked
  <2> DEFINE L == {i \in DOMAIN lru : lru[i] = t}
             C == {r \in Threads : t \in Range(victims[r])}
  <2>1. Cardinality({}) = 0 /\ \A x : Cardinality({x}) = 1
    BY FS_EmptySet, FS_Singleton
  <2>2. t \in Range(lru) \/ \E r \in Threads : t \in Range(victims[r])
    BY DEF PoolInv, PoolCovers, Tracked
  <2>3. CASE t \in Range(lru)
    <3>1. PICK i \in DOMAIN lru : lru[i] = t
      BY <2>3 DEF Range
    <3>2. L = {i}
      BY <3>1 DEF PoolInv, PoolLists, IsInjective
    <3>3. C = {}
      BY <2>3 DEF PoolInv, PoolApart
    <3>4. Cardinality(L) = 1 /\ Cardinality(C) = 0
      BY <2>1, <3>2, <3>3
    <3> QED BY <3>4 DEF Listed, Chosen
  <2>4. CASE t \notin Range(lru)
    <3>1. PICK r \in Threads : t \in Range(victims[r])
      BY <2>2, <2>4
    <3>2. C = {r}
      BY <3>1 DEF PoolInv, PoolApart
    <3>3. L = {}
      BY <2>4 DEF Range
    <3>4. Cardinality(L) = 0 /\ Cardinality(C) = 1
      BY <2>1, <3>2, <3>3
    <3> QED BY <3>4 DEF Listed, Chosen
  <2> QED BY <2>3, <2>4
<1> QED BY <1>1, PoolInvIsInvariant, PTL
=============================================================================
