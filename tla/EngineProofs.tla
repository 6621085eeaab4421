---------------------------- MODULE EngineProofs ----------------------------
(***************************************************************************)
(* Proofs about module Engine: for any number of keys, any queue length,   *)
(* any sizes, any number of crashes, closes and failed saves.  In order:   *)
(* types; the tables on disk; the order of memtables; and the store, as    *)
(* long as compactions keep to the condition that StoreInvariant states: a *)
(* get sees what a restart would recover, nothing but a write changes it,  *)
(* and the engine implements the key-value store.                          *)
(***************************************************************************)
EXTENDS StoreInvariant, CommonLemmas, SequenceTheorems, FiniteSetTheorems, TLAPS

-----------------------------------------------------------------------------
(* About the data.                                                         *)

(* What it means to be a sequence of something.                            *)
LEMMA SequenceOfItsRange ==
    ASSUME NEW s, s \in Seq(Range(s))
    PROVE  /\ Len(s) \in Nat /\ DOMAIN s = 1 .. Len(s)
           /\ \A i \in 1 .. Len(s) : s[i] \in Range(s)
           /\ \A x \in Range(s) : \E i \in 1 .. Len(s) : x = s[i]
<1>. QED
  BY LenProperties DEF Range

(* The empty sequence has nothing in its range.                            *)
LEMMA EmptyRange == <<>> \in Seq(Range(<<>>)) /\ Range(<<>>) = {}
<1>1. Range(<<>>) = {}
  BY DEF Range
<1>. QED
  BY <1>1, EmptySeq

(* Putting an element in front adds it to the range.                       *)
LEMMA Prepended ==
    ASSUME NEW s, s \in Seq(Range(s)), NEW x
    PROVE  /\ <<x>> \o s \in Seq(Range(<<x>> \o s))
           /\ Range(<<x>> \o s) = {x} \cup Range(s)
           /\ Len(<<x>> \o s) = Len(s) + 1
           /\ \A i \in 1 .. Len(s) + 1 :
                 (<<x>> \o s)[i] = IF i = 1 THEN x ELSE s[i - 1]
<1>. DEFINE S == {x} \cup Range(s)
<1>1. s \in Seq(S) /\ <<x>> \in Seq(S) /\ Len(<<x>>) = 1 /\ <<x>>[1] = x
  BY SeqMonotonic
<1>2. /\ <<x>> \o s \in Seq(S) /\ Len(<<x>> \o s) = 1 + Len(s)
      /\ \A i \in 1 .. 1 + Len(s) :
            (<<x>> \o s)[i] = IF i <= 1 THEN <<x>>[i] ELSE s[i - 1]
  BY <1>1, ConcatProperties
<1>3. Range(<<x>>) = {x}
  BY DEF Range
<1>4. Range(<<x>> \o s) = Range(<<x>>) \cup Range(s)
  <2>1. Range(<<x>> \o s) \subseteq Range(<<x>>) \cup Range(s)
    BY <1>1, <1>2, LenProperties DEF Range
  <2>2. Len(s) \in Nat /\ DOMAIN (<<x>> \o s) = 1 .. 1 + Len(s)
    BY <1>2, LenProperties
  <2>3. x \in Range(<<x>> \o s)
    BY <1>1, <1>2, <2>2 DEF Range
  <2>4. ASSUME NEW y \in Range(s)
        PROVE  y \in Range(<<x>> \o s)
    <3>1. PICK i \in 1 .. Len(s) : y = s[i]
      BY SequenceOfItsRange
    <3>2. i + 1 \in 1 .. 1 + Len(s) /\ (<<x>> \o s)[i + 1] = s[i]
      BY <1>2, <2>2
    <3>. QED
      BY <2>2, <3>1, <3>2 DEF Range
  <2>. QED
    BY <2>1, <2>3, <2>4, <1>3
<1>5. <<x>> \o s \in Seq(Range(<<x>> \o s))
  BY <1>2, SeqOfRange
<1>6. Len(s) \in Nat
  BY LenProperties
<1>. QED
  BY <1>1, <1>2, <1>3, <1>4, <1>5, <1>6

(* Dropping the last element leaves the others where they were.            *)
LEMMA LastDropped ==
    ASSUME NEW s, s \in Seq(Range(s))
    PROVE  /\ Front(s) \in Seq(Range(Front(s)))
           /\ Range(Front(s)) \subseteq Range(s)
           /\ Len(Front(s)) <= Len(s) /\ Len(Front(s)) \in Nat
           /\ \A i \in 1 .. Len(Front(s)) : Front(s)[i] = s[i]
<1>1. Len(s) \in Nat /\ \A i \in 1 .. Len(s) - 1 : s[i] \in Range(s)
  BY SequenceOfItsRange
<1>2. /\ Front(s) \in Seq(Range(s))
      /\ Len(Front(s)) = IF 1 <= Len(s) - 1 THEN Len(s) - 1 - 1 + 1 ELSE 0
      /\ \A i \in 1 .. Len(s) - 1 - 1 + 1 : Front(s)[i] = s[1 + i - 1]
  BY <1>1, SubSeqProperties DEF Front
<1>3. Front(s) \in Seq(Range(Front(s))) /\ Range(Front(s)) \subseteq Range(s)
  BY <1>2, SeqOfRange, RangeOfSeq
<1>. QED
  BY <1>1, <1>2, <1>3

(* A sequence has finitely many elements.                                  *)
LEMMA FiniteRange ==
    ASSUME NEW s, s \in Seq(Range(s))
    PROVE  IsFiniteSet(Range(s))
<1>1. Len(s) \in Nat /\ s \in [1 .. Len(s) -> Range(s)]
  BY LenProperties
<1>2. s \in Surjection(1 .. Len(s), Range(s))
  BY <1>1, SequenceOfItsRange DEF Surjection
<1>3. IsFiniteSet(1 .. Len(s))
  BY <1>1, FS_Interval
<1>. QED
  BY <1>2, <1>3, FS_Surjection

(* Sorting keeps exactly the tables it was given.                          *)
LEMMA SortedTables ==
    ASSUME NEW S, IsFiniteSet(S), NEW order \in SortedByMaxSeqno(S)
    PROVE  order \in Seq(Range(order)) /\ Range(order) = S
<1>1. Cardinality(S) \in Nat
  BY FS_CardinalityType
<1>2. order \in [1 .. Cardinality(S) -> S]
  BY DEF SortedByMaxSeqno
<1>3. order \in Seq(S)
  BY <1>1, <1>2
<1>4. \A t \in S : \E i \in DOMAIN order : order[i] = t
  BY DEF SortedByMaxSeqno
<1>5. Range(order) = S
  BY <1>2, <1>4 DEF Range
<1>. QED
  BY <1>3, <1>5

-----------------------------------------------------------------------------
(* About memtables and tables.                                             *)

(* Applying a record to a memtable gives a memtable.                       *)
LEMMA ApplyTyped ==
    ASSUME NEW m, IsMemtable(m), NEW r, IsRecord(r)
    PROVE  IsMemtable(Apply(m, r))
<1>1. r.op.key \in Keys /\ [val |-> r.op.val, seq |-> r.seq] \in Entry
  BY DEF IsRecord, Mutation, Entry
<1>2. \A k \in DOMAIN m : m[k] \in Entry
  BY DEF IsMemtable
<1>. QED
  BY <1>1, <1>2 DEF IsMemtable, Apply

(* The seqNos of a memtable are naturals.                                  *)
LEMMA SeqnosTyped ==
    ASSUME NEW m, IsMemtable(m)
    PROVE  Seqnos(m) \subseteq Nat
<1>. QED
  BY DEF Seqnos, IsMemtable, Entry

(* write_sstable makes at most one table, and its metadata is right.       *)
LEMMA TablesOfTyped ==
    ASSUME NEW id \in Nat, NEW m, IsMemtable(m)
    PROVE  /\ \A t \in TablesOf(id, m) : IsTable(t) /\ t.id = id /\ t.data = m
           /\ IsFiniteSet(TablesOf(id, m))
<1>1. Seqnos(m) \subseteq Nat
  BY SeqnosTyped
<1>2. \A t \in TablesOf(id, m) : IsTable(t) /\ t.id = id /\ t.data = m
  <2>. TAKE t \in TablesOf(id, m)
  <2>1. /\ t.id = id /\ t.data = m /\ t.lo \in Seqnos(m) /\ t.hi \in Seqnos(m)
        /\ t.lo <= t.hi
    BY <1>1 DEF TablesOf
  <2>2. DOMAIN m # {}
    BY <2>1 DEF Seqnos
  <2>. QED
    BY <1>1, <2>1, <2>2 DEF IsTable
<1>3. \A t, u \in TablesOf(id, m) : t = u
  BY <1>1 DEF TablesOf
<1>4. CASE TablesOf(id, m) = {}
  BY <1>2, <1>4, FS_EmptySet
<1>5. CASE TablesOf(id, m) # {}
  <2>1. \E t : TablesOf(id, m) = {t}
    BY <1>3, <1>5
  <2>. QED
    BY <1>2, <2>1, FS_Singleton
<1>. QED
  BY <1>4, <1>5

(* A window of the manifest is a sequence of its tables.                   *)
LEMMA WindowTyped ==
    ASSUME AreTables(man), NEW j \in DOMAIN man, NEW i \in 1 .. j
    PROVE  AreTables(Window(i, j)) /\ Range(Window(i, j)) \subseteq Range(man)
<1>1. j \in 1 .. Len(man) /\ Len(man) \in Nat /\ \A h \in 1 .. Len(man) : man[h] \in Range(man)
  BY SequenceOfItsRange DEF AreTables
<1>2. Window(i, j) \in Seq(Range(man))
  BY <1>1, SubSeqProperties DEF Window
<1>. QED
  BY <1>2, SeqOfRange, RangeOfSeq DEF AreTables

(* What a compaction keeps is a memtable's worth of entries.               *)
LEMMA KeptTyped ==
    ASSUME NEW w, AreTables(w), NEW aged
    PROVE  IsMemtable(Kept(w, aged))
<1>1. /\ DOMAIN w = 1 .. Len(w) /\ Len(w) \in Nat
      /\ \A i \in DOMAIN w : IsMemtable(w[i].data)
  BY SequenceOfItsRange DEF AreTables, IsTable
<1>2. ASSUME NEW k \in UNION {DOMAIN w[i].data : i \in DOMAIN w}
      PROVE  k \in Keys /\ w[FirstHolder(Data(w), k)].data[k] \in Entry
  <2>. DEFINE holders == {i \in DOMAIN Data(w) : k \in DOMAIN Data(w)[i]}
  <2>1. holders = {i \in DOMAIN w : k \in DOMAIN w[i].data}
    BY DEF Data
  <2>2. holders \in SUBSET Nat /\ holders # {}
    BY <1>1, <1>2, <2>1
  <2>3. FirstHolder(Data(w), k) \in holders
    BY <2>2, LeastOfNaturals DEF FirstHolder
  <2>. QED
    BY <1>1, <2>1, <2>3 DEF IsMemtable
<1>. QED
  BY <1>2 DEF IsMemtable, Kept, Merged

-----------------------------------------------------------------------------
(* The type invariant.  It is inductive together with when the replay list *)
(* and the job may be in use.                                              *)

Quiet == /\ phase # "replay" => todo = {}
         /\ job.pc # "idle" => phase \in Live
         /\ IsFiniteSet(job.out)

TypeInv == TypeOK /\ Quiet

(* Nothing in memory is of the right type.                                 *)
LEMMA ForgottenTyped ==
    ASSUME ForgetMemory
    PROVE  /\ AreTables(man') /\ AreTables(readers') /\ nextId' \in Nat
           /\ phase' = "down" /\ todo' = {} /\ IsMemtable(active') /\ AreMemtables(imms')
           /\ writer'.pc = "idle" /\ job'.pc = "idle" /\ job'.out = {} /\ job'.ins = {}
           /\ IsFiniteSet(job'.out) /\ cancel' \in BOOLEAN
<1>1. AreTables(<<>>) /\ AreMemtables(<<>>)
  BY EmptyRange DEF AreTables, AreMemtables
<1>2. IsMemtable(EmptyMemtable)
  BY DEF IsMemtable, EmptyMemtable
<1>. QED
  BY <1>1, <1>2, FS_EmptySet DEF ForgetMemory, NoJob, Idle

(* Greatest picks an element.                                              *)
LEMMA WatermarkTyped ==
    ASSUME NEW tables, AreTables(tables), NEW w \in Watermark(tables)
    PROVE  w \in Nat
<1>. QED
  BY DEF Watermark, Greatest, AreTables, IsTable

(* Putting a table or a memtable in front of a list.                       *)
LEMMA PrependTyped ==
    /\ \A s, t : AreTables(s) /\ IsTable(t) => AreTables(<<t>> \o s)
    /\ \A s, m : AreMemtables(s) /\ IsMemtable(m) => AreMemtables(<<m>> \o s)
<1>1. ASSUME NEW s, NEW t, AreTables(s), IsTable(t)
      PROVE  AreTables(<<t>> \o s)
  BY <1>1, Prepended DEF AreTables
<1>2. ASSUME NEW s, NEW m, AreMemtables(s), IsMemtable(m)
      PROVE  AreMemtables(<<m>> \o s)
  BY <1>2, Prepended DEF AreMemtables
<1>. QED
  BY <1>1, <1>2

(* open() keeps the types.                                                 *)
LEMMA OpenTyped == TypeInv /\ Open => TypeInv'
<1>. SUFFICES ASSUME TypeInv, Open PROVE TypeInv'
  OBVIOUS
<1>1. CASE LoadManifest
  <2>1. AreTables(man') /\ AreTables(readers')
    <3>1. IsFiniteSet(Range(dman)) /\ \A t \in Range(dman) : IsTable(t)
      BY FiniteRange DEF TypeInv, TypeOK, AreTables
    <3>. QED
      BY <1>1, <3>1, SortedTables DEF LoadManifest, AreTables
  <2>2. nextId' \in Nat
    BY <1>1 DEF LoadManifest, Greatest, Ids, TypeInv, TypeOK, AreTables, IsTable
  <2>. QED
    BY <1>1, <2>1, <2>2 DEF LoadManifest, TypeInv, TypeOK, Quiet, Phases, Live,
       walVars, memVars, boundVars, NoJob, Idle
<1>2. CASE ReplayOne
  <2>1. PICK r \in todo : ReplayOne!2!(r)
    BY <1>2 DEF ReplayOne
  <2>. DEFINE m == Apply(active, r)
  <2>2. IsMemtable(m)
    BY <2>1, ApplyTyped DEF TypeInv, TypeOK
  <2>3. IsMemtable(active') /\ AreMemtables(imms')
    <3>1. IsMemtable(EmptyMemtable)
      BY DEF IsMemtable, EmptyMemtable
    <3>2. AreMemtables(<<m>> \o imms)
      BY <2>2, PrependTyped DEF TypeInv, TypeOK
    <3>. QED
      BY <2>1, <2>2, <3>1, <3>2 DEF TypeInv, TypeOK
  <2>. QED
    BY <1>2, <2>1, <2>3 DEF ReplayOne, TypeInv, TypeOK, Quiet,
       walVars, diskVars, tableVars, boundVars
<1>3. CASE FinishOpen
  <2>1. PICK w \in Watermark(man) : Log!Open(w)
    BY <1>3 DEF FinishOpen
  <2>2. w \in Nat
    BY WatermarkTyped DEF TypeInv, TypeOK
  <2>3. /\ lastSeqno' \in Nat /\ activeSeg' \in Nat /\ segs' \subseteq Nat
        /\ isOpen' \in BOOLEAN /\ recs' = recs
    BY <2>1, <2>2 DEF Log!Open, TypeInv, TypeOK, IsRecord
  <2>. QED
    BY <1>3, <2>3 DEF FinishOpen, TypeInv, TypeOK, Quiet, Phases, Live,
       diskVars, tableVars, memVars, boundVars
<1>. QED
  BY <1>1, <1>2, <1>3 DEF Open

(* What an append does to the log.                                         *)
LEMMA AppendEffect ==
    ASSUME NEW o, LogWrite(o)
    PROVE  /\ recs' = recs \cup {Log!NextRecord(o)}
           /\ activeSeg' = Log!AppendSeg
           /\ segs' = segs \cup {Log!AppendSeg}
           /\ lastSeqno' = lastSeqno + 1
<1>. QED
  BY DEF LogWrite, Log!Append

(* What a rotation does to the log.                                        *)
LEMMA RollEffect ==
    ASSUME Rotate
    PROVE  /\ activeSeg' = activeSeg + 1
           /\ segs' = segs \cup {activeSeg + 1}
           /\ UNCHANGED <<recs, lastSeqno, isOpen>>
<1>. QED
  BY DEF Rotate, Log!Roll

(* A notification leaves the writer of its type.                           *)
LEMMA NotifiedTyped ==
    ASSUME TypeOK, writer' \in {writer, WriterNotified}
    PROVE  /\ writer'.pc \in {"idle", "stalled", "waiting", "woken", "admitted",
                             "logged", "applied"}
           /\ writer'.pc \in {"logged", "applied"} => IsRecord(writer'.rec)
<1>. QED
  BY DEF TypeOK, WriterNotified, Idle

(* The writer's steps keep the types.                                      *)
LEMMA WriteTyped == TypeInv /\ Write => TypeInv'
<1>. SUFFICES ASSUME TypeInv, Write PROVE TypeInv'
  OBVIOUS
<1>. USE DEF TypeInv, TypeOK, Quiet
<1>1. CASE BeginWrite \/ BlockWriter \/ WakeWriter \/ RefuseWrite \/ ReturnFromWrite
  <2>1. /\ writer'.pc \in {"idle", "stalled", "waiting", "admitted"}
        /\ UNCHANGED <<recs, segs, activeSeg, lastSeqno, isOpen, dman, dnextId, files,
                       man, nextId, readers, active, imms, phase, todo, job, cancel,
                       crashes, closes, failures>>
    BY <1>1 DEF BeginWrite, BlockWriter, WakeWriter, RefuseWrite, ReturnFromWrite, Idle,
       walVars, diskVars, tableVars, memVars, boundVars
  <2>. QED
    BY <2>1
<1>2. ASSUME NEW o \in Mutation, LogWrite(o)
      PROVE  TypeInv'
  <2>1. Log!AppendSeg \in Nat /\ IsRecord(Log!NextRecord(o))
    BY DEF Log!NextRecord, Log!AppendSeg, IsRecord
  <2>2. /\ recs' = recs \cup {Log!NextRecord(o)}
        /\ activeSeg' \in Nat /\ segs' \subseteq Nat /\ lastSeqno' \in Nat
    <3>1. segs \subseteq Nat /\ lastSeqno \in Nat
      OBVIOUS
    <3>. HIDE DEF TypeInv, TypeOK, Quiet
    <3>2. /\ recs' = recs \cup {Log!NextRecord(o)} /\ activeSeg' = Log!AppendSeg
          /\ segs' = segs \cup {Log!AppendSeg} /\ lastSeqno' = lastSeqno + 1
      BY <1>2, AppendEffect
    <3>. QED
      BY <2>1, <3>1, <3>2
  <2>3. isOpen' \in BOOLEAN
    BY <1>2 DEF LogWrite, Log!Append
  <2>4. writer'.pc = "logged" /\ writer'.rec = Log!NextRecord(o)
    BY <1>2 DEF LogWrite
  <2>. QED
    BY <1>2, <2>1, <2>2, <2>3, <2>4 DEF LogWrite, diskVars, tableVars, memVars, boundVars
<1>3. CASE ApplyWrite
  <2>1. IsMemtable(active')
    BY <1>3, ApplyTyped DEF ApplyWrite
  <2>. QED
    BY <1>3, <2>1 DEF ApplyWrite, walVars, diskVars, tableVars, boundVars
<1>4. CASE Rotate
  <2>1. IsMemtable(active') /\ AreMemtables(imms')
    BY <1>4, PrependTyped DEF Rotate, IsMemtable, EmptyMemtable
  <2>2. segs' \subseteq Nat /\ activeSeg' \in Nat /\ UNCHANGED <<recs, lastSeqno, isOpen>>
    <3>1. segs \subseteq Nat /\ activeSeg \in Nat
      OBVIOUS
    <3>2. segs' = segs \cup {activeSeg + 1} /\ activeSeg' = activeSeg + 1
      BY <1>4, RollEffect
    <3>3. UNCHANGED <<recs, lastSeqno, isOpen>>
      BY <1>4, RollEffect
    <3>4. activeSeg + 1 \in Nat
      BY <3>1
    <3>. HIDE DEF TypeInv, TypeOK, Quiet
    <3>. QED
      BY <3>1, <3>2, <3>3, <3>4
  <2>. QED
    BY <1>4, <2>1, <2>2 DEF Rotate, Idle, diskVars, tableVars, boundVars
<1>. QED
  BY <1>1, <1>2, <1>3, <1>4 DEF Write

(* The flush job keeps the types, whatever fails in it.                    *)
LEMMA FlushTyped == TypeInv /\ Flush => TypeInv'
<1>. SUFFICES ASSUME TypeInv, Flush PROVE TypeInv'
  OBVIOUS
<1>. USE DEF TypeInv, TypeOK, Quiet
<1>1. CASE FlushWrite
  <2>1. IsMemtable(Last(imms))
    <3>1. Len(imms) # 0 /\ Len(imms) \in Nat
      BY <1>1, EmptySeq DEF FlushWrite, AreMemtables
    <3>. QED
      BY <3>1, SequenceOfItsRange DEF Last, AreMemtables
  <2>2. (\A t \in job'.out : IsTable(t)) /\ IsFiniteSet(job'.out)
    BY <1>1, <2>1, TablesOfTyped DEF FlushWrite, OutputId
  <2>. QED
    BY <1>1, <2>2 DEF FlushWrite, OutputId, WorkersUp, walVars, tableVars, memVars, boundVars
<1>2. ASSUME NEW t \in job.out, job.pc = "flush", man' = <<t>> \o man,
             nextId' = Max({nextId, t.id + 1})
      PROVE  AreTables(man') /\ nextId' \in Nat
  <2>1. nextId \in Nat /\ t.id + 1 \in Nat
    BY DEF IsTable
  <2>. QED
    BY <1>2, <2>1, PrependTyped, GreaterOfTwo
<1>3. CASE FlushPublish
  <2>1. AreTables(man') /\ nextId' \in Nat
    BY <1>2, <1>3 DEF FlushPublish
  <2>2. AreTables(readers')
    BY <1>3, PrependTyped DEF FlushPublish
  <2>3. AreMemtables(imms')
    BY <1>3, LastDropped DEF FlushPublish, AreMemtables
  <2>4. /\ job'.pc = "clean" /\ job'.out = {} /\ job'.ins = {}
        /\ dman' = man' /\ dnextId' = nextId' /\ phase \in Live
        /\ UNCHANGED <<recs, segs, activeSeg, lastSeqno, isOpen, files, active, phase,
                       todo, cancel, crashes, closes, failures>>
    BY <1>3 DEF FlushPublish, NoJob, walVars, boundVars
  <2>5. writer' \in {writer, WriterNotified}
    BY <1>3 DEF FlushPublish
  <2>. QED
    BY <2>1, <2>2, <2>3, <2>4, <2>5, NotifiedTyped, FS_EmptySet
<1>4. CASE FlushSaveFails
  <2>1. AreTables(man') /\ nextId' \in Nat
    BY <1>2, <1>4 DEF FlushSaveFails
  <2>2. /\ job'.pc = "idle" /\ job'.out = {} /\ job'.ins = {}
        /\ phase' \in {phase, "stopping"} /\ phase \in Live /\ failures' \in Nat
        /\ UNCHANGED <<recs, segs, activeSeg, lastSeqno, isOpen, dman, dnextId, files,
                       readers, active, imms, todo, cancel, crashes, closes>>
    BY <1>4 DEF FlushSaveFails, DrainAbandoned, NoJob, GiveUp, walVars, diskVars
  <2>3. writer' \in {writer, WriterNotified}
    BY <1>4 DEF FlushSaveFails, DrainAbandoned
  <2>. QED
    BY <2>1, <2>2, <2>3, NotifiedTyped, FS_EmptySet DEF Phases, Live
<1>5. CASE FlushWriteFails
  <2>1. /\ phase' \in {phase, "stopping"} /\ phase \in Live /\ failures' \in Nat
        /\ job.pc = "idle"
        /\ UNCHANGED <<recs, segs, activeSeg, lastSeqno, isOpen, dman, dnextId, files,
                       man, nextId, readers, active, imms, todo, job, cancel,
                       crashes, closes>>
    BY <1>5 DEF FlushWriteFails, DrainAbandoned, WorkersUp,
       walVars, diskVars, tableVars, memVars
  <2>2. writer' \in {writer, WriterNotified}
    BY <1>5 DEF FlushWriteFails, DrainAbandoned
  <2>. QED
    BY <2>1, <2>2, NotifiedTyped DEF Phases, Live
<1>6. CASE FlushClean
  <2>1. recs' \subseteq recs /\ segs' \subseteq segs /\ UNCHANGED <<activeSeg, lastSeqno, isOpen>>
    BY <1>6 DEF FlushClean, Log!RemoveSegments
  <2>2. todo' = {}
    BY <1>6 DEF FlushClean, Live
  <2>. QED
    BY <1>6, <2>1, <2>2, FS_EmptySet DEF FlushClean, NoJob, diskVars, tableVars, memVars, boundVars
<1>. QED
  BY <1>1, <1>3, <1>4, <1>5, <1>6 DEF Flush

(* So does a compaction.                                                   *)
LEMMA CompactionTyped == TypeInv /\ Compaction => TypeInv'
<1>. SUFFICES ASSUME TypeInv, Compaction PROVE TypeInv'
  OBVIOUS
<1>. USE DEF TypeInv, TypeOK, Quiet
<1>1. ASSUME NEW j \in DOMAIN man, NEW i \in 1 .. j, NEW aged, CompactWrite(i, j, aged)
      PROVE  TypeInv'
  <2>. DEFINE w == Window(i, j)
              out == TablesOf(nextId, Kept(w, aged))
  <2>1. AreTables(w)
    BY WindowTyped
  <2>2. (\A t \in out : IsTable(t)) /\ IsFiniteSet(out)
    BY <2>1, KeptTyped, TablesOfTyped
  <2>3. Ids(w) \subseteq Nat /\ {t.id : t \in out} \subseteq Nat
    BY <2>1, <2>2 DEF Ids, AreTables, IsTable
  <2>4. job'.pc = "compact" /\ job'.out = out /\ job'.ins = Ids(w)
        /\ files' = files \cup {t.id : t \in out}
    BY <1>1 DEF CompactWrite, OutputId
  <2>5. phase \in Live
    BY <1>1 DEF CompactWrite, WorkersUp
  <2>. HIDE DEF w, out
  <2>. QED
    BY <1>1, <2>2, <2>3, <2>4, <2>5 DEF CompactWrite, walVars, tableVars, memVars, boundVars
<1>2. CASE CompactCancel \/ CompactDelete
  <2>1. /\ files' \subseteq files
        /\ job'.pc = "idle" /\ job'.out = {} /\ job'.ins = {}
        /\ UNCHANGED <<recs, segs, activeSeg, lastSeqno, isOpen, dman, dnextId,
                       man, nextId, readers, active, imms, phase, todo, writer, cancel,
                       crashes, closes, failures>>
    BY <1>2 DEF CompactCancel, CompactDelete, NoJob, walVars, tableVars, memVars, boundVars
  <2>. QED
    BY <2>1, FS_EmptySet
<1>3. ASSUME EditForCompaction
      PROVE  AreTables(man') /\ nextId' \in Nat
  <2>. DEFINE S == {t \in Range(man) : t.id \notin job.ins} \cup job.out
  <2>1. IsFiniteSet(S)
    BY FiniteRange, FS_Subset, FS_Union DEF AreTables
  <2>2. \A t \in S : IsTable(t)
    BY DEF AreTables
  <2>3. AreTables(man')
    BY <1>3, <2>1, <2>2, SortedTables DEF EditForCompaction, AreTables
  <2>. QED
    BY <1>3, <2>3 DEF EditForCompaction, Greatest, IsTable
<1>4. CASE CompactPublish
  <2>1. job'.ins \subseteq Nat /\ job'.pc = "delete" /\ job'.out = {}
    BY <1>4 DEF CompactPublish
  <2>. QED
    BY <1>3, <1>4, <2>1, FS_EmptySet DEF CompactPublish, Rebuilt, walVars, memVars, boundVars
<1>5. CASE CompactSaveFails
  BY <1>3, <1>5, FS_EmptySet DEF CompactSaveFails, NoJob, walVars, diskVars, memVars
<1>. QED
  BY <1>1, <1>2, <1>4, <1>5 DEF Compaction, Compact

(* So do close, exit and every crash.                                      *)
LEMMA StopTyped == TypeInv /\ Stop => TypeInv'
<1>. SUFFICES ASSUME TypeInv, Stop PROVE TypeInv'
  OBVIOUS
<1>. USE DEF TypeInv, TypeOK, Quiet
<1>1. CASE CloseGracefully \/ CloseFast \/ Drained
  <2>1. /\ phase' \in {"draining", "stopping"} /\ phase \in Live
        /\ closes' \in Nat
        /\ UNCHANGED <<recs, segs, activeSeg, lastSeqno, isOpen, dman, dnextId, files,
                       man, nextId, readers, active, imms, todo, job,
                       crashes, failures>>
    BY <1>1 DEF CloseGracefully, CloseFast, Drained, Live,
       walVars, diskVars, tableVars, memVars, boundVars
  <2>2. cancel' \in BOOLEAN
    BY <1>1 DEF CloseGracefully, CloseFast, Drained
  <2>3. writer' \in {writer, WriterNotified}
    BY <1>1 DEF CloseGracefully, CloseFast, Drained
  <2>. QED
    BY <2>1, <2>2, <2>3, NotifiedTyped DEF Phases, Live
<1>2. CASE CloseLog
  BY <1>2 DEF CloseLog, Log!Close, Phases, Live, diskVars, tableVars, memVars, boundVars
<1>3. CASE Exit \/ Crash \/ CrashInRotate \/ CrashInCleanup
  <2>1. ForgetMemory
    BY <1>3 DEF Exit, Crash, CrashInRotate, CrashInCleanup
  <2>2. /\ recs' \subseteq recs /\ segs' \subseteq Nat
        /\ {crashes', closes', failures'} \subseteq Nat
        /\ UNCHANGED <<activeSeg, lastSeqno, dman, dnextId, files>>
    <3>1. CASE Exit \/ Crash \/ CrashInCleanup
      <4>1. /\ recs' \subseteq recs /\ segs' \subseteq segs
            /\ {crashes', closes', failures'} \subseteq Nat
            /\ UNCHANGED <<activeSeg, lastSeqno, dman, dnextId, files>>
        BY <3>1 DEF Exit, Crash, Log!Crash, CrashInCleanup, walVars, diskVars, boundVars
      <4>. QED
        BY <4>1
    <3>2. CASE CrashInRotate
      <4>1. recs' = recs /\ segs' = segs \cup {activeSeg + 1} /\ UNCHANGED <<activeSeg, lastSeqno>>
        BY <3>2 DEF CrashInRotate, Log!CrashInRoll
      <4>2. crashes' \in Nat /\ UNCHANGED <<dman, dnextId, files, closes, failures>>
        BY <3>2 DEF CrashInRotate, diskVars
      <4>. QED
        BY <4>1, <4>2
    <3>. QED
      BY <1>3, <3>1, <3>2
  <2>3. isOpen' \in BOOLEAN
    BY <1>3 DEF Exit, Crash, Log!Crash, CrashInRotate, Log!CrashInRoll, CrashInCleanup, walVars
  <2>. QED
    BY <2>1, <2>2, <2>3, ForgottenTyped DEF Phases
<1>. QED
  BY <1>1, <1>2, <1>3 DEF Stop

(* The initial state is well typed.                                        *)
LEMMA InitTyped == Init => TypeInv
<1>1. AreTables(<<>>) /\ AreMemtables(<<>>)
  BY EmptyRange DEF AreTables, AreMemtables
<1>2. IsMemtable(EmptyMemtable)
  BY DEF IsMemtable, EmptyMemtable
<1>. SUFFICES ASSUME Init PROVE TypeInv
  OBVIOUS
<1>3. recs = {} /\ segs = {} /\ activeSeg = 0 /\ lastSeqno = 0 /\ isOpen \in BOOLEAN
  BY DEF Init, Log!Init
<1>4. writer.pc = "idle" /\ job.pc = "idle" /\ job.out = {} /\ job.ins = {}
  BY DEF Init, Idle, NoJob
<1>5. cancel \in BOOLEAN
  BY DEF Init
<1>. QED
  BY <1>1, <1>2, <1>3, <1>4, <1>5, FS_EmptySet DEF Init, TypeInv, TypeOK, Quiet, Phases

(* Nothing happens to the types when nothing happens.                      *)
LEMMA StutterTyped == TypeInv /\ UNCHANGED vars => TypeInv'
<1>. QED
  BY DEF TypeInv, TypeOK, Quiet, vars, walVars, diskVars, tableVars, memVars, boundVars

(* Every variable of the engine holds a value of its kind, whatever the    *)
(* constants are: the sequences stay sequences of tables and memtables,    *)
(* a table's lowest seqNo never exceeds its highest, and what a compaction *)
(* or a flush writes is always a well-formed table.                        *)
THEOREM TypeCorrect == Spec => []TypeOK
<1>1. TypeInv /\ [Next]_vars => TypeInv'
  BY OpenTyped, WriteTyped, FlushTyped, CompactionTyped, StopTyped, StutterTyped DEF Next
<1>2. TypeInv => TypeOK
  BY DEF TypeInv
<1>. QED
  BY InitTyped, <1>1, <1>2, PTL DEF Spec

-----------------------------------------------------------------------------
(* No live table is ever missing.  It takes more than LiveTablesExist to   *)
(* carry the argument through a step: the id of an output is one that no   *)
(* table had, so a cancelled job may remove it, and what a compaction is   *)
(* about to delete is named nowhere, in memory or on disk.                 *)

Named == Ids(dman) \cup Ids(man) \cup Ids(readers)

IdsAreOld == phase # "down" => \A id \in Named : id < nextId
OutputIsNew ==
    job.pc \in {"flush", "compact"} => \A t \in job.out : t.id = nextId /\ t.id \in files
InputsAreNamed == job.pc = "compact" => job.ins \subseteq Ids(man)
DeletedAreNotNamed == job.pc = "delete" => job.ins \cap Named = {}

TablesInv == /\ LiveTablesExist /\ IdsAreOld /\ OutputIsNew
             /\ InputsAreNamed /\ DeletedAreNotNamed

(* The ids of a list of tables are naturals.                               *)
LEMMA IdsTyped == \A s : AreTables(s) => Ids(s) \subseteq Nat
  BY DEF Ids, AreTables, IsTable

(* A table in front of a list adds its id.                                 *)
LEMMA IdsPrepended ==
    ASSUME NEW s, AreTables(s), NEW t
    PROVE  Ids(<<t>> \o s) = {t.id} \cup Ids(s)
<1>1. Range(<<t>> \o s) = {t} \cup Range(s)
  BY Prepended DEF AreTables
<1>. QED
  BY <1>1 DEF Ids

(* What most steps do: they touch neither the lists of tables nor the job. *)
LEMMA TablesUntouched ==
    ASSUME TablesInv, UNCHANGED <<dman, man, readers, nextId, job>>,
           Named \subseteq files', job.pc \in {"flush", "compact"} => files \subseteq files',
           phase' # "down" => phase # "down"
    PROVE  TablesInv'
<1>. QED
  BY DEF TablesInv, LiveTablesExist, IdsAreOld, OutputIsNew, InputsAreNamed,
     DeletedAreNotNamed, Named

(* A job is over and nothing has been deleted.                             *)
LEMMA JobOver ==
    ASSUME job'.pc \in {"idle", "clean"},
           Named' \subseteq files', \A id \in Named' : id < nextId'
    PROVE  TablesInv'
<1>. QED
  BY DEF TablesInv, LiveTablesExist, IdsAreOld, OutputIsNew, InputsAreNamed,
     DeletedAreNotNamed, Named

(* open() removes only the files no manifest entry names.                  *)
LEMMA OpenKeepsTables == TypeInv /\ TablesInv /\ Open => TablesInv'
<1>. SUFFICES ASSUME TypeInv, TablesInv, Open PROVE TablesInv'
  OBVIOUS
<1>1. CASE LoadManifest
  <2>1. Range(man') = Range(dman) /\ Range(readers') = Range(dman) /\ dman' = dman
    BY <1>1, FiniteRange, SortedTables DEF LoadManifest, TypeInv, TypeOK, AreTables
  <2>2. Named' = Ids(dman)
    BY <2>1 DEF Named, Ids
  <2>3. Named' \subseteq files'
    BY <1>1, <2>2 DEF LoadManifest
  <2>4. \A id \in Named' : id < nextId'
    BY <1>1, <2>2, IdsTyped DEF LoadManifest, Greatest, TypeInv, TypeOK
  <2>5. job'.pc = "idle"
    BY <1>1 DEF LoadManifest, TypeInv, TypeOK, Quiet, Live
  <2>. QED
    BY <2>3, <2>4, <2>5, JobOver
<1>2. CASE ReplayOne \/ FinishOpen
  <2>1. UNCHANGED <<dman, man, readers, nextId, job, files>> /\ phase # "down"
    BY <1>2 DEF ReplayOne, FinishOpen, diskVars, tableVars
  <2>. QED
    BY <2>1, TablesUntouched DEF TablesInv, LiveTablesExist, Named
<1>. QED
  BY <1>1, <1>2 DEF Open

(* A write touches no table.                                               *)
LEMMA WriteKeepsTables == TablesInv /\ Write => TablesInv'
<1>. SUFFICES ASSUME TablesInv, Write PROVE TablesInv'
  OBVIOUS
<1>1. UNCHANGED <<dman, man, readers, nextId, job, files, phase>>
  BY DEF Write, BeginWrite, BlockWriter, WakeWriter, RefuseWrite, LogWrite, ApplyWrite,
     ReturnFromWrite, Rotate, diskVars, tableVars
<1>. QED
  BY <1>1, TablesUntouched DEF TablesInv, LiveTablesExist, Named

(* A flush has added its table to the manifest and is over.                *)
LEMMA TableAdded ==
    ASSUME TypeInv, TablesInv, job.pc = "flush", job'.pc \in {"idle", "clean"},
           NEW t \in job.out, man' = <<t>> \o man, nextId' = Max({nextId, t.id + 1}),
           Ids(dman') \cup Ids(readers') \subseteq Named \cup {nextId}, files' = files
    PROVE  TablesInv'
<1>1. t.id = nextId /\ t.id \in files /\ nextId \in Nat
  BY DEF TablesInv, OutputIsNew, TypeInv, TypeOK
<1>2. Ids(man') = {nextId} \cup Ids(man)
  BY <1>1, IdsPrepended DEF TypeInv, TypeOK
<1>3. Named' \subseteq Named \cup {nextId}
  BY <1>2 DEF Named
<1>4. nextId' \in Nat /\ nextId' >= nextId + 1
  <2>1. nextId' = Max({nextId, nextId + 1}) /\ nextId + 1 \in Nat
    BY <1>1
  <2>. QED
    BY <1>1, <2>1, GreaterOfTwo
<1>5. \A id \in Named : id < nextId /\ id \in Nat
  BY IdsTyped DEF TablesInv, IdsAreOld, Named, TypeInv, TypeOK, Quiet, Live
<1>6. Named' \subseteq files'
  BY <1>1, <1>3 DEF TablesInv, LiveTablesExist, Named
<1>7. \A id \in Named' : id < nextId'
  BY <1>1, <1>3, <1>4, <1>5
<1>. QED
  BY <1>6, <1>7, JobOver

(* A flush, finished or failed, loses no table.                            *)
LEMMA FlushKeepsTables == TypeInv /\ TablesInv /\ Flush => TablesInv'
<1>. SUFFICES ASSUME TypeInv, TablesInv, Flush PROVE TablesInv'
  OBVIOUS
<1>1. CASE FlushWrite
  <2>1. IsMemtable(Last(imms))
    <3>1. Len(imms) # 0 /\ Len(imms) \in Nat
      BY <1>1, EmptySeq DEF FlushWrite, AreMemtables, TypeInv, TypeOK
    <3>. QED
      BY <3>1, SequenceOfItsRange DEF Last, AreMemtables, TypeInv, TypeOK
  <2>2. \A t \in job'.out : t.id = nextId
    BY <1>1, <2>1, TablesOfTyped DEF FlushWrite, OutputId, TypeInv, TypeOK
  <2>. QED
    BY <1>1, <2>2 DEF FlushWrite, OutputId, tableVars, TablesInv, LiveTablesExist, IdsAreOld,
       OutputIsNew, InputsAreNamed, DeletedAreNotNamed, Named
<1>2. CASE FlushPublish
  <2>1. PICK t \in job.out : /\ man' = <<t>> \o man
                             /\ readers' = <<t>> \o readers
                             /\ nextId' = Max({nextId, t.id + 1})
    BY <1>2 DEF FlushPublish
  <2>2. job.pc = "flush" /\ dman' = man' /\ files' = files /\ job'.pc = "clean"
    BY <1>2 DEF FlushPublish, NoJob
  <2>3. t.id = nextId
    BY <2>2 DEF TablesInv, OutputIsNew
  <2>4. Ids(dman') \cup Ids(readers') \subseteq Named \cup {nextId}
    BY <2>1, <2>2, <2>3, IdsPrepended DEF Named, TypeInv, TypeOK
  <2>. QED
    BY <2>1, <2>2, <2>4, TableAdded
<1>3. CASE FlushSaveFails
  <2>1. PICK t \in job.out : man' = <<t>> \o man /\ nextId' = Max({nextId, t.id + 1})
    BY <1>3 DEF FlushSaveFails
  <2>2. UNCHANGED <<dman, readers, files>> /\ job.pc = "flush" /\ job'.pc = "idle"
    BY <1>3 DEF FlushSaveFails, GiveUp, NoJob, diskVars
  <2>. QED
    BY <2>1, <2>2, TableAdded DEF Named
<1>4. CASE FlushWriteFails
  <2>1. UNCHANGED <<dman, man, readers, nextId, job, files>> /\ phase # "down"
    BY <1>4 DEF FlushWriteFails, WorkersUp, Live, diskVars, tableVars
  <2>. QED
    BY <2>1, TablesUntouched DEF TablesInv, LiveTablesExist, Named
<1>5. CASE FlushClean
  <2>1. UNCHANGED <<dman, man, readers, nextId, files>> /\ job'.pc = "idle" /\ phase # "down"
    BY <1>5 DEF FlushClean, NoJob, diskVars, tableVars, TypeInv, Quiet, Live
  <2>. QED
    BY <2>1, JobOver DEF TablesInv, LiveTablesExist, IdsAreOld, Named
<1>. QED
  BY <1>1, <1>2, <1>3, <1>4, <1>5 DEF Flush

(* What apply_compaction leaves in the manifest, and the next id.          *)
LEMMA TablesReplaced ==
    ASSUME TypeInv, TablesInv, job.pc = "compact", EditForCompaction
    PROVE  /\ AreTables(man')
           /\ \A id \in Ids(man') : \/ id \in Ids(man) \ job.ins
                                    \/ (id = nextId /\ id \in files)
           /\ job.out # {} => nextId' > nextId
           /\ job.out = {} => Ids(man') \subseteq Ids(man)
           /\ nextId' >= nextId /\ nextId' \in Nat /\ nextId \in Nat
<1>. DEFINE S == {t \in Range(man) : t.id \notin job.ins} \cup job.out
<1>1. IsFiniteSet(S)
  BY FiniteRange, FS_Subset, FS_Union DEF AreTables, TypeInv, TypeOK, Quiet
<1>2. \A t \in S : IsTable(t)
  BY DEF AreTables, TypeInv, TypeOK
<1>3. man' \in Seq(Range(man')) /\ Range(man') = S
  BY <1>1, SortedTables DEF EditForCompaction
<1>4. \A t \in job.out : t.id = nextId /\ t.id \in files
  BY DEF TablesInv, OutputIsNew
<1>5. \A id \in Ids(man') : \/ id \in Ids(man) \ job.ins
                           \/ (id = nextId /\ id \in files)
  BY <1>3, <1>4 DEF Ids
<1>6. job.out = {} => Ids(man') \subseteq Ids(man)
  BY <1>3 DEF Ids
<1>7. nextId \in Nat /\ nextId' >= nextId /\ nextId' \in Nat
  BY <1>4 DEF EditForCompaction, Greatest, TypeInv, TypeOK
<1>8. job.out # {} => nextId' >= nextId + 1
  BY <1>4 DEF EditForCompaction, Greatest
<1>. QED
  BY <1>2, <1>3, <1>5, <1>6, <1>7, <1>8 DEF AreTables

(* A compaction removes its output if it was never published, its inputs   *)
(* once   nothing names them.                                              *)
LEMMA CompactionKeepsTables == TypeInv /\ TablesInv /\ Compaction => TablesInv'
<1>. SUFFICES ASSUME TypeInv, TablesInv, Compaction PROVE TablesInv'
  OBVIOUS
<1>1. ASSUME NEW j \in DOMAIN man, NEW i \in 1 .. j, NEW aged, CompactWrite(i, j, aged)
      PROVE  TablesInv'
  <2>. DEFINE w == Window(i, j)
              out == TablesOf(nextId, Kept(w, aged))
  <2>1. AreTables(w) /\ Range(w) \subseteq Range(man)
    BY WindowTyped DEF TypeInv, TypeOK
  <2>2. \A t \in out : t.id = nextId
    BY <2>1, KeptTyped, TablesOfTyped DEF TypeInv, TypeOK
  <2>3. Ids(w) \subseteq Ids(man)
    BY <2>1 DEF Ids
  <2>4. job'.pc = "compact" /\ job'.out = out /\ job'.ins = Ids(w)
        /\ files' = files \cup {t.id : t \in out}
        /\ UNCHANGED <<dman, man, readers, nextId, phase>>
    BY <1>1 DEF CompactWrite, OutputId, tableVars
  <2>. HIDE DEF w, out
  <2>. QED
    BY <2>2, <2>3, <2>4 DEF TablesInv, LiveTablesExist, IdsAreOld,
       OutputIsNew, InputsAreNamed, DeletedAreNotNamed, Named
<1>2. ASSUME job.pc = "compact"
      PROVE  /\ phase # "down" /\ nextId \in Nat
             /\ \A id \in Named : id < nextId /\ id \in files /\ id \in Nat
  BY <1>2, IdsTyped DEF TypeInv, TypeOK, Quiet, Live, TablesInv, IdsAreOld, LiveTablesExist, Named
<1>3. CASE CompactCancel
  <2>1. /\ UNCHANGED <<dman, man, readers, nextId>> /\ job'.pc = "idle"
        /\ files' = files \ {t.id : t \in job.out} /\ job.pc = "compact"
    BY <1>3 DEF CompactCancel, Unpublished, NoJob, tableVars
  <2>2. Named' \subseteq files'
    BY <1>2, <2>1 DEF Named, TablesInv, OutputIsNew
  <2>. QED
    BY <1>2, <2>1, <2>2, JobOver DEF Named
<1>4. CASE CompactPublish
  <2>1. /\ dman' = man' /\ readers' = man' /\ files' = files
        /\ job.pc = "compact" /\ job'.pc = "delete"
        /\ job'.ins = job.ins \cap Ids(readers) /\ EditForCompaction
    BY <1>4 DEF CompactPublish, Rebuilt
  <2>2. Named' = Ids(man')
    BY <2>1 DEF Named
  <2>3. \A id \in Ids(man') : id < nextId' /\ id \in files /\ id \notin job.ins
    <3>1. \A id \in job.ins : id \in Named
      BY <2>1 DEF TablesInv, InputsAreNamed, Named
    <3>2. SUFFICES ASSUME NEW id \in Ids(man')
                   PROVE  id < nextId' /\ id \in files /\ id \notin job.ins
      OBVIOUS
    <3>3. CASE id \in Ids(man) \ job.ins
      BY <1>2, <2>1, <3>3, TablesReplaced DEF Named
    <3>4. CASE id \notin Ids(man) /\ id = nextId /\ id \in files
      BY <1>2, <2>1, <3>1, <3>2, <3>4, TablesReplaced
    <3>5. CASE id \in Ids(man) /\ id = nextId
      BY <1>2, <2>1, <3>5 DEF Named
    <3>. QED
      BY <2>1, <3>3, <3>4, <3>5, TablesReplaced
  <2>. QED
    BY <2>1, <2>2, <2>3 DEF TablesInv, LiveTablesExist, IdsAreOld,
       OutputIsNew, InputsAreNamed, DeletedAreNotNamed, Named
<1>5. CASE CompactSaveFails
  <2>1. /\ UNCHANGED <<dman, readers, files>> /\ job.pc = "compact" /\ job'.pc = "idle"
        /\ EditForCompaction
    BY <1>5 DEF CompactSaveFails, NoJob, diskVars
  <2>2. \A id \in Named' : id \in files' /\ id < nextId'
    <3>1. SUFFICES ASSUME NEW id \in Named'
                   PROVE  id \in files' /\ id < nextId'
      OBVIOUS
    <3>2. CASE id \in Named
      BY <1>2, <2>1, <3>2, TablesReplaced
    <3>3. CASE id \notin Named
      <4>1. id \in Ids(man') /\ id \notin Ids(man)
        BY <2>1, <3>3 DEF Named
      <4>. QED
        BY <2>1, <4>1, TablesReplaced
    <3>. QED
      BY <3>2, <3>3
  <2>. QED
    BY <2>1, <2>2, JobOver
<1>6. CASE CompactDelete
  <2>1. /\ UNCHANGED <<dman, man, readers, nextId>> /\ job'.pc = "idle" /\ job.pc = "delete"
        /\ \E deferred : files' = files \ (job.ins \ deferred)
    BY <1>6 DEF CompactDelete, NoJob, tableVars
  <2>2. Named' \subseteq files'
    BY <2>1 DEF Named, TablesInv, LiveTablesExist, DeletedAreNotNamed
  <2>3. \A id \in Named : id < nextId
    BY <2>1 DEF TablesInv, IdsAreOld, TypeInv, Quiet, Live
  <2>. QED
    BY <2>1, <2>2, <2>3, JobOver DEF Named
<1>. QED
  BY <1>1, <1>3, <1>4, <1>5, <1>6 DEF Compaction, Compact

(* A crash or a close leaves every file where it is.                       *)
LEMMA StopKeepsTables == TypeInv /\ TablesInv /\ Stop => TablesInv'
<1>. SUFFICES ASSUME TypeInv, TablesInv, Stop PROVE TablesInv'
  OBVIOUS
<1>1. CASE CloseGracefully \/ CloseFast \/ Drained \/ CloseLog
  <2>1. UNCHANGED <<dman, man, readers, nextId, job, files>> /\ phase # "down"
    BY <1>1 DEF CloseGracefully, CloseFast, Drained, CloseLog, diskVars, tableVars
  <2>. QED
    BY <2>1, TablesUntouched DEF TablesInv, LiveTablesExist, Named
<1>2. CASE Exit \/ Crash \/ CrashInRotate \/ CrashInCleanup
  <2>1. ForgetMemory /\ UNCHANGED <<dman, files>>
    BY <1>2 DEF Exit, Crash, CrashInRotate, CrashInCleanup, diskVars
  <2>2. job'.pc = "idle" /\ phase' = "down" /\ Ids(man') = {} /\ Ids(readers') = {}
    BY <2>1, ForgottenTyped, EmptyRange DEF ForgetMemory, Ids
  <2>. QED
    BY <2>1, <2>2 DEF TablesInv, LiveTablesExist, IdsAreOld, OutputIsNew,
       InputsAreNamed, DeletedAreNotNamed, Named
<1>. QED
  BY <1>1, <1>2 DEF Stop

(* No table that the manifest names, in memory or on disk, and no table a  *)
(* reader is open on, is ever missing: orphan removal at open(), the       *)
(* deletion of a cancelled job's output and of compacted inputs never take *)
(* a live table, through any crash, failed save or close.                  *)
THEOREM LiveTablesAreThere == Spec => []LiveTablesExist
<1>1. Init => TablesInv
  BY EmptyRange DEF Init, TablesInv, LiveTablesExist, IdsAreOld, OutputIsNew,
     InputsAreNamed, DeletedAreNotNamed, Named, Ids, NoJob
<1>2. TypeInv /\ TablesInv /\ [Next]_vars => TablesInv'
  <2>1. TypeInv /\ TablesInv /\ UNCHANGED vars => TablesInv'
    BY DEF vars, diskVars, tableVars, TablesInv, LiveTablesExist, IdsAreOld, OutputIsNew,
       InputsAreNamed, DeletedAreNotNamed, Named
  <2>. QED
    BY <2>1, OpenKeepsTables, WriteKeepsTables, FlushKeepsTables, CompactionKeepsTables,
       StopKeepsTables DEF Next
<1>3. TypeInv /\ [Next]_vars => TypeInv'
  BY OpenTyped, WriteTyped, FlushTyped, CompactionTyped, StopTyped, StutterTyped DEF Next
<1>4. TablesInv => LiveTablesExist
  BY DEF TablesInv
<1>. QED
  BY InitTyped, <1>1, <1>2, <1>3, <1>4, PTL DEF Spec

-----------------------------------------------------------------------------
(* The memtables are strictly ordered by seqNo, what wal.hpp relies on to  *)
(* delete segments.  Their order is inherited from the order of the log    *)
(* and from the seqNo counter, so the three are proved together.           *)

(* The seqNos in a queue of memtables.                                     *)

QueuedIn(q) == UNION {Seqnos(q[i]) : i \in DOMAIN q}

(* Newest first.                                                           *)
QueueOrdered(q) ==
    \A i, j \in DOMAIN q : i < j =>
        \A m \in Seqnos(q[i]), n \in Seqnos(q[j]) : m > n

(* All of S is above all of T.                                             *)
Above(S, T) == \A m \in S, n \in T : m > n

(* A newer memtable in front.                                              *)
LEMMA QueuePrepended ==
    ASSUME NEW q, q \in Seq(Range(q)), QueueOrdered(q),
           NEW m, Above(Seqnos(m), QueuedIn(q))
    PROVE  /\ QueueOrdered(<<m>> \o q)
           /\ QueuedIn(<<m>> \o q) = Seqnos(m) \cup QueuedIn(q)
<1>. DEFINE p == <<m>> \o q
<1>1. Len(q) \in Nat /\ DOMAIN q = 1 .. Len(q)
  BY SequenceOfItsRange
<1>2. /\ p \in Seq(Range(p)) /\ Len(p) = Len(q) + 1
      /\ \A i \in 1 .. Len(q) + 1 : p[i] = IF i = 1 THEN m ELSE q[i - 1]
  BY Prepended
<1>. HIDE DEF p
<1>3. DOMAIN p = 1 .. Len(q) + 1
  BY <1>2, SequenceOfItsRange
<1>4. p[1] = m /\ \A i \in 1 .. Len(q) : p[i + 1] = q[i]
  BY <1>1, <1>2
<1>5. QueuedIn(p) = Seqnos(m) \cup QueuedIn(q)
  <2>1. ASSUME NEW n \in QueuedIn(p)
        PROVE  n \in Seqnos(m) \cup QueuedIn(q)
    <3>1. PICK i \in DOMAIN p : n \in Seqnos(p[i])
      BY <2>1 DEF QueuedIn
    <3>2. CASE i = 1
      BY <1>4, <3>1, <3>2
    <3>3. CASE i # 1
      <4>1. i - 1 \in DOMAIN q /\ p[i] = q[i - 1]
        BY <1>1, <1>2, <1>3, <3>3
      <4>. QED
        BY <3>1, <4>1 DEF QueuedIn
    <3>. QED
      BY <3>2, <3>3
  <2>2. Seqnos(m) \subseteq QueuedIn(p)
    <3>1. 1 \in DOMAIN p
      BY <1>1, <1>3
    <3>. QED
      BY <1>4, <3>1 DEF QueuedIn
  <2>3. ASSUME NEW n \in QueuedIn(q)
        PROVE  n \in QueuedIn(p)
    <3>1. PICK i \in DOMAIN q : n \in Seqnos(q[i])
      BY <2>3 DEF QueuedIn
    <3>2. i + 1 \in DOMAIN p /\ p[i + 1] = q[i]
      BY <1>1, <1>3, <1>4
    <3>. QED
      BY <3>1, <3>2 DEF QueuedIn
  <2>. QED
    BY <2>1, <2>2, <2>3
<1>6. ASSUME NEW i \in DOMAIN p, NEW j \in DOMAIN p, i < j,
             NEW k \in Seqnos(p[i]), NEW n \in Seqnos(p[j])
      PROVE  k > n
  <2>1. j - 1 \in DOMAIN q /\ p[j] = q[j - 1]
    BY <1>1, <1>2, <1>3, <1>6
  <2>2. CASE i = 1
    <3>1. n \in QueuedIn(q)
      BY <1>6, <2>1 DEF QueuedIn
    <3>. QED
      BY <1>4, <1>6, <2>2, <3>1 DEF Above
  <2>3. CASE i # 1
    <3>1. i - 1 \in DOMAIN q /\ p[i] = q[i - 1] /\ i - 1 < j - 1
      BY <1>1, <1>2, <1>3, <1>6, <2>3
    <3>. QED
      BY <1>6, <2>1, <3>1 DEF QueueOrdered
  <2>. QED
    BY <2>2, <2>3
<1>. QED
  BY <1>5, <1>6 DEF QueueOrdered, p

(* The oldest memtable leaves.                                             *)
LEMMA QueueShortened ==
    ASSUME NEW q, q \in Seq(Range(q)), QueueOrdered(q)
    PROVE  QueueOrdered(Front(q)) /\ QueuedIn(Front(q)) \subseteq QueuedIn(q)
<1>1. Len(q) \in Nat /\ DOMAIN q = 1 .. Len(q)
  BY SequenceOfItsRange
<1>2. /\ Front(q) \in Seq(Range(Front(q))) /\ Len(Front(q)) <= Len(q)
      /\ Len(Front(q)) \in Nat
      /\ \A i \in 1 .. Len(Front(q)) : Front(q)[i] = q[i]
  BY LastDropped
<1>3. DOMAIN Front(q) = 1 .. Len(Front(q))
  BY <1>2, SequenceOfItsRange
<1>4. \A i \in DOMAIN Front(q) : i \in DOMAIN q /\ Front(q)[i] = q[i]
  BY <1>1, <1>2, <1>3
<1>. QED
  BY <1>4 DEF QueueOrdered, QueuedIn

(* Nothing is queued in an empty queue.                                    *)
LEMMA QueueEmpty == QueuedIn(<<>>) = {} /\ QueueOrdered(<<>>)
  BY DEF QueuedIn, QueueOrdered

(* A record applied adds its seqNo, and may hide another.                  *)
LEMMA SeqnosApplied ==
    ASSUME NEW m, NEW r
    PROVE  Seqnos(Apply(m, r)) \subseteq Seqnos(m) \cup {r.seq}
  BY DEF Seqnos, Apply

(* There are none in an empty memtable.                                    *)
LEMMA SeqnosEmpty == Seqnos(EmptyMemtable) = {}
  BY DEF Seqnos, EmptyMemtable

(* SeqNos are naturals.                                                    *)
LEMMA HeldTyped ==
    ASSUME TypeOK
    PROVE  Seqnos(active) \subseteq Nat /\ QueuedIn(imms) \subseteq Nat
<1>1. Seqnos(active) \subseteq Nat
  BY DEF TypeOK, IsMemtable, Entry, Seqnos
<1>2. \A i \in DOMAIN imms : IsMemtable(imms[i])
  BY SequenceOfItsRange DEF TypeOK, AreMemtables
<1>3. \A i \in DOMAIN imms : Seqnos(imms[i]) \subseteq Nat
  BY <1>2 DEF IsMemtable, Entry, Seqnos
<1>. QED
  BY <1>1, <1>3 DEF QueuedIn

-----------------------------------------------------------------------------
(* The invariant: segments follow each other in seqNo order, the counter   *)
(* is at the newest record of an open log, the memtables are ordered, all  *)
(* they hold has been counted, and what the writer has logged is newer     *)
(* than all of it.                                                         *)

Held == Seqnos(active) \cup QueuedIn(imms)

LogOrdered == /\ \A q, r \in recs : q.seg < r.seg => q.seq < r.seq
              /\ \A q, r \in recs : q.seq = r.seq => q = r
              /\ \A r \in recs : r.seg \in segs

LogCounted == isOpen => \A r \in recs : r.seq <= lastSeqno /\ r.seg <= activeSeg

MemoryOrdered == /\ QueueOrdered(imms)
                 /\ Above(Seqnos(active), QueuedIn(imms))
                 /\ Above({r.seq : r \in todo}, Held)

HeldCounted == /\ phase = "down" => Held = {}
               /\ phase = "replay" => Held \subseteq {r.seq : r \in recs}
               /\ phase \notin {"down", "replay"} => \A n \in Held : n <= lastSeqno

WriterNext == /\ phase \in {"down", "replay"} => writer.pc = "idle"
              /\ writer.pc = "logged" => /\ writer.rec.seq = lastSeqno
                                         /\ \A n \in Held : n < lastSeqno

OrderInv == LogOrdered /\ LogCounted /\ MemoryOrdered /\ HeldCounted /\ WriterNext

(* What most steps do: they touch neither the log nor the memtables.       *)
LEMMA OrderUntouched ==
    ASSUME OrderInv, UNCHANGED <<recs, segs, activeSeg, lastSeqno, isOpen, active, imms, todo>>,
           phase' = phase \/ (phase \in Live /\ phase' \in Live),
           writer' = writer \/ (writer'.pc # "logged" /\ phase \notin {"down", "replay"})
    PROVE  OrderInv'
<1>1. LogOrdered' /\ LogCounted' /\ MemoryOrdered' /\ Held' = Held
  BY DEF OrderInv, LogOrdered, LogCounted, MemoryOrdered, Held
<1>2. phase' \in {"down", "replay"} => phase' = phase
  BY DEF Live
<1>3. HeldCounted'
  BY <1>1, <1>2 DEF OrderInv, HeldCounted, Live
<1>4. WriterNext'
  BY <1>1, <1>2 DEF OrderInv, WriterNext
<1>. QED
  BY <1>1, <1>3, <1>4 DEF OrderInv

(* A record is appended with the next seqNo, to the newest segment.        *)
LEMMA LogWriteOrdered ==
    ASSUME TypeInv, OrderInv, NEW o, LogWrite(o)
    PROVE  OrderInv'
<1>. DEFINE new == Log!NextRecord(o)
<1>1. /\ isOpen /\ writer.pc = "admitted" /\ isOpen' = isOpen
      /\ writer'.pc = "logged" /\ writer'.rec = new
      /\ UNCHANGED <<active, imms, todo, phase>>
  BY DEF LogWrite, Log!Append, memVars
<1>2. /\ recs' = recs \cup {new} /\ activeSeg' = Log!AppendSeg
      /\ segs' = segs \cup {Log!AppendSeg} /\ lastSeqno' = lastSeqno + 1
  BY AppendEffect
<1>3. new.seq = lastSeqno + 1 /\ new.seg = Log!AppendSeg
  BY DEF Log!NextRecord
<1>4. /\ lastSeqno \in Nat /\ activeSeg \in Nat /\ Log!AppendSeg \in Nat
      /\ Log!AppendSeg >= activeSeg
      /\ \A r \in recs : r.seq \in Nat /\ r.seg \in Nat
  BY DEF TypeInv, TypeOK, Log!AppendSeg, IsRecord
<1>5. \A r \in recs : r.seq <= lastSeqno /\ r.seg <= activeSeg
  BY <1>1 DEF OrderInv, LogCounted
<1>. HIDE DEF new
<1>6. phase \notin {"down", "replay"}
  BY <1>1 DEF OrderInv, WriterNext
<1>7. LogOrdered'
  BY <1>2, <1>3, <1>4, <1>5 DEF OrderInv, LogOrdered
<1>8. LogCounted'
  BY <1>2, <1>3, <1>4, <1>5 DEF LogCounted
<1>9. Held' = Held /\ MemoryOrdered'
  BY <1>1 DEF OrderInv, MemoryOrdered, Held
<1>10. \A n \in Held : n \in Nat /\ n <= lastSeqno
  BY <1>6, HeldTyped DEF OrderInv, HeldCounted, Held, TypeInv
<1>11. HeldCounted'
  BY <1>1, <1>2, <1>4, <1>6, <1>9, <1>10 DEF HeldCounted
<1>12. WriterNext'
  BY <1>1, <1>2, <1>3, <1>4, <1>6, <1>9, <1>10 DEF WriterNext
<1>. QED
  BY <1>7, <1>8, <1>9, <1>11, <1>12 DEF OrderInv

(* It reaches the active memtable after all that is held.                  *)
LEMMA ApplyWriteOrdered ==
    ASSUME TypeInv, OrderInv, ApplyWrite
    PROVE  OrderInv'
<1>1. /\ writer.pc = "logged" /\ writer'.pc = "applied"
      /\ active' = Apply(active, writer.rec)
      /\ UNCHANGED <<recs, segs, activeSeg, lastSeqno, isOpen, imms, todo, phase>>
  BY DEF ApplyWrite, walVars
<1>2. /\ phase \notin {"down", "replay"} /\ todo = {}
      /\ writer.rec.seq = lastSeqno /\ lastSeqno \in Nat
      /\ \A n \in Held : n \in Nat /\ n < lastSeqno
  BY <1>1, HeldTyped DEF OrderInv, WriterNext, TypeInv, TypeOK, Quiet, Held
<1>3. Seqnos(active') \subseteq Seqnos(active) \cup {lastSeqno}
  BY <1>1, <1>2, SeqnosApplied
<1>4. LogOrdered' /\ LogCounted'
  BY <1>1 DEF OrderInv, LogOrdered, LogCounted
<1>5. MemoryOrdered'
  BY <1>1, <1>2, <1>3 DEF OrderInv, MemoryOrdered, Above, Held
<1>6. \A n \in Held' : n <= lastSeqno
  BY <1>1, <1>2, <1>3 DEF Held
<1>7. HeldCounted' /\ WriterNext'
  BY <1>1, <1>2, <1>6 DEF HeldCounted, WriterNext
<1>. QED
  BY <1>4, <1>5, <1>7 DEF OrderInv

(* What is held stays the same when the active memtable joins the queue.   *)
LEMMA RotatedMemory ==
    ASSUME TypeInv, QueueOrdered(imms), NEW m, Above(Seqnos(m), QueuedIn(imms)),
           active' = EmptyMemtable, imms' = <<m>> \o imms
    PROVE  /\ QueueOrdered(imms') /\ Above(Seqnos(active'), QueuedIn(imms'))
           /\ Held' = Seqnos(m) \cup QueuedIn(imms)
<1>1. imms \in Seq(Range(imms))
  BY DEF TypeInv, TypeOK, AreMemtables
<1>2. QueueOrdered(imms') /\ QueuedIn(imms') = Seqnos(m) \cup QueuedIn(imms)
  BY <1>1, QueuePrepended
<1>3. Seqnos(active') = {}
  BY SeqnosEmpty
<1>. QED
  BY <1>2, <1>3 DEF Above, Held

LEMMA RotateOrdered ==
    ASSUME TypeInv, OrderInv, Rotate
    PROVE  OrderInv'
<1>1. /\ writer.pc = "applied" /\ writer'.pc = "idle"
      /\ active' = EmptyMemtable /\ imms' = <<active>> \o imms
      /\ UNCHANGED <<todo, phase>>
  BY DEF Rotate, Idle
<1>2. /\ activeSeg' = activeSeg + 1 /\ segs' = segs \cup {activeSeg + 1}
      /\ UNCHANGED <<recs, lastSeqno, isOpen>>
  BY RollEffect
<1>3. /\ phase \notin {"down", "replay"} /\ todo = {} /\ activeSeg \in Nat
      /\ \A r \in recs : r.seg \in Nat
  BY <1>1 DEF OrderInv, WriterNext, TypeInv, TypeOK, Quiet, IsRecord
<1>4. LogOrdered'
  BY <1>2 DEF OrderInv, LogOrdered
<1>5. LogCounted'
  BY <1>2, <1>3 DEF OrderInv, LogCounted
<1>6. /\ QueueOrdered(imms') /\ Above(Seqnos(active'), QueuedIn(imms'))
      /\ Held' = Held
  BY <1>1, RotatedMemory DEF OrderInv, MemoryOrdered, Held
<1>7. MemoryOrdered'
  BY <1>1, <1>3, <1>6 DEF MemoryOrdered, Above
<1>8. HeldCounted' /\ WriterNext'
  BY <1>1, <1>2, <1>3, <1>6 DEF OrderInv, HeldCounted, WriterNext
<1>. QED
  BY <1>4, <1>5, <1>7, <1>8 DEF OrderInv

(* A write keeps the order.                                                *)
LEMMA WriteOrdered == TypeInv /\ OrderInv /\ Write => OrderInv'
<1>. SUFFICES ASSUME TypeInv, OrderInv, Write PROVE OrderInv'
  OBVIOUS
<1>1. CASE BeginWrite \/ BlockWriter \/ WakeWriter \/ RefuseWrite \/ ReturnFromWrite
  <2>1. /\ UNCHANGED <<recs, segs, activeSeg, lastSeqno, isOpen, active, imms, todo, phase>>
        /\ writer'.pc # "logged"
        /\ phase = "running" \/ writer.pc # "idle"
    BY <1>1 DEF BeginWrite, BlockWriter, WakeWriter, RefuseWrite, ReturnFromWrite, Idle,
       walVars, memVars
  <2>2. phase \notin {"down", "replay"}
    BY <2>1 DEF OrderInv, WriterNext
  <2>. QED
    BY <2>1, <2>2, OrderUntouched
<1>2. CASE \E o \in Mutation : LogWrite(o)
  BY <1>2, LogWriteOrdered
<1>3. CASE ApplyWrite
  BY <1>3, ApplyWriteOrdered
<1>4. CASE Rotate
  BY <1>4, RotateOrdered
<1>. QED
  BY <1>1, <1>2, <1>3, <1>4 DEF Write

(* Segments are removed, the oldest records with them.                     *)
LEMMA SegmentsRemoved ==
    ASSUME LogOrdered, NEW gone, segs' = segs \ gone,
           recs' = {r \in recs : r.seg \notin gone}
    PROVE  LogOrdered' /\ recs' \subseteq recs
<1>. QED
  BY DEF LogOrdered

(* A flush takes the oldest memtable from the queue, and then segments     *)
(* from the log.                                                           *)
LEMMA FlushOrdered == TypeInv /\ OrderInv /\ Flush => OrderInv'
<1>. SUFFICES ASSUME TypeInv, OrderInv, Flush PROVE OrderInv'
  OBVIOUS
<1>1. CASE FlushWrite \/ FlushWriteFails \/ FlushSaveFails
  <2>1. /\ UNCHANGED <<recs, segs, activeSeg, lastSeqno, isOpen, active, imms, todo>>
        /\ phase \in Live
    BY <1>1 DEF FlushWrite, FlushWriteFails, FlushSaveFails, WorkersUp,
       walVars, memVars, TypeInv, Quiet
  <2>2. /\ phase' = phase \/ phase' \in Live
        /\ writer' = writer \/ writer'.pc # "logged"
    BY <1>1 DEF FlushWrite, FlushWriteFails, FlushSaveFails, DrainAbandoned,
       WriterNotified, Idle, Live
  <2>. QED
    BY <2>1, <2>2, OrderUntouched DEF Live
<1>2. CASE FlushPublish
  <2>1. /\ imms' = Front(imms) /\ writer' = WriterNotified
        /\ UNCHANGED <<recs, segs, activeSeg, lastSeqno, isOpen, active, todo, phase>>
        /\ phase \in Live /\ todo = {}
    BY <1>2 DEF FlushPublish, walVars, TypeInv, Quiet, Live
  <2>2. QueueOrdered(imms') /\ QueuedIn(imms') \subseteq QueuedIn(imms)
    BY <2>1, QueueShortened DEF OrderInv, MemoryOrdered, TypeInv, TypeOK, AreMemtables
  <2>3. LogOrdered' /\ LogCounted'
    BY <2>1 DEF OrderInv, LogOrdered, LogCounted
  <2>4. MemoryOrdered'
    BY <2>1, <2>2 DEF OrderInv, MemoryOrdered, Above
  <2>5. Held' \subseteq Held
    BY <2>1, <2>2 DEF Held
  <2>6. HeldCounted'
    BY <2>1, <2>5 DEF OrderInv, HeldCounted, Live
  <2>7. writer'.pc = "logged" => writer' = writer
    BY <2>1 DEF WriterNotified, Idle
  <2>8. WriterNext'
    BY <2>1, <2>5, <2>7 DEF OrderInv, WriterNext, Live
  <2>. QED
    BY <2>3, <2>4, <2>6, <2>8 DEF OrderInv
<1>3. CASE FlushClean
  <2>1. /\ UNCHANGED <<activeSeg, lastSeqno, isOpen, active, imms, todo, phase, writer>>
        /\ phase \in Live /\ todo = {}
    BY <1>3 DEF FlushClean, Log!RemoveSegments, memVars, TypeInv, Quiet, Live
  <2>2. LogOrdered' /\ recs' \subseteq recs
    <3>1. PICK w \in Watermark(man) : Log!RemoveSegments(Log!Covered(w))
      BY <1>3 DEF FlushClean
    <3>. QED
      BY <3>1, SegmentsRemoved DEF Log!RemoveSegments, OrderInv
  <2>3. LogCounted'
    BY <2>1, <2>2 DEF OrderInv, LogCounted
  <2>4. Held' = Held /\ MemoryOrdered'
    BY <2>1 DEF OrderInv, MemoryOrdered, Held
  <2>5. HeldCounted' /\ WriterNext'
    BY <2>1, <2>4 DEF OrderInv, HeldCounted, WriterNext, Live
  <2>. QED
    BY <2>2, <2>3, <2>4, <2>5 DEF OrderInv
<1>. QED
  BY <1>1, <1>2, <1>3 DEF Flush

(* A compaction does not touch what is ordered here.                       *)
LEMMA CompactionOrdered == OrderInv /\ Compaction => OrderInv'
<1>. SUFFICES ASSUME OrderInv, Compaction PROVE OrderInv'
  OBVIOUS
<1>1. UNCHANGED <<recs, segs, activeSeg, lastSeqno, isOpen, active, imms, todo, phase, writer>>
  BY DEF Compaction, Compact, CompactWrite, CompactCancel, CompactPublish,
     CompactSaveFails, CompactDelete, walVars, memVars
<1>. QED
  BY <1>1, OrderUntouched

(* Nothing is held in memory when the process has gone.                    *)
LEMMA ForgottenOrdered ==
    ASSUME ForgetMemory, LogOrdered', LogCounted'
    PROVE  OrderInv'
<1>1. /\ phase' = "down" /\ active' = EmptyMemtable /\ imms' = <<>> /\ todo' = {}
      /\ writer'.pc = "idle"
  BY DEF ForgetMemory, Idle
<1>2. QueuedIn(imms') = {} /\ QueueOrdered(imms') /\ Seqnos(active') = {}
  BY <1>1, QueueEmpty, SeqnosEmpty
<1>3. Held' = {}
  BY <1>2 DEF Held
<1>4. MemoryOrdered'
  BY <1>1, <1>2, <1>3 DEF MemoryOrdered, Above
<1>5. HeldCounted' /\ WriterNext'
  BY <1>1, <1>3 DEF HeldCounted, WriterNext
<1>. QED
  BY <1>4, <1>5 DEF OrderInv

(* Closing and crashing keep the log in order, whatever they leave of it.  *)
LEMMA StopOrdered == TypeInv /\ OrderInv /\ Stop => OrderInv'
<1>. SUFFICES ASSUME TypeInv, OrderInv, Stop PROVE OrderInv'
  OBVIOUS
<1>1. CASE CloseGracefully \/ CloseFast \/ Drained
  <2>1. /\ UNCHANGED <<recs, segs, activeSeg, lastSeqno, isOpen, active, imms, todo>>
        /\ phase \in Live /\ phase' \in Live
        /\ writer' = writer \/ writer'.pc # "logged"
    BY <1>1 DEF CloseGracefully, CloseFast, Drained, WriterNotified, Idle, Live,
       walVars, memVars
  <2>. QED
    BY <2>1, OrderUntouched DEF Live
<1>2. CASE CloseLog
  <2>1. /\ UNCHANGED <<recs, segs, activeSeg, lastSeqno, active, imms, todo, writer>>
        /\ isOpen' = FALSE /\ phase' = "closed" /\ phase \notin {"down", "replay"}
    BY <1>2 DEF CloseLog, Log!Close, memVars
  <2>2. LogOrdered' /\ LogCounted' /\ MemoryOrdered' /\ Held' = Held
    BY <2>1 DEF OrderInv, LogOrdered, LogCounted, MemoryOrdered, Held
  <2>3. HeldCounted' /\ WriterNext'
    BY <2>1, <2>2 DEF OrderInv, HeldCounted, WriterNext
  <2>. QED
    BY <2>2, <2>3 DEF OrderInv
<1>3. CASE Exit \/ Crash
  <2>1. ForgetMemory /\ recs' = recs /\ segs' = segs
    BY <1>3 DEF Exit, Crash, Log!Crash, walVars
  <2>2. LogOrdered'
    BY <2>1 DEF OrderInv, LogOrdered
  <2>3. LogCounted'
    <3>1. CASE Exit
      <4>1. UNCHANGED <<recs, activeSeg, lastSeqno, isOpen>>
        BY <3>1 DEF Exit, walVars
      <4>. QED
        BY <4>1 DEF OrderInv, LogCounted
    <3>2. CASE Crash
      <4>1. isOpen' = FALSE
        BY <3>2 DEF Crash, Log!Crash
      <4>. QED
        BY <4>1 DEF LogCounted
    <3>. QED
      BY <1>3, <3>1, <3>2
  <2>. QED
    BY <2>1, <2>2, <2>3, ForgottenOrdered
<1>4. CASE CrashInRotate
  <2>1. ForgetMemory /\ recs' = recs /\ segs' = segs \cup {activeSeg + 1}
    BY <1>4 DEF CrashInRotate, Log!CrashInRoll
  <2>2. LogOrdered'
    BY <2>1 DEF OrderInv, LogOrdered
  <2>3. isOpen' = FALSE
    BY <1>4 DEF CrashInRotate, Log!CrashInRoll
  <2>4. LogCounted'
    BY <2>3 DEF LogCounted
  <2>. QED
    BY <2>1, <2>2, <2>4, ForgottenOrdered
<1>5. CASE CrashInCleanup
  <2>1. ForgetMemory /\ isOpen' = FALSE
    BY <1>5 DEF CrashInCleanup
  <2>2. PICK gone : segs' = segs \ gone /\ recs' = {r \in recs : r.seg \notin gone}
    BY <1>5 DEF CrashInCleanup
  <2>3. LogOrdered'
    BY <2>2, SegmentsRemoved DEF OrderInv
  <2>4. LogCounted'
    BY <2>1 DEF LogCounted
  <2>. QED
    BY <2>1, <2>3, <2>4, ForgottenOrdered
<1>. QED
  BY <1>1, <1>2, <1>3, <1>4, <1>5 DEF Stop

(* Replay starts with an empty memory and the whole log to go.             *)
LEMMA LoadManifestOrdered ==
    ASSUME OrderInv, LoadManifest
    PROVE  OrderInv'
<1>1. /\ UNCHANGED <<recs, segs, activeSeg, lastSeqno, isOpen, active, imms, writer>>
      /\ phase = "down" /\ phase' = "replay"
  BY DEF LoadManifest, walVars, memVars
<1>2. Held' = Held /\ Held = {} /\ writer.pc = "idle"
  BY <1>1 DEF OrderInv, HeldCounted, WriterNext, Held
<1>3. LogOrdered' /\ LogCounted'
  BY <1>1 DEF OrderInv, LogOrdered, LogCounted
<1>4. MemoryOrdered'
  BY <1>1, <1>2 DEF OrderInv, MemoryOrdered, Above
<1>5. HeldCounted' /\ WriterNext'
  BY <1>1, <1>2 DEF HeldCounted, WriterNext
<1>. QED
  BY <1>3, <1>4, <1>5 DEF OrderInv

(* The oldest record of the log is newer than all that has been replayed,  *)
(* and older than all that is to come.                                     *)
LEMMA ReplayOrdered ==
    ASSUME TypeInv, OrderInv, ReplayOne
    PROVE  OrderInv'
<1>. DEFINE Full(m) == IsFull(m) /\ Len(imms) < MaxImm
<1>1. /\ UNCHANGED <<recs, segs, activeSeg, lastSeqno, isOpen, phase, writer>>
      /\ phase = "replay" /\ todo \subseteq recs
  BY DEF ReplayOne, walVars, TypeInv, TypeOK
<1>2. PICK r \in todo :
         /\ OldestRecord(r) /\ todo' = todo \ {r}
         /\ IF Full(Apply(active, r))
            THEN active' = EmptyMemtable /\ imms' = <<Apply(active, r)>> \o imms
            ELSE active' = Apply(active, r) /\ UNCHANGED imms
  BY DEF ReplayOne
<1>. HIDE DEF Full
<1>. DEFINE m == Apply(active, r)
<1>3. r.seq \in Nat /\ r \in recs
  BY <1>1, <1>2 DEF TypeInv, TypeOK, IsRecord
<1>4. Above({r.seq}, Held) /\ Seqnos(m) \subseteq Seqnos(active) \cup {r.seq}
  BY <1>2, SeqnosApplied DEF OrderInv, MemoryOrdered, Above
<1>5. ASSUME NEW q \in todo'
      PROVE  q.seq > r.seq /\ Above({q.seq}, Held)
  <2>1. q \in todo /\ q \in recs /\ q # r /\ q.seq \in Nat
    BY <1>1, <1>2 DEF TypeInv, TypeOK, IsRecord
  <2>2. q.seq # r.seq /\ (r.seg < q.seg => r.seq < q.seq)
    BY <1>3, <2>1 DEF OrderInv, LogOrdered
  <2>3. r.seg < q.seg \/ r.seq <= q.seq
    BY <1>2, <2>1 DEF OldestRecord
  <2>4. q.seq > r.seq
    BY <1>3, <2>1, <2>2, <2>3
  <2>. QED
    BY <2>1, <2>4 DEF OrderInv, MemoryOrdered, Above
<1>. HIDE DEF m
<1>6. Above(Seqnos(m), QueuedIn(imms))
  BY <1>4 DEF OrderInv, MemoryOrdered, Above, Held
<1>7. /\ QueueOrdered(imms') /\ Above(Seqnos(active'), QueuedIn(imms'))
      /\ Held' \subseteq Held \cup {r.seq}
  <2>1. CASE Full(m)
    <3>1. active' = EmptyMemtable /\ imms' = <<m>> \o imms
      BY <1>2, <2>1 DEF m
    <3>2. /\ QueueOrdered(imms') /\ Above(Seqnos(active'), QueuedIn(imms'))
          /\ Held' = Seqnos(m) \cup QueuedIn(imms)
      BY <1>6, <3>1, RotatedMemory DEF OrderInv, MemoryOrdered
    <3>. QED
      BY <1>4, <3>2 DEF Held
  <2>2. CASE ~Full(m)
    <3>1. active' = m /\ imms' = imms
      BY <1>2, <2>2 DEF m
    <3>. QED
      BY <1>4, <1>6, <3>1 DEF OrderInv, MemoryOrdered, Held
  <2>. QED
    BY <2>1, <2>2
<1>8. LogOrdered' /\ LogCounted'
  BY <1>1 DEF OrderInv, LogOrdered, LogCounted
<1>9. MemoryOrdered'
  BY <1>5, <1>7 DEF MemoryOrdered, Above
<1>10. HeldCounted'
  BY <1>1, <1>3, <1>7 DEF OrderInv, HeldCounted
<1>11. WriterNext'
  BY <1>1 DEF OrderInv, WriterNext
<1>. QED
  BY <1>8, <1>9, <1>10, <1>11 DEF OrderInv

(* The counter is at the newest record, the newest segment is active.      *)
LEMMA FinishOpenOrdered ==
    ASSUME TypeInv, OrderInv, FinishOpen
    PROVE  OrderInv'
<1>1. /\ UNCHANGED <<recs, active, imms, todo, writer>>
      /\ phase = "replay" /\ phase' = "running" /\ todo = {}
  BY DEF FinishOpen, Log!Open, memVars
<1>2. PICK w \in Watermark(man) : Log!Open(w)
  BY DEF FinishOpen
<1>3. \A r \in recs : r.seq <= lastSeqno' /\ r.seg \in segs
  BY <1>2 DEF Log!Open, OrderInv, LogOrdered
<1>4. /\ segs' = segs \cup {activeSeg'}
      /\ \A s \in segs : s <= activeSeg'
  BY <1>2 DEF Log!Open
<1>5. LogOrdered'
  BY <1>1, <1>4 DEF OrderInv, LogOrdered
<1>6. LogCounted'
  BY <1>1, <1>3, <1>4 DEF LogCounted
<1>7. Held' = Held /\ MemoryOrdered'
  BY <1>1 DEF OrderInv, MemoryOrdered, Held
<1>8. \A n \in Held : n <= lastSeqno'
  BY <1>1, <1>3 DEF OrderInv, HeldCounted
<1>9. HeldCounted' /\ WriterNext'
  BY <1>1, <1>7, <1>8 DEF OrderInv, HeldCounted, WriterNext
<1>. QED
  BY <1>5, <1>6, <1>7, <1>9 DEF OrderInv

(* An empty store is in order.                                             *)
LEMMA InitOrdered == Init => OrderInv
<1>. SUFFICES ASSUME Init PROVE OrderInv
  OBVIOUS
<1>1. /\ recs = {} /\ phase = "down" /\ active = EmptyMemtable /\ imms = <<>>
      /\ todo = {} /\ writer.pc = "idle"
  BY DEF Init, Log!Init, Idle
<1>2. QueuedIn(imms) = {} /\ QueueOrdered(imms) /\ Seqnos(active) = {}
  BY <1>1, QueueEmpty, SeqnosEmpty
<1>. QED
  BY <1>1, <1>2 DEF OrderInv, LogOrdered, LogCounted, MemoryOrdered, HeldCounted,
     WriterNext, Held, Above

(* Memtables are strictly ordered by seqNo, and what is still to be        *)
(* replayed is newer than all of them: so anything unflushed is above the  *)
(* watermark by which wal.hpp:85-88 deletes segments, after any sequence   *)
(* of writes, deferred rotations, failed flushes, closes and crashes.      *)
THEOREM MemtablesAreOrdered == Spec => []MemtablesOrdered
<1>. DEFINE Inv == TypeInv /\ OrderInv
<1>1. Init => Inv
  BY InitTyped, InitOrdered
<1>2. Inv /\ [Next]_vars => Inv'
  <2>. SUFFICES ASSUME Inv, [Next]_vars PROVE Inv'
    OBVIOUS
  <2>1. TypeInv'
    BY OpenTyped, WriteTyped, FlushTyped, CompactionTyped, StopTyped, StutterTyped DEF Next
  <2>2. CASE Open
    BY <2>2, LoadManifestOrdered, ReplayOrdered, FinishOpenOrdered, <2>1 DEF Open
  <2>3. CASE Write \/ Flush \/ Compaction \/ Stop
    BY <2>1, <2>3, WriteOrdered, FlushOrdered, CompactionOrdered, StopOrdered
  <2>4. CASE UNCHANGED vars
    BY <2>1, <2>4, OrderUntouched DEF vars, walVars, memVars
  <2>. QED
    BY <2>2, <2>3, <2>4 DEF Next
<1>3. Inv => MemtablesOrdered
  <2>. SUFFICES ASSUME Inv PROVE MemtablesOrdered
    OBVIOUS
  <2>1. \A i \in DOMAIN imms : Seqnos(imms[i]) \subseteq QueuedIn(imms)
    BY DEF QueuedIn
  <2>. QED
    BY <2>1 DEF OrderInv, MemoryOrdered, MemtablesOrdered, QueueOrdered, Above, Held
<1>. HIDE DEF Inv
<1>. QED
  BY <1>1, <1>2, <1>3, PTL DEF Spec

-----------------------------------------------------------------------------
(* Entries of memtables, tables and the log.                               *)

IsEntry(e) == e.key \in Keys /\ e.val \in Values \cup {NotFound} /\ e.seq \in Nat

(* A memtable has one entry per key, with the value and seqNo it maps to.  *)
LEMMA EntriesOfMemtable ==
    ASSUME NEW m, IsMemtable(m)
    PROVE  /\ \A e \in Entries(m) : IsEntry(e) /\ e.key \in DOMAIN m
                                    /\ m[e.key].val = e.val /\ m[e.key].seq = e.seq
           /\ \A k \in DOMAIN m : \E e \in Entries(m) :
                 e.key = k /\ e.val = m[k].val /\ e.seq = m[k].seq
           /\ \A e, f \in Entries(m) : e.key = f.key => e = f
           /\ Seqnos(m) = {e.seq : e \in Entries(m)}
<1>1. \A k \in DOMAIN m : k \in Keys /\ m[k] \in Entry
  BY DEF IsMemtable
<1>2. \A e \in Entries(m) : \E k \in DOMAIN m : e = [key |-> k, val |-> m[k].val, seq |-> m[k].seq]
  BY DEF Entries
<1>3. \A e \in Entries(m) : IsEntry(e) /\ e.key \in DOMAIN m
                            /\ m[e.key].val = e.val /\ m[e.key].seq = e.seq
  BY <1>1, <1>2 DEF IsEntry, Entry
<1>4. \A k \in DOMAIN m : \E e \in Entries(m) :
                 e.key = k /\ e.val = m[k].val /\ e.seq = m[k].seq
  <2>. TAKE k \in DOMAIN m
  <2>1. [key |-> k, val |-> m[k].val, seq |-> m[k].seq] \in Entries(m)
    BY DEF Entries
  <2>. QED
    BY <2>1
<1>5. \A e, f \in Entries(m) : e.key = f.key => e = f
  BY <1>2
<1>6. Seqnos(m) = {e.seq : e \in Entries(m)}
  <2>1. \A n \in Seqnos(m) : n \in {e.seq : e \in Entries(m)}
    BY <1>4 DEF Seqnos
  <2>2. \A e \in Entries(m) : e.seq \in Seqnos(m)
    BY <1>3 DEF Seqnos
  <2>. QED
    BY <2>1, <2>2
<1>. QED
  BY <1>3, <1>4, <1>5, <1>6

(* A record applied replaces its key's entry.                              *)
LEMMA EntriesApplied ==
    ASSUME NEW m, IsMemtable(m), NEW r, IsRecord(r)
    PROVE  Entries(Apply(m, r)) = {EntryOf(r)} \cup {e \in Entries(m) : e.key # r.op.key}
<1>. DEFINE a == Apply(m, r)
<1>1. DOMAIN a = DOMAIN m \cup {r.op.key}
  BY DEF Apply
<1>2. \A k \in DOMAIN a : a[k] = IF k = r.op.key THEN [val |-> r.op.val, seq |-> r.seq] ELSE m[k]
  BY DEF Apply
<1>. HIDE DEF a
<1>3. ASSUME NEW e \in Entries(a)
      PROVE  e \in {EntryOf(r)} \cup {f \in Entries(m) : f.key # r.op.key}
  <2>1. PICK k \in DOMAIN a : e = [key |-> k, val |-> a[k].val, seq |-> a[k].seq]
    BY DEF Entries
  <2>2. CASE k = r.op.key
    BY <1>2, <2>1, <2>2 DEF EntryOf
  <2>3. CASE k # r.op.key
    <3>1. k \in DOMAIN m /\ a[k] = m[k]
      BY <1>1, <1>2, <2>3
    <3>. QED
      BY <2>1, <2>3, <3>1 DEF Entries
  <2>. QED
    BY <2>2, <2>3
<1>4. EntryOf(r) \in Entries(a)
  <2>1. r.op.key \in DOMAIN a
    BY <1>1
  <2>2. a[r.op.key] = [val |-> r.op.val, seq |-> r.seq]
    BY <1>2, <2>1
  <2>3. EntryOf(r) = [key |-> r.op.key, val |-> a[r.op.key].val, seq |-> a[r.op.key].seq]
    BY <2>2 DEF EntryOf
  <2>. QED
    BY <2>1, <2>3 DEF Entries
<1>5. ASSUME NEW e \in Entries(m), e.key # r.op.key
      PROVE  e \in Entries(a)
  <2>1. PICK k \in DOMAIN m : e = [key |-> k, val |-> m[k].val, seq |-> m[k].seq]
    BY DEF Entries
  <2>2. k \in DOMAIN a /\ a[k] = m[k]
    BY <1>1, <1>2, <1>5, <2>1
  <2>. QED
    BY <2>1, <2>2 DEF Entries
<1>. QED
  BY <1>3, <1>4, <1>5 DEF a

(* An empty memtable has none.                                             *)
LEMMA EntriesEmpty == Entries(EmptyMemtable) = {}
  BY DEF Entries, EmptyMemtable

(* The entry of a record.                                                  *)
LEMMA EntryOfRecord ==
    ASSUME NEW r, IsRecord(r)
    PROVE  /\ IsEntry(EntryOf(r)) /\ EntryOf(r).key = r.op.key
           /\ EntryOf(r).val = r.op.val /\ EntryOf(r).seq = r.seq
<1>. QED
  BY DEF IsRecord, Mutation, EntryOf, IsEntry

(* All that is known is made of entries.                                   *)
LEMMA KnownTyped ==
    ASSUME TypeOK
    PROVE  /\ \A e \in Known : IsEntry(e)
           /\ \A m \in Memory : IsMemtable(m)
           /\ \A t \in Saved \cup Tables \cup Readable \cup job.out : IsTable(t) /\ IsMemtable(t.data)
<1>1. \A m \in Memory : IsMemtable(m)
  BY DEF TypeOK, AreMemtables, Memory
<1>2. \A t \in Saved \cup Tables \cup Readable \cup job.out : IsTable(t) /\ IsMemtable(t.data)
  BY DEF TypeOK, AreTables, Saved, Tables, Readable, IsTable
<1>3. \A e \in Logged : IsEntry(e)
  BY EntryOfRecord DEF TypeOK, Logged
<1>4. \A e \in InMemory : IsEntry(e)
  BY <1>1, EntriesOfMemtable DEF InMemory
<1>5. \A e \in In(Saved \cup Tables \cup Readable) : IsEntry(e)
  BY <1>2, EntriesOfMemtable DEF In
<1>. QED
  BY <1>1, <1>2, <1>3, <1>4, <1>5 DEF Known

(* A set of naturals below a bound has a greatest element.                 *)
LEMMA GreatestOfNaturals ==
    ASSUME NEW S \in SUBSET Nat, S # {}, NEW N \in Nat, \A n \in S : n <= N
    PROVE  \E n \in S : \A k \in S : k <= n
<1>. DEFINE T == {N - n : n \in S}
<1>1. T \in SUBSET Nat /\ T # {}
  <2>1. \A n \in S : N - n \in Nat
    OBVIOUS
  <2>. QED
    BY <2>1
<1>2. Min(T) \in T /\ \A d \in T : Min(T) <= d
  BY <1>1, LeastOfNaturals
<1>3. PICK n \in S : Min(T) = N - n
  BY <1>2
<1>4. ASSUME NEW k \in S
      PROVE  k <= n
  <2>1. N - n <= N - k
    BY <1>2, <1>3
  <2>. QED
    BY <2>1
<1>. QED
  BY <1>4

(* Of a key that is known there is a newest entry.                         *)
LEMMA NewestExists ==
    ASSUME TypeOK, AllCounted, NEW k, HasKey(Known, k)
    PROVE  \E e \in Known : Newest(e) /\ e.key = k
<1>. DEFINE S == {f.seq : f \in {g \in Known : g.key = k}}
<1>1. S \in SUBSET Nat /\ S # {} /\ lastSeqno \in Nat /\ \A n \in S : n <= lastSeqno
  BY KnownTyped DEF IsEntry, HasKey, AllCounted, TypeOK
<1>2. PICK n \in S : \A h \in S : h <= n
  BY <1>1, GreatestOfNaturals
<1>3. PICK e \in Known : e.key = k /\ e.seq = n
  OBVIOUS
<1>4. \A f \in Known : f.key = k => f.seq <= e.seq
  BY <1>2, <1>3
<1>. QED
  BY <1>3, <1>4 DEF Newest

(* The entries of a table that the manifest or a reader names are known.   *)
LEMMA TablesKnown ==
    /\ \A t \in Saved \cup Tables \cup Readable : Entries(t.data) \subseteq Known
    /\ \A m \in Memory : Entries(m) \subseteq Known
    /\ Recent \subseteq Known
    /\ In(Saved) \subseteq Known /\ In(Tables) \subseteq Known /\ In(Readable) \subseteq Known
  BY DEF Known, In, InMemory, Recent

-----------------------------------------------------------------------------
(* What a restart would recover is the newest entry of each key.           *)

ShowsNewest(view) ==
    /\ \A e \in Known : Newest(e) => view[e.key] = e.val
    /\ \A k \in Keys : ~HasKey(Known, k) => view[k] = NotFound

(* The records of the log first, then the table with the highest          *)
(* max_seqno: both lead to it.                                             *)
LEMMA DurableIsNewest == TypeOK /\ StoreInv => ShowsNewest(DurableView)
<1>. SUFFICES ASSUME TypeOK, StoreInv PROVE ShowsNewest(DurableView)
  OBVIOUS
<1>. DEFINE view(k) ==
        IF LoggedAt(k) # {}
        THEN (CHOOSE r \in LoggedAt(k) : \A q \in LoggedAt(k) : q.seq <= r.seq).op.val
        ELSE IF SavedAt(k) # {}
        THEN (CHOOSE t \in SavedAt(k) : \A q \in SavedAt(k) : q.hi <= t.hi).data[k].val
        ELSE NotFound
<1>1. \A k \in Keys : DurableView[k] = view(k)
  BY DEF DurableView
<1>. HIDE DEF view
<1>2. /\ OneEntryPerSeqno /\ AllCounted /\ LogIsNewestPart /\ NewerHides(Saved)
      /\ Keeps(Saved) /\ \A t \in Saved : IsRight(t)
      /\ \A e \in Known : IsEntry(e)
  BY KnownTyped DEF StoreInv, LogInv, CoverInv, KeepInv
<1>3. \A r \in recs : IsEntry(EntryOf(r)) /\ EntryOf(r).key = r.op.key
                      /\ EntryOf(r).val = r.op.val /\ EntryOf(r).seq = r.seq
                      /\ EntryOf(r) \in Logged /\ EntryOf(r) \in Known
  BY EntryOfRecord DEF TypeOK, Logged, Known
<1>4. \A t \in Saved : IsTable(t) /\ IsMemtable(t.data) /\ Entries(t.data) \subseteq Known
  BY KnownTyped, TablesKnown
<1>5. ASSUME NEW k
      PROVE  /\ LoggedAt(k) # {} <=> HasKey(Logged, k)
             /\ SavedAt(k) # {} <=> HasKey(In(Saved), k)
  <2>1. LoggedAt(k) # {} <=> HasKey(Logged, k)
    BY <1>3 DEF LoggedAt, HasKey, Logged
  <2>2. \A t \in Saved : k \in DOMAIN t.data <=> HasKey(Entries(t.data), k)
    BY <1>4, EntriesOfMemtable DEF HasKey
  <2>3. SavedAt(k) # {} <=> HasKey(In(Saved), k)
    BY <2>2 DEF SavedAt, Saved, HasKey, In
  <2>. QED
    BY <2>1, <2>3
<1>6. ASSUME NEW e \in Known, Newest(e), HasKey(Logged, e.key)
      PROVE  view(e.key) = e.val
  <2>1. e \in Logged
    <3>1. PICK f \in Logged : f.key = e.key
      BY <1>6 DEF HasKey
    <3>2. f \in Known /\ f.seq <= e.seq
      BY <1>6, <3>1 DEF Newest, Known
    <3>. QED
      BY <1>2, <3>1, <3>2 DEF LogIsNewestPart, IsEntry
  <2>2. PICK q \in recs : e = EntryOf(q)
    BY <2>1 DEF Logged
  <2>3. q \in LoggedAt(e.key) /\ \A p \in LoggedAt(e.key) : p.seq <= q.seq
    BY <1>3, <1>6, <2>2 DEF LoggedAt, Newest
  <2>. DEFINE r == CHOOSE r \in LoggedAt(e.key) : \A p \in LoggedAt(e.key) : p.seq <= r.seq
  <2>4. r \in LoggedAt(e.key) /\ q.seq <= r.seq
    BY <2>3
  <2>. HIDE DEF r
  <2>5. r \in recs /\ r.seq = q.seq
    BY <1>3, <2>2, <2>3, <2>4 DEF LoggedAt, IsEntry
  <2>6. EntryOf(r) = e
    BY <1>2, <1>3, <2>2, <2>5 DEF OneEntryPerSeqno
  <2>7. view(e.key) = r.op.val
    BY <1>5, <1>6 DEF view, r
  <2>. QED
    BY <1>3, <2>5, <2>6, <2>7
<1>7. ASSUME NEW e \in Known, Newest(e), ~HasKey(Logged, e.key)
      PROVE  view(e.key) = e.val
  <2>1. CASE e.val = NotFound /\ ~HasKey(In(Saved), e.key)
    BY <1>5, <1>7, <2>1 DEF view
  <2>2. CASE e \in In(Saved)
    <3>. DEFINE k == e.key
                best(t) == \A q \in SavedAt(k) : q.hi <= t.hi
                t == CHOOSE t \in SavedAt(k) : best(t)
    <3>1. PICK u \in Saved : e \in Entries(u.data)
      BY <2>2 DEF In
    <3>2. u \in SavedAt(k)
      BY <1>4, <3>1, EntriesOfMemtable DEF SavedAt, Saved
    <3>3. \E h \in SavedAt(k) : best(h)
      <4>. DEFINE H == {q.hi : q \in SavedAt(k)}
      <4>1. \A q \in SavedAt(k) : q \in Saved
        BY DEF SavedAt, Saved
      <4>2. \A q \in SavedAt(k) : q.hi \in Nat /\ q.hi <= lastSeqno
        BY <1>2, <1>4, <4>1 DEF IsTable, IsRight, AllCounted
      <4>3. H \in SUBSET Nat /\ H # {} /\ lastSeqno \in Nat /\ \A n \in H : n <= lastSeqno
        BY <3>2, <4>2 DEF TypeOK
      <4>4. \E n \in H : \A x \in H : x <= n
        BY <4>3, GreatestOfNaturals
      <4>. QED
        BY <4>4
    <3>4. t \in SavedAt(k) /\ u.hi <= t.hi
      <4>1. t \in SavedAt(k) /\ best(t)
        BY <3>3
      <4>. QED
        BY <3>2, <4>1
    <3>. HIDE DEF t
    <3>5. t \in Saved /\ k \in DOMAIN t.data
      BY <3>4 DEF SavedAt, Saved
    <3>6. PICK f \in Entries(t.data) : f.key = k /\ f.val = t.data[k].val
      BY <1>4, <3>5, EntriesOfMemtable
    <3>7. f.seq >= e.seq
      <4>1. t.hi \in Nat /\ u.hi \in Nat
        BY <1>4, <3>1, <3>5 DEF IsTable
      <4>. QED
        BY <1>2, <3>1, <3>4, <3>5, <3>6, <4>1 DEF NewerHides
    <3>8. f \in Known /\ f = e
      <4>1. f \in Known
        BY <1>4, <3>5, <3>6
      <4>2. f.seq <= e.seq
        BY <1>7, <3>6, <4>1 DEF Newest
      <4>. QED
        BY <1>2, <3>7, <4>1, <4>2 DEF OneEntryPerSeqno, IsEntry
    <3>9. view(k) = t.data[k].val
      BY <1>5, <1>7, <3>4 DEF view, t
    <3>. QED
      BY <3>6, <3>8, <3>9
  <2>. QED
    BY <1>2, <1>7, <2>1, <2>2 DEF Keeps
<1>8. ASSUME NEW k \in Keys, ~HasKey(Known, k)
      PROVE  view(k) = NotFound
  <2>1. ~HasKey(Logged, k) /\ ~HasKey(In(Saved), k)
    BY <1>8, TablesKnown DEF HasKey, Recent
  <2>. QED
    BY <1>5, <2>1 DEF view
<1>. QED
  <2>1. \A e \in Known : e.key \in Keys
    BY <1>2 DEF IsEntry
  <2>. QED
    BY <1>1, <1>6, <1>7, <1>8, <2>1 DEF ShowsNewest

-----------------------------------------------------------------------------
(* What a get finds is the newest entry of the key.                        *)

(* The maps a get looks through, in its order.                             *)
Looked == <<active>> \o imms \o Data(readers)

(* The places of three parts in a row.                                     *)
LEMMA ThreeParts ==
    ASSUME NEW A, NEW x \in A, NEW q \in Seq(A), NEW d \in Seq(A),
           NEW s, s = <<x>> \o q \o d
    PROVE  /\ DOMAIN s = 1 .. 1 + Len(q) + Len(d)
           /\ s[1] = x
           /\ \A i \in 1 .. Len(q) : s[1 + i] = q[i]
           /\ \A i \in 1 .. Len(d) : s[1 + Len(q) + i] = d[i]
<1>1. Len(q) \in Nat /\ Len(d) \in Nat /\ <<x>> \in Seq(A) /\ Len(<<x>>) = 1 /\ <<x>>[1] = x
  BY LenProperties
<1>2. PICK p : p = <<x>> \o q
  OBVIOUS
<1>3. /\ p \in Seq(A) /\ Len(p) = 1 + Len(q)
      /\ \A i \in 1 .. 1 + Len(q) : p[i] = IF i <= 1 THEN <<x>>[i] ELSE q[i - 1]
  BY <1>1, <1>2, ConcatProperties
<1>4. s = p \o d
  BY <1>2
<1>5. /\ s \in Seq(A) /\ Len(s) = 1 + Len(q) + Len(d)
      /\ \A i \in 1 .. 1 + Len(q) + Len(d) :
            s[i] = IF i <= 1 + Len(q) THEN p[i] ELSE d[i - (1 + Len(q))]
  <2>1. /\ p \o d \in Seq(A) /\ Len(p \o d) = Len(p) + Len(d)
        /\ \A i \in 1 .. Len(p) + Len(d) :
              (p \o d)[i] = IF i <= Len(p) THEN p[i] ELSE d[i - Len(p)]
    BY <1>3, ConcatProperties
  <2>. QED
    BY <1>3, <1>4, <2>1
<1>6. DOMAIN s = 1 .. 1 + Len(q) + Len(d)
  BY <1>5, LenProperties
<1>7. s[1] = x
  <2>1. 1 \in 1 .. 1 + Len(q) + Len(d) /\ 1 <= 1 + Len(q) /\ 1 \in 1 .. 1 + Len(q)
    BY <1>1
  <2>. QED
    BY <1>1, <1>3, <1>5, <2>1
<1>8. ASSUME NEW i \in 1 .. Len(q)
      PROVE  s[1 + i] = q[i]
  <2>1. /\ 1 + i \in 1 .. 1 + Len(q) + Len(d) /\ 1 + i <= 1 + Len(q)
        /\ 1 + i \in 1 .. 1 + Len(q) /\ ~(1 + i <= 1) /\ (1 + i) - 1 = i
    BY <1>1
  <2>. QED
    BY <1>3, <1>5, <2>1
<1>9. ASSUME NEW i \in 1 .. Len(d)
      PROVE  s[1 + Len(q) + i] = d[i]
  <2>1. /\ 1 + Len(q) + i \in 1 .. 1 + Len(q) + Len(d) /\ ~(1 + Len(q) + i <= 1 + Len(q))
        /\ (1 + Len(q) + i) - (1 + Len(q)) = i
    BY <1>1
  <2>. QED
    BY <1>5, <2>1
<1>. QED
  BY <1>2, <1>4, <1>6, <1>7, <1>8, <1>9

(* Where the memtables and the readers are among them.                     *)
LEMMA LookedAt ==
    ASSUME TypeOK
    PROVE  /\ Len(imms) \in Nat /\ Len(readers) \in Nat
           /\ DOMAIN imms = 1 .. Len(imms) /\ DOMAIN readers = 1 .. Len(readers)
           /\ DOMAIN Looked = 1 .. 1 + Len(imms) + Len(readers)
           /\ Looked[1] = active
           /\ \A i \in 1 .. Len(imms) : Looked[1 + i] = imms[i]
           /\ \A i \in 1 .. Len(readers) : Looked[1 + Len(imms) + i] = readers[i].data
<1>. DEFINE A == {active} \cup Range(imms) \cup {t.data : t \in Readable}
<1>1. active \in A /\ imms \in Seq(A)
  BY SeqMonotonic DEF TypeOK, AreMemtables
<1>2. Len(imms) \in Nat /\ DOMAIN imms = 1 .. Len(imms)
  BY SequenceOfItsRange DEF TypeOK, AreMemtables
<1>3. /\ Len(readers) \in Nat /\ DOMAIN readers = 1 .. Len(readers)
      /\ \A i \in 1 .. Len(readers) : readers[i] \in Readable
  BY SequenceOfItsRange DEF TypeOK, AreTables, Readable
<1>4. PICK d : d = Data(readers)
  OBVIOUS
<1>5. /\ d \in [1 .. Len(readers) -> A]
      /\ \A i \in 1 .. Len(readers) : d[i] = readers[i].data
  BY <1>3, <1>4 DEF Data
<1>6. d \in Seq(A) /\ Len(d) = Len(readers)
  BY <1>3, <1>5, LenProperties
<1>7. Looked = <<active>> \o imms \o d
  BY <1>4 DEF Looked
<1>. HIDE DEF A
<1>8. /\ DOMAIN Looked = 1 .. 1 + Len(imms) + Len(d) /\ Looked[1] = active
      /\ \A i \in 1 .. Len(imms) : Looked[1 + i] = imms[i]
      /\ \A i \in 1 .. Len(d) : Looked[1 + Len(imms) + i] = d[i]
  <2>. HIDE DEF Looked
  <2>1. PICK q : q = imms
    OBVIOUS
  <2>2. q \in Seq(A) /\ Looked = <<active>> \o q \o d
    BY <1>1, <1>7, <2>1
  <2>3. /\ DOMAIN Looked = 1 .. 1 + Len(q) + Len(d) /\ Looked[1] = active
        /\ \A i \in 1 .. Len(q) : Looked[1 + i] = q[i]
        /\ \A i \in 1 .. Len(d) : Looked[1 + Len(q) + i] = d[i]
    <3>1. PICK x, s : x = active /\ s = Looked
      OBVIOUS
    <3>2. x \in A /\ q \in Seq(A) /\ d \in Seq(A) /\ s = <<x>> \o q \o d
      BY <1>1, <1>6, <2>2, <3>1
    <3>3. DOMAIN s = 1 .. 1 + Len(q) + Len(d)
      BY ONLY <3>2, ThreeParts
    <3>4. s[1] = x
      BY ONLY <3>2, ThreeParts
    <3>5. \A i \in 1 .. Len(q) : s[1 + i] = q[i]
      BY ONLY <3>2, ThreeParts
    <3>6. \A i \in 1 .. Len(d) : s[1 + Len(q) + i] = d[i]
      BY ONLY <3>2, ThreeParts
    <3>. QED
      BY <3>1, <3>3, <3>4, <3>5, <3>6
  <2>. QED
    BY <2>1, <2>3
<1>. QED
  BY <1>2, <1>3, <1>5, <1>6, <1>8

(* The memtables in that order are ordered by seqNo.                       *)
LEMMA MemoryLayers ==
    ASSUME TypeOK, MemoryOrdered
    PROVE  \A i, j \in 1 .. 1 + Len(imms) : i < j =>
              \A e \in Entries(Looked[i]), f \in Entries(Looked[j]) : e.seq > f.seq
<1>. SUFFICES ASSUME NEW i \in 1 .. 1 + Len(imms), NEW j \in 1 .. 1 + Len(imms), i < j,
                     NEW e \in Entries(Looked[i]), NEW f \in Entries(Looked[j])
              PROVE  e.seq > f.seq
  OBVIOUS
<1>1. Len(imms) \in Nat /\ DOMAIN imms = 1 .. Len(imms) /\ \A h \in 1 .. Len(imms) : IsMemtable(imms[h])
  BY SequenceOfItsRange DEF TypeOK, AreMemtables
<1>2. j - 1 \in 1 .. Len(imms) /\ Looked[j] = imms[j - 1]
  <2>1. j - 1 \in 1 .. Len(imms) /\ 1 + (j - 1) = j
    BY <1>1
  <2>. QED
    BY <2>1, LookedAt
<1>3. f.seq \in Seqnos(imms[j - 1])
  BY <1>1, <1>2, EntriesOfMemtable
<1>4. CASE i = 1
  <2>1. e.seq \in Seqnos(active)
    BY <1>4, LookedAt, EntriesOfMemtable DEF TypeOK
  <2>. QED
    BY <1>1, <1>2, <1>3, <2>1 DEF MemoryOrdered, Above, QueuedIn
<1>5. CASE i # 1
  <2>1. i - 1 \in 1 .. Len(imms) /\ 1 + (i - 1) = i /\ i - 1 < j - 1
    BY <1>1, <1>5
  <2>2. Looked[i] = imms[i - 1]
    BY <2>1, LookedAt
  <2>3. e.seq \in Seqnos(imms[i - 1])
    BY <1>1, <2>1, <2>2, EntriesOfMemtable
  <2>. QED
    BY <1>1, <1>2, <1>3, <2>1, <2>3 DEF MemoryOrdered, QueueOrdered
<1>. QED
  BY <1>4, <1>5

(* The memtables come first, all of them and nothing else.                 *)
LEMMA MemoryLooked ==
    ASSUME TypeOK
    PROVE  /\ \A i \in 1 .. 1 + Len(imms) : Looked[i] \in Memory
           /\ \A m \in Memory : \E i \in 1 .. 1 + Len(imms) : m = Looked[i]
<1>1. /\ Len(imms) \in Nat
      /\ \A h \in 1 .. Len(imms) : imms[h] \in Range(imms)
      /\ \A m \in Range(imms) : \E h \in 1 .. Len(imms) : m = imms[h]
  BY SequenceOfItsRange DEF TypeOK, AreMemtables
<1>2. ASSUME NEW i \in 1 .. 1 + Len(imms)
      PROVE  Looked[i] \in Memory
  <2>1. CASE i = 1
    BY <2>1, LookedAt DEF Memory
  <2>2. CASE i # 1
    <3>1. i - 1 \in 1 .. Len(imms) /\ 1 + (i - 1) = i
      BY <1>1, <2>2
    <3>. QED
      BY <1>1, <3>1, LookedAt DEF Memory
  <2>. QED
    BY <2>1, <2>2
<1>3. ASSUME NEW m \in Memory
      PROVE  \E i \in 1 .. 1 + Len(imms) : m = Looked[i]
  <2>1. CASE m = active
    <3>1. 1 \in 1 .. 1 + Len(imms)
      BY <1>1
    <3>. QED
      BY <2>1, <3>1, LookedAt
  <2>2. CASE m \in Range(imms)
    <3>1. PICK h \in 1 .. Len(imms) : m = imms[h]
      BY <1>1, <2>2
    <3>2. 1 + h \in 1 .. 1 + Len(imms)
      BY <1>1
    <3>. QED
      BY <3>1, <3>2, LookedAt
  <2>. QED
    BY <2>1, <2>2 DEF Memory
<1>. QED
  BY <1>2, <1>3

(* A get finds the newest entry of each key.                               *)
LEMMA LiveIsNewest ==
    ASSUME TypeOK, MemoryOrdered, StoreInv, Up, Pending = {}
    PROVE  ShowsNewest(LiveView)
<1>. DEFINE Holders(k) == {i \in DOMAIN Looked : k \in DOMAIN Looked[i]}
            L == 1 + Len(imms)
<1>1. /\ \A e \in Known : IsEntry(e)
      /\ \A m \in Memory : IsMemtable(m)
      /\ \A t \in Readable : IsMemtable(t.data)
  BY KnownTyped
<1>2. /\ DOMAIN Looked = 1 .. L + Len(readers) /\ L \in Nat /\ Len(readers) \in Nat
      /\ \A i \in 1 .. Len(readers) : Looked[L + i] = readers[i].data /\ readers[i] \in Readable
      /\ DOMAIN readers = 1 .. Len(readers)
  <2>1. /\ Len(imms) \in Nat /\ Len(readers) \in Nat
        /\ DOMAIN readers = 1 .. Len(readers)
        /\ DOMAIN Looked = 1 .. 1 + Len(imms) + Len(readers)
        /\ \A i \in 1 .. Len(readers) : Looked[1 + Len(imms) + i] = readers[i].data
    BY LookedAt
  <2>2. \A i \in 1 .. Len(readers) : readers[i] \in Readable
    BY SequenceOfItsRange DEF TypeOK, AreTables, Readable
  <2>. QED
    BY <2>1, <2>2
<1>. HIDE DEF L
<1>3. ASSUME NEW i \in DOMAIN Looked
      PROVE  /\ IsMemtable(Looked[i]) /\ Entries(Looked[i]) \subseteq Known
             /\ i <= L => Looked[i] \in Memory
             /\ ~(i <= L) => i - L \in 1 .. Len(readers) /\ Looked[i] = readers[i - L].data
  <2>1. CASE i <= L
    <3>1. Looked[i] \in Memory
      BY <1>2, <2>1, MemoryLooked DEF L
    <3>. QED
      BY <1>1, <2>1, <3>1, TablesKnown
  <2>2. CASE ~(i <= L)
    <3>1. i - L \in 1 .. Len(readers) /\ L + (i - L) = i
      BY <1>2, <2>2
    <3>2. Looked[i] = readers[i - L].data /\ readers[i - L] \in Readable
      BY <1>2, <3>1
    <3>. QED
      BY <1>1, <2>2, <3>1, <3>2, TablesKnown
  <2>. QED
    BY <2>1, <2>2
<1>4. \A k \in Keys : LiveView[k] = IF Holders(k) # {} THEN Looked[FirstHolder(Looked, k)][k].val ELSE NotFound
  BY DEF LiveView, Lookup, Looked
<1>5. ASSUME NEW k, Holders(k) # {}
      PROVE  /\ FirstHolder(Looked, k) \in Holders(k)
             /\ \A i \in Holders(k) : FirstHolder(Looked, k) <= i
  <2>1. Holders(k) \in SUBSET Nat
    BY <1>2
  <2>. QED
    BY <1>5, <2>1, LeastOfNaturals DEF FirstHolder
<1>6. ASSUME NEW k, NEW i \in DOMAIN Looked
      PROVE  i \in Holders(k) <=> HasKey(Entries(Looked[i]), k)
  BY <1>3, EntriesOfMemtable DEF HasKey
<1>. HIDE DEF Holders
<1>7. ASSUME NEW k \in Keys, ~HasKey(Known, k)
      PROVE  LiveView[k] = NotFound
  <2>1. Holders(k) = {}
    <3>. SUFFICES ASSUME NEW i \in Holders(k) PROVE FALSE
      OBVIOUS
    <3>1. i \in DOMAIN Looked
      BY DEF Holders
    <3>. QED
      BY <1>3, <1>6, <1>7, <3>1 DEF HasKey
  <2>. QED
    BY <1>4, <2>1
<1>8. ASSUME NEW e \in Known, Newest(e)
      PROVE  LiveView[e.key] = e.val
  <2>. DEFINE k == e.key
              i == FirstHolder(Looked, k)
  <2>1. ASSUME NEW f \in Known, f.key = k, f.seq >= e.seq
        PROVE  f = e
    <3>1. f.seq <= e.seq
      BY <1>8, <2>1 DEF Newest
    <3>. QED
      BY <1>1, <2>1, <3>1 DEF StoreInv, LogInv, OneEntryPerSeqno, IsEntry
  <2>2. SUFFICES /\ i \in Holders(k)
                 /\ e \in Entries(Looked[i])
    <3>1. i \in DOMAIN Looked /\ Holders(k) # {}
      BY <2>2 DEF Holders
    <3>2. Looked[i][k].val = e.val
      BY <1>3, <2>2, <3>1, EntriesOfMemtable
    <3>3. k \in Keys
      BY <1>1 DEF IsEntry
    <3>. QED
      BY <1>4, <3>1, <3>2, <3>3
  <2>3. CASE HasKey(InMemory, k)
    <3>1. PICK f \in InMemory : f.key = k /\ f.seq >= e.seq
      BY <2>3 DEF StoreInv, ReadInv, MemoryFirst, Later
    <3>2. PICK m \in Memory : f \in Entries(m)
      BY <3>1 DEF InMemory
    <3>3. f = e
      BY <2>1, <3>1, <3>2, TablesKnown
    <3>4. PICK j \in 1 .. L : m = Looked[j]
      BY MemoryLooked DEF L
    <3>5. j \in DOMAIN Looked /\ j <= L
      BY <1>2
    <3>6. j \in Holders(k)
      BY <1>6, <3>2, <3>3, <3>4, <3>5 DEF HasKey
    <3>7. i \in Holders(k) /\ i <= j /\ i \in DOMAIN Looked
      BY <1>5, <3>6 DEF Holders
    <3>8. CASE i = j
      BY <3>2, <3>3, <3>4, <3>7, <3>8
    <3>9. CASE i # j
      <4>1. i \in 1 .. L /\ i < j
        BY <1>2, <3>4, <3>7, <3>9
      <4>2. PICK g \in Entries(Looked[i]) : g.key = k
        BY <1>6, <3>7 DEF HasKey
      <4>3. g.seq > e.seq
        BY <3>2, <3>3, <3>4, <4>1, <4>2, MemoryLayers DEF L
      <4>4. g \in Known /\ g.seq <= e.seq
        BY <1>3, <1>8, <3>7, <4>2 DEF Newest
      <4>. QED
        BY <1>1, <4>3, <4>4 DEF IsEntry
    <3>. QED
      BY <3>8, <3>9
  <2>4. CASE ~HasKey(InMemory, k)
    <3>1. PICK p \in DOMAIN readers :
             /\ Later(Entries(readers[p].data), e)
             /\ \A h \in 1 .. p - 1 : ~HasKey(Entries(readers[h].data), k)
      BY <2>4 DEF StoreInv, ReadInv, ReadersFirst
    <3>2. PICK f \in Entries(readers[p].data) : f.key = k /\ f.seq >= e.seq
      BY <3>1 DEF Later
    <3>3. L + p \in DOMAIN Looked /\ Looked[L + p] = readers[p].data
      BY <1>2
    <3>4. f = e
      BY <1>3, <2>1, <3>2, <3>3
    <3>5. L + p \in Holders(k)
      BY <1>6, <3>2, <3>3 DEF HasKey
    <3>6. i \in Holders(k) /\ i <= L + p /\ i \in DOMAIN Looked
      BY <1>5, <3>5 DEF Holders
    <3>7. HasKey(Entries(Looked[i]), k)
      BY <1>6, <3>6
    <3>8. ~(i <= L)
      <4>1. ASSUME i <= L PROVE FALSE
        <5>1. Looked[i] \in Memory
          BY <1>3, <3>6, <4>1
        <5>. QED
          BY <2>4, <3>7, <5>1 DEF HasKey, InMemory
      <4>. QED
        BY <4>1
    <3>9. i - L \in 1 .. Len(readers) /\ Looked[i] = readers[i - L].data
      BY <1>3, <3>6, <3>8
    <3>10. ~(i - L \in 1 .. p - 1)
      BY <3>1, <3>7, <3>9
    <3>11. i = L + p
      BY <1>2, <3>6, <3>9, <3>10
    <3>. QED
      BY <3>2, <3>3, <3>4, <3>6, <3>11
  <2>. QED
    BY <2>3, <2>4
<1>. QED
  BY <1>7, <1>8 DEF ShowsNewest

(* So a get sees what a restart would recover.                             *)
LEMMA ViewsAgree ==
    ASSUME TypeInv, MemoryOrdered, StoreInv
    PROVE  ReadsAreDurable
<1>. SUFFICES ASSUME phase \in Live, writer.pc # "logged"
              PROVE  LiveView = DurableView
  BY DEF ReadsAreDurable
<1>1. TypeOK /\ Up /\ Pending = {}
  BY DEF TypeInv, Quiet, Live, Up, Pending, UnderWay
<1>2. \A k \in Keys : LiveView[k] = DurableView[k]
  <2>. TAKE k \in Keys
  <2>1. CASE HasKey(Known, k)
    <3>1. PICK e \in Known : Newest(e) /\ e.key = k
      BY <1>1, <2>1, NewestExists DEF StoreInv, LogInv
    <3>. QED
      BY <1>1, <3>1, LiveIsNewest, DurableIsNewest DEF ShowsNewest
  <2>2. CASE ~HasKey(Known, k)
    BY <1>1, <2>2, LiveIsNewest, DurableIsNewest DEF ShowsNewest
  <2>. QED
    BY <2>1, <2>2
<1>. QED
  BY <1>2 DEF LiveView, DurableView

-----------------------------------------------------------------------------
(* When a step leaves the store alone: nothing new is known, and the       *)
(* newest entry of a key stays known, or was a delete marker and nothing   *)
(* is known of the key any more.                                           *)
SameStore ==
    /\ Known' \subseteq Known
    /\ \A e \in Known : Newest(e) =>
          \/ e \in Known'
          \/ e.val = NotFound /\ ~HasKey(Known', e.key)

(* What is newest afterwards was newest before.                            *)
LEMMA NewestBefore ==
    ASSUME TypeOK, LogInv, SameStore, NEW e, Newest(e)'
    PROVE  Newest(e)
<1>1. e \in Known' /\ e \in Known /\ \A f \in Known' : f.key = e.key => f.seq <= e.seq
  BY DEF Newest, SameStore
<1>2. PICK f \in Known : Newest(f) /\ f.key = e.key
  BY <1>1, NewestExists DEF HasKey, LogInv
<1>3. f \in Known'
  BY <1>1, <1>2 DEF SameStore, HasKey
<1>4. f.seq <= e.seq /\ e.seq <= f.seq
  BY <1>1, <1>2, <1>3 DEF Newest
<1>5. e = f
  BY <1>1, <1>4, KnownTyped DEF LogInv, OneEntryPerSeqno, IsEntry
<1>. QED
  BY <1>2, <1>5

(* Then what a restart would recover is the same before and after.         *)
LEMMA StoreIsSame ==
    ASSUME TypeOK, StoreInv, TypeOK', StoreInv', SameStore
    PROVE  DurableView' = DurableView
<1>1. ShowsNewest(DurableView)
  BY DurableIsNewest
<1>2. ShowsNewest(DurableView)'
  BY DurableIsNewest, PTL
<1>3. \A k \in Keys : DurableView'[k] = DurableView[k]
  <2>. TAKE k \in Keys
  <2>1. CASE HasKey(Known, k)
    <3>1. PICK e \in Known : Newest(e) /\ e.key = k
      BY <2>1, NewestExists DEF StoreInv, LogInv
    <3>2. DurableView[k] = e.val
      BY <1>1, <3>1 DEF ShowsNewest
    <3>3. CASE e \in Known'
      <4>1. Newest(e)'
        BY <3>1, <3>3 DEF Newest, SameStore
      <4>. QED
        BY <1>2, <3>1, <3>2, <3>3, <4>1 DEF ShowsNewest
    <3>4. CASE e.val = NotFound /\ ~HasKey(Known', k)
      BY <1>2, <3>2, <3>4 DEF ShowsNewest
    <3>. QED
      BY <3>1, <3>3, <3>4 DEF SameStore
  <2>2. CASE ~HasKey(Known, k)
    <3>1. ~HasKey(Known', k)
      BY <2>2 DEF SameStore, HasKey
    <3>. QED
      BY <1>1, <1>2, <2>2, <3>1 DEF ShowsNewest
  <2>. QED
    BY <2>1, <2>2
<1>. QED
  BY <1>3 DEF DurableView

-----------------------------------------------------------------------------
(* What most steps do: they touch neither the log nor the memtables nor    *)
(* the lists of tables.                                                    *)

(* They keep the invariant if the job that they start keeps it.            *)
LEMMA StoreUntouched ==
    ASSUME StoreInv,
           UNCHANGED <<recs, activeSeg, lastSeqno, dman, man, readers, active, imms, todo>>,
           writer' = writer \/ (writer.pc # "logged" /\ writer'.pc # "logged"),
           phase' = phase \/ (Up /\ Up'),
           LogIsOpen', \A t \in job'.out : IsRight(t), JobInv'
    PROVE  StoreInv' /\ SameStore
<1>1. /\ Logged' = Logged /\ Memory' = Memory /\ InMemory' = InMemory
      /\ Saved' = Saved /\ Tables' = Tables /\ Readable' = Readable
      /\ Known' = Known /\ Recent' = Recent
      /\ UnderWay' = UnderWay /\ Pending' = Pending
  BY DEF Logged, Memory, InMemory, Saved, Tables, Readable, Known, Recent, UnderWay, Pending
<1>2. \A e : Newest(e)' <=> Newest(e)
  BY <1>1 DEF Newest
<1>3. LogInv'
  BY <1>1 DEF StoreInv, LogInv, OneEntryPerSeqno, AllCounted, LogIsNewestPart, WriterIsLogged
<1>4. CoverInv'
  BY <1>1 DEF StoreInv, CoverInv, NewerHides, FlushedBelow, UniqueIds
<1>5. KeepInv'
  BY <1>1, <1>2 DEF StoreInv, KeepInv, Keeps, MemoryIsSafe, Up
<1>6. PlaceInv'
  BY <1>1 DEF StoreInv, PlaceInv, Placed, InPlace, BehindMemory, Up
<1>7. ReplayInv'
  BY <1>1 DEF StoreInv, ReplayInv, InPlace, Up
<1>8. ReadInv'
  BY <1>1 DEF StoreInv, ReadInv, MemoryFirst, ReadersFirst, MemtablesCurrent, Up
<1>9. SameStore
  BY <1>1 DEF SameStore
<1>. QED
  BY <1>3, <1>4, <1>5, <1>6, <1>7, <1>8, <1>9 DEF StoreInv

(* The job goes on as it was.                                              *)
LEMMA WindowUntouched ==
    ASSUME CompactsWindow, UNCHANGED <<man, nextId, job>>
    PROVE  CompactsWindow'
<1>1. \A i, j : Window(i, j)' = Window(i, j)
  BY DEF Window
<1>2. \A i, j : Ids(Window(i, j))' = Ids(Window(i, j))
  BY <1>1 DEF Ids
<1>3. ASSUME NEW i, NEW j, NEW aged
      PROVE  Kept(Window(i, j), aged)' = Kept(Window(i, j), aged)
  <2>1. Window(i, j)' = Window(i, j)
    BY <1>1
  <2>. QED
    BY <2>1 DEF Kept, Merged, IsAged, NothingOlderOutside
<1>4. \A i, j, aged : TablesOf(nextId, Kept(Window(i, j), aged))'
                       = TablesOf(nextId, Kept(Window(i, j), aged))
  BY <1>3 DEF TablesOf
<1>. QED
  BY <1>2, <1>4 DEF CompactsWindow

(* So the invariant of the jobs holds on.                                  *)
LEMMA JobUntouched ==
    ASSUME JobInv, UNCHANGED <<dman, man, nextId, imms, job>>
    PROVE  JobInv'
<1>1. Saved' = Saved /\ Tables' = Tables
  BY DEF Saved, Tables
<1>2. FlushesOldest' /\ CleansAfterSave'
  BY <1>1 DEF JobInv, FlushesOldest, CleansAfterSave
<1>. QED
  BY <1>2, WindowUntouched DEF JobInv

(* There is no job.                                                        *)
LEMMA NoJobLeft ==
    ASSUME job'.pc \in {"idle", "delete"}
    PROVE  JobInv'
<1>. QED
  BY DEF JobInv, FlushesOldest, CleansAfterSave, CompactsWindow

-----------------------------------------------------------------------------
(* The metadata of a table written is right.                               *)
LEMMA WrittenIsRight ==
    ASSUME NEW id, NEW m, IsMemtable(m), NEW t \in TablesOf(id, m)
    PROVE  IsRight(t) /\ t.data = m /\ t.id = id
<1>1. /\ t.id = id /\ t.data = m /\ t.lo \in Seqnos(m) /\ t.hi \in Seqnos(m)
      /\ \A n \in Seqnos(m) : t.lo <= n /\ n <= t.hi
  BY DEF TablesOf
<1>. QED
  BY <1>1, EntriesOfMemtable DEF IsRight

(* The oldest memtable of the queue is one.                                *)
LEMMA LastIsMemtable ==
    ASSUME TypeOK, imms # <<>>
    PROVE  Last(imms) \in Range(imms) /\ IsMemtable(Last(imms))
<1>1. Len(imms) # 0 /\ Len(imms) \in Nat
  BY EmptySeq DEF AreMemtables, TypeOK
<1>. QED
  BY <1>1, SequenceOfItsRange DEF Last, AreMemtables, TypeOK

-----------------------------------------------------------------------------
(* Steps of the writer that only move it.                                  *)
LEMMA WriterMoves ==
    ASSUME StoreInv, OrderInv,
           BeginWrite \/ BlockWriter \/ WakeWriter \/ RefuseWrite \/ ReturnFromWrite
    PROVE  StoreInv' /\ SameStore
<1>1. UNCHANGED <<recs, activeSeg, lastSeqno, isOpen, dman, man, nextId, readers, active, imms,
                  todo, phase, job>>
  BY DEF BeginWrite, BlockWriter, WakeWriter, RefuseWrite, ReturnFromWrite,
     walVars, diskVars, tableVars, memVars
<1>2. writer.pc # "logged" /\ writer'.pc # "logged"
  BY DEF BeginWrite, BlockWriter, WakeWriter, RefuseWrite, ReturnFromWrite, Idle
<1>3. LogIsOpen' /\ JobInv' /\ \A t \in job'.out : IsRight(t)
  BY <1>1, JobUntouched DEF StoreInv, LogInv, LogIsOpen, CoverInv
<1>. QED
  BY <1>1, <1>2, <1>3, StoreUntouched

(* A table is written, or is not.                                          *)
LEMMA FlushStarts ==
    ASSUME TypeInv, StoreInv, FlushWrite \/ FlushWriteFails
    PROVE  StoreInv' /\ SameStore
<1>1. /\ UNCHANGED <<recs, activeSeg, lastSeqno, isOpen, dman, man, nextId, readers, active, imms,
                     todo>>
      /\ imms # <<>> /\ phase \in Live
  BY DEF FlushWrite, FlushWriteFails, WorkersUp, walVars, diskVars, tableVars, memVars
<1>2. /\ writer' = writer \/ (writer.pc # "logged" /\ writer'.pc # "logged")
      /\ phase' = phase \/ phase' = "stopping"
  BY DEF FlushWrite, FlushWriteFails, DrainAbandoned, WriterNotified, Idle
<1>3. LogIsOpen' /\ (phase' = phase \/ (Up /\ Up'))
  BY <1>1, <1>2 DEF StoreInv, LogInv, LogIsOpen, Live, Up
<1>4. JobInv' /\ \A t \in job'.out : IsRight(t)
  <2>1. CASE FlushWrite
    <3>1. job'.pc = "flush" /\ job'.out = TablesOf(nextId, Last(imms))
      BY <2>1 DEF FlushWrite, OutputId
    <3>2. \A t \in job'.out : IsRight(t) /\ t.data = Last(imms)
      BY <1>1, <3>1, LastIsMemtable, WrittenIsRight DEF TypeInv
    <3>. QED
      BY <1>1, <3>1, <3>2 DEF JobInv, FlushesOldest, CleansAfterSave, CompactsWindow
  <2>2. CASE FlushWriteFails
    <3>1. job' = job
      BY <2>2 DEF FlushWriteFails
    <3>. QED
      BY <1>1, <3>1, JobUntouched DEF StoreInv, CoverInv
  <2>. QED
    BY <2>1, <2>2
<1>. QED
  BY <1>1, <1>2, <1>3, <1>4, StoreUntouched

(* A compaction begins.                                                    *)
LEMMA CompactionBegins ==
    ASSUME TypeInv, StoreInv, NEW j \in DOMAIN man, NEW i \in 1 .. j,
           NEW aged \in SUBSET Ids(Window(i, j)), CompactWrite(i, j, aged)
    PROVE  StoreInv' /\ SameStore
<1>1. UNCHANGED <<recs, activeSeg, lastSeqno, isOpen, dman, man, nextId, readers, active, imms,
                  todo, phase, writer>>
  BY DEF CompactWrite, walVars, tableVars, memVars
<1>2. /\ job'.pc = "compact" /\ job'.ins = Ids(Window(i, j))
      /\ job'.out = TablesOf(nextId, Kept(Window(i, j), aged))
  BY DEF CompactWrite, OutputId
<1>3. \A t \in job'.out : IsRight(t)
  <2>1. IsMemtable(Kept(Window(i, j), aged))
    BY WindowTyped, KeptTyped DEF TypeInv, TypeOK
  <2>. QED
    BY <1>2, <2>1, WrittenIsRight
<1>4. Window(i, j)' = Window(i, j) /\ Kept(Window(i, j), aged)' = Kept(Window(i, j), aged)
  BY <1>1 DEF Window, Kept, Merged, IsAged, NothingOlderOutside
<1>5. CompactsWindow'
  <2>1. Ids(Window(i, j))' = Ids(Window(i, j))
    BY <1>4 DEF Ids
  <2>2. TablesOf(nextId, Kept(Window(i, j), aged))' = TablesOf(nextId, Kept(Window(i, j), aged))
    BY <1>1, <1>4 DEF TablesOf
  <2>. QED
    BY <1>1, <1>2, <2>1, <2>2 DEF CompactsWindow
<1>6. JobInv'
  BY <1>2, <1>5 DEF JobInv, FlushesOldest, CleansAfterSave
<1>. QED
  BY <1>1, <1>3, <1>6, StoreUntouched DEF StoreInv, LogInv, LogIsOpen

(* It is cancelled, or removes what it has replaced.                       *)
LEMMA CompactionEnds ==
    ASSUME StoreInv, CompactCancel \/ CompactDelete
    PROVE  StoreInv' /\ SameStore
<1>1. /\ UNCHANGED <<recs, activeSeg, lastSeqno, isOpen, dman, man, nextId, readers, active, imms,
                     todo, phase, writer>>
      /\ job'.pc = "idle" /\ job'.out = {}
  BY DEF CompactCancel, CompactDelete, NoJob, walVars, tableVars, memVars
<1>. QED
  BY <1>1, NoJobLeft, StoreUntouched DEF StoreInv, LogInv, LogIsOpen

(* close(), up to the end of the process.                                  *)
LEMMA CloseMoves ==
    ASSUME TypeInv, StoreInv, CloseGracefully \/ CloseFast \/ Drained \/ CloseLog
    PROVE  StoreInv' /\ SameStore
<1>1. UNCHANGED <<recs, activeSeg, lastSeqno, dman, man, nextId, readers, active, imms, todo, job>>
  BY DEF CloseGracefully, CloseFast, Drained, CloseLog, Log!Close,
     walVars, diskVars, tableVars, memVars
<1>2. writer' = writer \/ (writer.pc # "logged" /\ writer'.pc # "logged")
  BY DEF CloseGracefully, CloseFast, Drained, CloseLog, WriterNotified, Idle
<1>3. phase \in Live /\ (phase' = "closed" \/ (phase' \in Live /\ isOpen' = isOpen))
  BY DEF CloseGracefully, CloseFast, Drained, CloseLog, Live, walVars
<1>4. Up /\ Up' /\ LogIsOpen'
  BY <1>3 DEF Up, Live, LogIsOpen, StoreInv, LogInv
<1>5. JobInv' /\ \A t \in job'.out : IsRight(t)
  BY <1>1, JobUntouched DEF StoreInv, CoverInv
<1>. QED
  BY <1>1, <1>2, <1>4, <1>5, StoreUntouched

-----------------------------------------------------------------------------
(* Facts about single states that several steps use.                       *)

(* Nothing in a table is above the counter.                                *)
LEMMA HighestCounted ==
    ASSUME TypeOK, LogInv, CoverInv
    PROVE  \A t \in Saved \cup Tables \cup Readable :
              t.hi \in Nat /\ t.hi <= lastSeqno /\ lastSeqno \in Nat
<1>1. \A t \in Saved \cup Tables \cup Readable : IsTable(t) /\ IsRight(t) /\ Entries(t.data) \subseteq Known
  BY KnownTyped, TablesKnown DEF CoverInv
<1>. QED
  BY <1>1 DEF IsTable, IsRight, LogInv, AllCounted, TypeOK

(* All entries of the active memtable are newer than those of the queue.   *)
LEMMA ActiveNewest ==
    ASSUME TypeOK, MemoryOrdered
    PROVE  /\ \A m \in Range(imms) : \A e \in Entries(active), f \in Entries(m) : e.seq > f.seq
           /\ \A f \in Entries(active), g \in InMemory : g.key = f.key => g.seq <= f.seq
<1>1. IsMemtable(active) /\ \A m \in Range(imms) : IsMemtable(m)
  BY DEF TypeOK, AreMemtables
<1>2. ASSUME NEW m \in Range(imms), NEW e \in Entries(active), NEW f \in Entries(m)
      PROVE  e.seq > f.seq
  <2>1. e.seq \in Seqnos(active) /\ f.seq \in Seqnos(m)
    BY <1>1, EntriesOfMemtable
  <2>2. f.seq \in QueuedIn(imms)
    <3>1. PICK i \in DOMAIN imms : m = imms[i]
      BY DEF Range
    <3>. QED
      BY <2>1, <3>1 DEF QueuedIn
  <2>. QED
    BY <2>1, <2>2 DEF MemoryOrdered, Above
<1>3. ASSUME NEW f \in Entries(active), NEW g \in InMemory, g.key = f.key
      PROVE  g.seq <= f.seq
  <2>1. PICK m \in Memory : g \in Entries(m)
    BY DEF InMemory
  <2>2. CASE m = active
    <3>1. g = f /\ f.seq \in Nat
      BY <1>1, <1>3, <2>1, <2>2, EntriesOfMemtable DEF IsEntry
    <3>. QED
      BY <3>1
  <2>3. CASE m \in Range(imms)
    <3>1. f.seq > g.seq /\ f.seq \in Nat /\ g.seq \in Nat
      BY <1>1, <1>2, <2>1, <2>3, EntriesOfMemtable DEF IsEntry
    <3>. QED
      BY <3>1
  <2>. QED
    BY <2>1, <2>2, <2>3 DEF Memory
<1>. QED
  BY <1>2, <1>3

(* SeqNos held in memory, as entries.                                      *)
LEMMA HeldInMemory ==
    ASSUME TypeOK
    PROVE  \A e \in InMemory : e.seq \in Held
<1>1. IsMemtable(active) /\ \A m \in Range(imms) : IsMemtable(m)
  BY DEF TypeOK, AreMemtables
<1>2. ASSUME NEW e \in InMemory
      PROVE  e.seq \in Held
  <2>1. PICK m \in Memory : e \in Entries(m)
    BY DEF InMemory
  <2>2. e.seq \in Seqnos(m)
    BY <1>1, <2>1, EntriesOfMemtable DEF Memory
  <2>3. CASE m = active
    BY <2>2, <2>3 DEF Held
  <2>4. CASE m \in Range(imms)
    <3>1. PICK i \in DOMAIN imms : m = imms[i]
      BY <2>4 DEF Range
    <3>. QED
      BY <2>2, <3>1 DEF Held, QueuedIn
  <2>. QED
    BY <2>1, <2>3, <2>4 DEF Memory
<1>. QED
  BY <1>2

(* While somebody writes there is nothing to replay.                       *)
LEMMA WriterIsUp ==
    ASSUME TypeInv, OrderInv, writer.pc # "idle"
    PROVE  Up /\ todo = {} /\ Pending = UnderWay
<1>. QED
  BY DEF OrderInv, WriterNext, Up, TypeInv, Quiet, Pending

-----------------------------------------------------------------------------
(* A logged entry, newer than all of memory, is applied to the active      *)
(* memtable, which may join the queue.                                     *)

Grows(r) ==
    \/ Memory' = {Apply(active, r)} \cup Range(imms)
    \/ Memory' = {EmptyMemtable, Apply(active, r)} \cup Range(imms)

(* Memory gets the entry, in place, and keeps the place of the others.     *)
LEMMA MemoryGrows ==
    ASSUME TypeOK, MemoryOrdered, NEW r \in recs, Grows(r),
           \A e \in InMemory : e.seq < r.seq, NEW n, n = EntryOf(r)
    PROVE  /\ n \in InMemory'
           /\ InMemory' \subseteq InMemory \cup {n}
           /\ \A e \in InMemory : e.key # n.key => e \in InMemory'
           /\ InPlace(n)'
           /\ \A e : IsEntry(e) /\ InPlace(e) => InPlace(e)'
           /\ \A m \in Memory' : \/ m \in Range(imms)
                                 \/ Entries(m) = {}
                                 \/ m = Apply(active, r)
           /\ Entries(Apply(active, r)) = {n} \cup {e \in Entries(active) : e.key # n.key}
<1>. DEFINE a == Apply(active, r)
<1>1. /\ IsRecord(r) /\ IsMemtable(active) /\ \A m \in Range(imms) : IsMemtable(m)
      /\ \A e \in InMemory : IsEntry(e)
  BY KnownTyped DEF TypeOK, AreMemtables, Known
<1>2. n.key = r.op.key /\ n.seq = r.seq /\ IsEntry(n)
  BY <1>1, EntryOfRecord
<1>3. Entries(a) = {n} \cup {e \in Entries(active) : e.key # n.key}
  BY <1>1, <1>2, EntriesApplied
<1>4. \A m \in Memory' : m \in Range(imms) \/ Entries(m) = {} \/ m = a
  BY EntriesEmpty DEF Grows
<1>5. a \in Memory' /\ \A m \in Range(imms) : m \in Memory' /\ m \in Memory
  BY DEF Grows, Memory
<1>. HIDE DEF a
<1>6. n \in InMemory'
  BY <1>3, <1>5 DEF InMemory
<1>7. ASSUME NEW e \in InMemory'
      PROVE  e \in InMemory \cup {n}
  <2>1. PICK m \in Memory' : e \in Entries(m)
    BY DEF InMemory
  <2>2. CASE m \in Range(imms)
    BY <1>5, <2>1, <2>2 DEF InMemory
  <2>3. CASE m = a
    BY <1>3, <2>1, <2>3 DEF InMemory, Memory
  <2>. QED
    BY <1>4, <2>1, <2>2, <2>3
<1>8. ASSUME NEW e \in InMemory, e \notin InMemory'
      PROVE  e \in Entries(active) /\ e.key = n.key
  <2>1. PICK m \in Memory : e \in Entries(m)
    BY DEF InMemory
  <2>2. m \notin Range(imms)
    BY <1>5, <1>8, <2>1 DEF InMemory
  <2>3. e \in Entries(active)
    BY <2>1, <2>2 DEF Memory
  <2>4. e \notin Entries(a)
    BY <1>5, <1>8 DEF InMemory
  <2>. QED
    BY <1>3, <2>3, <2>4
<1>9. \A x \in Nat : x <= n.seq => Reaches(a, x)
  BY <1>3 DEF Reaches
<1>10. InPlace(n)'
  <2>1. ASSUME NEW m \in Memory', Reaches(m, n.seq)
        PROVE  Reaches(m, n.seq)
    BY <2>1
  <2>2. n.seq >= n.seq
    BY <1>2 DEF IsEntry
  <2>. QED
    BY <1>6, <2>2 DEF InPlace
<1>11. ASSUME NEW e, IsEntry(e), InPlace(e)
       PROVE  InPlace(e)'
  <2>1. PICK f \in InMemory : /\ f.key = e.key /\ f.seq >= e.seq
                              /\ \A m \in Memory : Reaches(m, e.seq) => Reaches(m, f.seq)
    BY <1>11 DEF InPlace
  <2>2. f.seq < n.seq /\ f.seq \in Nat /\ e.seq \in Nat /\ n.seq \in Nat
    BY <1>1, <1>2, <1>11 DEF IsEntry
  <2>3. CASE f \in InMemory'
    <3>1. ASSUME NEW m \in Memory', Reaches(m, e.seq)
          PROVE  Reaches(m, f.seq)
      <4>1. CASE m = a
        BY <1>9, <2>2, <4>1
      <4>2. CASE m \in Range(imms)
        BY <1>5, <2>1, <3>1, <4>2
      <4>. QED
        BY <1>4, <3>1, <4>1, <4>2 DEF Reaches
    <3>. QED
      BY <2>1, <2>3, <3>1 DEF InPlace
  <2>4. CASE f \notin InMemory'
    <3>1. f \in Entries(active) /\ f.key = n.key
      BY <1>8, <2>4
    <3>2. ASSUME NEW m \in Memory', Reaches(m, e.seq)
          PROVE  Reaches(m, n.seq)
      <4>1. CASE m = a
        BY <1>9, <2>2, <4>1
      <4>2. CASE m \in Range(imms)
        <5>1. PICK g \in Entries(m) : g.seq >= f.seq
          BY <1>5, <2>1, <3>2, <4>2 DEF Reaches
        <5>2. f.seq > g.seq /\ g.seq \in Nat
          BY <1>1, <3>1, <4>2, ActiveNewest, EntriesOfMemtable DEF IsEntry
        <5>. QED
          BY <2>2, <5>1, <5>2
      <4>. QED
        BY <1>4, <3>2, <4>1, <4>2 DEF Reaches
    <3>3. n.key = e.key /\ n.seq >= e.seq
      BY <2>1, <2>2, <3>1
    <3>. QED
      BY <1>6, <3>2, <3>3 DEF InPlace
  <2>. QED
    BY <2>3, <2>4
<1>12. \A e \in InMemory : e.key # n.key => e \in InMemory'
  BY <1>8
<1>. QED
  BY <1>3, <1>4, <1>6, <1>7, <1>10, <1>11, <1>12 DEF a

(* The memtables stay current if all that is known up to the new entry of  *)
(* the keys in the active memtable is in memory or older.                  *)
LEMMA CurrentGrows ==
    ASSUME TypeOK, MemoryOrdered, MemtablesCurrent, NEW r \in recs, Grows(r),
           \A e \in InMemory : e.seq < r.seq, Known' \subseteq Known,
           \A f \in Entries(active), e \in Known :
              e.key = f.key /\ e.key # r.op.key /\ e.seq <= r.seq => Later(InMemory, e)
    PROVE  MemtablesCurrent'
<1>. DEFINE n == EntryOf(r)
            a == Apply(active, r)
<1>1. n.key = r.op.key /\ n.seq = r.seq /\ r.seq \in Nat
  BY EntryOfRecord DEF TypeOK, IsRecord
<1>2. /\ \A m \in Memory' : m \in Range(imms) \/ Entries(m) = {} \/ m = a
      /\ Entries(a) = {n} \cup {e \in Entries(active) : e.key # n.key}
  BY MemoryGrows
<1>. HIDE DEF n, a
<1>3. /\ \A e \in Known : e.seq \in Nat
      /\ \A e \in InMemory : e.seq \in Nat
      /\ Entries(active) \subseteq InMemory
  BY KnownTyped DEF IsEntry, Known, InMemory, Memory
<1>4. \A g \in Entries(a) : g.seq <= n.seq
  BY <1>1, <1>2, <1>3
<1>5. SUFFICES ASSUME NEW m \in Memory', NEW f \in Entries(m), NEW e \in Known',
                      e.key = f.key, Reaches(m, e.seq)
               PROVE  e.seq <= f.seq
  BY DEF MemtablesCurrent
<1>6. e \in Known /\ e.seq \in Nat
  BY <1>3
<1>7. CASE m \in Range(imms)
  BY <1>5, <1>6, <1>7 DEF MemtablesCurrent, Memory
<1>8. CASE m = a
  <2>1. e.seq <= n.seq
    <3>1. PICK g \in Entries(a) : g.seq >= e.seq
      BY <1>5, <1>8 DEF Reaches
    <3>2. g.seq \in Nat
      BY <1>1, <1>2, <1>3
    <3>. QED
      BY <1>1, <1>4, <1>6, <3>1, <3>2
  <2>2. CASE f = n
    BY <2>1, <2>2
  <2>3. CASE f \in Entries(active) /\ f.key # n.key
    <3>1. PICK g \in InMemory : g.key = e.key /\ g.seq >= e.seq
      BY <1>1, <1>5, <1>6, <2>1, <2>3 DEF Later
    <3>2. g.seq <= f.seq
      BY <1>5, <2>3, <3>1, ActiveNewest
    <3>. QED
      BY <1>3, <1>6, <2>3, <3>1, <3>2
  <2>. QED
    BY <1>2, <1>8, <2>2, <2>3
<1>. QED
  BY <1>2, <1>7, <1>8

-----------------------------------------------------------------------------
(* The steps of a write.                                                   *)

(* The new entry is the newest of all, and under way.                      *)
LEMMA LogWriteStores ==
    ASSUME TypeInv, OrderInv, StoreInv, NEW o \in Mutation, LogWrite(o)
    PROVE  /\ StoreInv'
           /\ Known' = Known \cup {EntryOf(Log!NextRecord(o))}
           /\ \A e \in Known : e.seq < EntryOf(Log!NextRecord(o)).seq
<1>. DEFINE r == Log!NextRecord(o)
            n == EntryOf(r)
<1>1. /\ UNCHANGED <<isOpen, dman, man, nextId, readers, active, imms, todo, phase, job>>
      /\ recs' = recs \cup {r} /\ lastSeqno' = lastSeqno + 1 /\ activeSeg' = r.seg
      /\ writer.pc = "admitted" /\ writer'.pc = "logged" /\ writer'.rec = r
  BY DEF LogWrite, Log!Append, Log!NextRecord, diskVars, tableVars, memVars
<1>2. IsRecord(r) /\ r.seq = lastSeqno + 1 /\ r.op = o /\ lastSeqno \in Nat
  BY DEF Log!NextRecord, Log!AppendSeg, IsRecord, TypeInv, TypeOK
<1>. HIDE DEF r
<1>3. n.key = o.key /\ n.seq = lastSeqno + 1 /\ IsEntry(n)
  BY <1>2, EntryOfRecord
<1>4. Up /\ UnderWay = {} /\ Pending = {}
  BY <1>1, WriterIsUp DEF UnderWay
<1>5. UnderWay' = {n} /\ Pending' = {n}
  BY <1>1, <1>4 DEF UnderWay, Pending
<1>6. /\ Logged' = Logged \cup {n} /\ Memory' = Memory /\ InMemory' = InMemory
      /\ Saved' = Saved /\ Tables' = Tables /\ Readable' = Readable
      /\ Known' = Known \cup {n} /\ Recent' = Recent \cup {n}
  BY <1>1 DEF Logged, Memory, InMemory, Saved, Tables, Readable, Known, Recent
<1>7. \A e \in Known : IsEntry(e) /\ e.seq \in Nat /\ e.seq < n.seq
  BY <1>2, <1>3, KnownTyped DEF TypeInv, StoreInv, LogInv, AllCounted, IsEntry
<1>8. \A t \in Saved \cup Tables \cup Readable : t.hi \in Nat /\ t.hi < n.seq
  BY <1>3, HighestCounted DEF TypeInv, StoreInv
<1>. HIDE DEF n
<1>9. Recent \subseteq Known /\ Logged \subseteq Known /\ InMemory \subseteq Known
      /\ \A m \in Memory : Entries(m) \subseteq Known
  BY TablesKnown DEF Recent
<1>10. LogInv'
  <2>1. OneEntryPerSeqno'
    BY <1>6, <1>7 DEF StoreInv, LogInv, OneEntryPerSeqno
  <2>2. AllCounted'
    BY <1>1, <1>2, <1>3, <1>6, <1>7 DEF AllCounted
  <2>3. LogIsNewestPart'
    <3>1. SUFFICES ASSUME NEW f \in Logged', NEW e \in Known', e.seq >= f.seq
                   PROVE  e \in Logged'
      BY DEF LogIsNewestPart
    <3>2. CASE e = n
      BY <1>6, <3>2
    <3>3. CASE e \in Known /\ f = n
      BY <1>3, <1>7, <3>1, <3>3 DEF IsEntry
    <3>4. CASE e \in Known /\ f \in Logged
      BY <1>6, <3>1, <3>4 DEF StoreInv, LogInv, LogIsNewestPart
    <3>. QED
      BY <1>6, <3>2, <3>3, <3>4
  <2>4. WriterIsLogged' /\ LogIsOpen'
    BY <1>1 DEF WriterIsLogged, LogIsOpen, StoreInv, LogInv
  <2>. QED
    BY <2>1, <2>2, <2>3, <2>4 DEF LogInv
<1>11. CoverInv'
  <2>1. \A tables : FlushedBelow(tables) /\ tables \subseteq Saved \cup Tables => FlushedBelow(tables)'
    <3>. SUFFICES ASSUME NEW tables, FlushedBelow(tables), tables \subseteq Saved \cup Tables
                  PROVE  FlushedBelow(tables)'
      OBVIOUS
    <3>1. ASSUME NEW u \in tables
          PROVE  ~(n.seq <= u.hi)
      BY <1>3, <1>8 DEF IsEntry
    <3>. QED
      BY <1>6, <3>1 DEF FlushedBelow
  <2>2. FlushedBelow(Saved)' /\ FlushedBelow(Tables)'
    BY <1>6, <2>1 DEF StoreInv, CoverInv
  <2>. QED
    BY <1>1, <1>6, <2>2 DEF StoreInv, CoverInv, NewerHides, UniqueIds
<1>12. KeepInv'
  <2>1. ASSUME NEW e, Newest(e)', ~HasKey(Logged', e.key)
        PROVE  e \in Known /\ Newest(e) /\ ~HasKey(Logged, e.key)
    BY <1>6, <2>1 DEF Newest, HasKey
  <2>2. Keeps(Saved)' /\ Keeps(Tables)'
    BY <1>4, <1>6, <2>1 DEF StoreInv, KeepInv, Keeps, Up
  <2>3. MemoryIsSafe'
    BY <1>4, <1>6 DEF StoreInv, KeepInv, MemoryIsSafe, Up
  <2>. QED
    BY <2>2, <2>3 DEF KeepInv
<1>13. Logged' \ Pending' \subseteq Logged \ Pending /\ Known' \ Pending' \subseteq Known \ Pending
  BY <1>4, <1>5, <1>6
<1>14. PlaceInv'
  BY <1>1, <1>6, <1>13 DEF StoreInv, PlaceInv, Placed, InPlace, BehindMemory
<1>15. ReplayInv'
  BY <1>1, <1>4 DEF ReplayInv, Up
<1>16. ReadInv'
  <2>1. MemtablesCurrent'
    <3>1. ASSUME NEW m \in Memory, Reaches(m, n.seq)
          PROVE  FALSE
      BY <1>3, <1>7, <1>9, <3>1 DEF Reaches, IsEntry
    <3>. QED
      BY <1>6, <3>1 DEF StoreInv, ReadInv, MemtablesCurrent
  <2>2. MemoryFirst' /\ ReadersFirst'
    BY <1>1, <1>4, <1>6, <1>13 DEF StoreInv, ReadInv, MemoryFirst, ReadersFirst
  <2>. QED
    BY <2>1, <2>2 DEF ReadInv
<1>17. JobInv'
  BY <1>1, JobUntouched DEF StoreInv
<1>. QED
  BY <1>6, <1>7, <1>10, <1>11, <1>12, <1>14, <1>15, <1>16, <1>17 DEF StoreInv, n, r

(* It reaches the active memtable.                                         *)
LEMMA ApplyWriteStores ==
    ASSUME TypeInv, OrderInv, StoreInv, ApplyWrite
    PROVE  StoreInv' /\ SameStore
<1>0. PICK r, n : r = writer.rec /\ n = EntryOf(r)
  OBVIOUS
<1>1. /\ UNCHANGED <<recs, activeSeg, lastSeqno, isOpen, dman, man, nextId, readers, imms,
                     todo, phase, job>>
      /\ active' = Apply(active, r)
      /\ writer.pc = "logged" /\ writer'.pc = "applied"
  BY <1>0 DEF ApplyWrite, walVars, diskVars, tableVars
<1>2. r \in recs /\ n \in Logged /\ r.seq = lastSeqno /\ lastSeqno \in Nat
  BY <1>0, <1>1 DEF StoreInv, LogInv, WriterIsLogged, Logged, OrderInv, WriterNext, TypeInv, TypeOK
<1>3. n.key = r.op.key /\ n.seq = lastSeqno /\ n \in Known
  BY <1>0, <1>2, EntryOfRecord DEF TypeInv, TypeOK, Known
<1>4. Up /\ Pending = {n} /\ Pending' = {}
  BY <1>0, <1>1, WriterIsUp DEF UnderWay, Pending
<1>5. /\ Logged' = Logged /\ Saved' = Saved /\ Tables' = Tables /\ Readable' = Readable
      /\ Memory' = {Apply(active, r)} \cup Range(imms)
  BY <1>1 DEF Logged, Saved, Tables, Readable, Memory
<1>6. /\ \A e \in InMemory : e.seq < r.seq
      /\ \A e \in Known : IsEntry(e) /\ e.seq \in Nat /\ e.seq <= n.seq
  BY <1>0, <1>1, <1>2, <1>3, HeldInMemory, KnownTyped
     DEF OrderInv, WriterNext, TypeInv, StoreInv, LogInv, AllCounted, IsEntry
<1>7. /\ n \in InMemory' /\ InMemory' \subseteq InMemory \cup {n}
      /\ \A e \in InMemory : e.key # n.key => e \in InMemory'
      /\ InPlace(n)'
      /\ \A e : IsEntry(e) /\ InPlace(e) => InPlace(e)'
      /\ \A m \in Memory' : m \in Range(imms) \/ Entries(m) = {} \/ m = Apply(active, r)
      /\ Entries(Apply(active, r)) = {n} \cup {e \in Entries(active) : e.key # n.key}
  <2>1. Grows(r) /\ n = EntryOf(r)
    BY <1>0, <1>5 DEF Grows
  <2>. QED
    BY <1>2, <1>6, <2>1, MemoryGrows DEF TypeInv, OrderInv
<1>8. Known' \subseteq Known /\ \A e \in Known : e.key # n.key => e \in Known'
  BY <1>2, <1>3, <1>5, <1>7 DEF Known
<1>9. Recent' \subseteq Recent /\ n \in Known'
  BY <1>2, <1>5, <1>7 DEF Recent, Known
<1>10. SameStore
  <2>1. ASSUME NEW e \in Known, Newest(e), e.key = n.key
        PROVE  e = n
    <3>1. n.seq <= e.seq
      BY <1>3, <2>1 DEF Newest
    <3>. QED
      BY <1>3, <1>6, <3>1 DEF StoreInv, LogInv, OneEntryPerSeqno
  <2>. QED
    BY <1>8, <1>9, <2>1 DEF SameStore
<1>11. LogInv'
  BY <1>1, <1>5, <1>8 DEF StoreInv, LogInv, OneEntryPerSeqno, AllCounted, LogIsNewestPart,
     WriterIsLogged, LogIsOpen
<1>12. CoverInv'
  BY <1>1, <1>5, <1>9 DEF StoreInv, CoverInv, NewerHides, FlushedBelow, UniqueIds
<1>13. KeepInv'
  <2>1. \A e : Newest(e)' => Newest(e) /\ e \in Known
    BY <1>10, NewestBefore DEF TypeInv, StoreInv, Newest
  <2>2. Keeps(Saved)' /\ Keeps(Tables)'
    BY <1>4, <1>5, <2>1 DEF StoreInv, KeepInv, Keeps, Up
  <2>3. MemoryIsSafe'
    BY <1>2, <1>4, <1>5, <1>7 DEF StoreInv, KeepInv, MemoryIsSafe, Up
  <2>. QED
    BY <2>2, <2>3 DEF KeepInv
<1>14. ASSUME NEW t \in Tables, BehindMemory(t)
       PROVE  BehindMemory(t)'
  <2>1. t.hi \in Nat /\ t.hi <= n.seq
    BY <1>3, HighestCounted DEF TypeInv, StoreInv
  <2>2. Reaches(Apply(active, r), t.hi)
    BY <1>7, <2>1 DEF Reaches
  <2>3. \A m \in Range(imms) : m \in Memory
    BY DEF Memory
  <2>. QED
    BY <1>7, <1>14, <2>2, <2>3 DEF BehindMemory
<1>15. PlaceInv'
  <2>1. Logged' \ Pending' = (Logged \ Pending) \cup {n} /\ man' = man
    BY <1>1, <1>2, <1>4, <1>5
  <2>2. \A e \in Logged : IsEntry(e)
    BY <1>6 DEF Known
  <2>3. phase # "down"
    BY <1>4 DEF Up
  <2>4. ASSUME NEW e \in Logged, InPlace(e)
        PROVE  InPlace(e)'
    BY <1>7, <2>2, <2>4
  <2>5. ASSUME NEW e \in Logged \ Pending
        PROVE  Placed(e)'
    <3>1. Placed(e)
      BY <2>3 DEF StoreInv, PlaceInv
    <3>. QED
      BY <1>5, <1>14, <2>4, <3>1 DEF Placed
  <2>6. \A e \in Logged' \ Pending' : Placed(e)'
    BY <1>7, <2>1, <2>5 DEF Placed
  <2>7. CASE \A e \in Logged \ Pending : InPlace(e)
    <3>1. \A e \in Logged' \ Pending' : InPlace(e)'
      BY <1>7, <2>1, <2>4, <2>7
    <3>. QED
      BY <2>6, <3>1 DEF PlaceInv
  <2>8. CASE \E t \in Tables : t = man[1] /\ BehindMemory(t)
    <3>1. \E t \in Tables' : t = man'[1] /\ BehindMemory(t)'
      BY <1>5, <1>14, <2>1, <2>8
    <3>. QED
      BY <2>6, <3>1 DEF PlaceInv
  <2>. QED
    BY <2>3, <2>7, <2>8 DEF StoreInv, PlaceInv
<1>16. ReplayInv'
  BY <1>1, <1>4 DEF ReplayInv, Up
<1>17. ReadInv'
  <2>1. MemoryFirst'
    <3>1. SUFFICES ASSUME NEW e \in Known', HasKey(InMemory', e.key)
                   PROVE  Later(InMemory', e)
      BY DEF MemoryFirst
    <3>2. CASE e.key = n.key
      BY <1>6, <1>7, <1>8, <3>2 DEF Later
    <3>3. CASE e.key # n.key
      <4>1. HasKey(InMemory, e.key) /\ e \in Known \ Pending
        BY <1>4, <1>7, <1>8, <3>1, <3>3 DEF HasKey
      <4>2. PICK g \in InMemory : g.key = e.key /\ g.seq >= e.seq
        BY <1>4, <4>1 DEF StoreInv, ReadInv, MemoryFirst, Later
      <4>. QED
        BY <1>7, <3>3, <4>2 DEF Later
    <3>. QED
      BY <3>2, <3>3
  <2>2. ReadersFirst'
    <3>1. SUFFICES ASSUME NEW e \in Known', ~HasKey(InMemory', e.key)
                   PROVE  \E i \in DOMAIN readers :
                             /\ Later(Entries(readers[i].data), e)
                             /\ \A h \in 1 .. i - 1 : ~HasKey(Entries(readers[h].data), e.key)
      BY <1>1 DEF ReadersFirst
    <3>2. e.key # n.key /\ ~HasKey(InMemory, e.key)
      BY <1>7, <3>1 DEF HasKey
    <3>3. e \in Known \ Pending
      BY <1>4, <1>8, <3>2
    <3>. QED
      BY <1>4, <3>2, <3>3 DEF StoreInv, ReadInv, ReadersFirst
  <2>3. MemtablesCurrent'
    <3>1. ASSUME NEW f \in Entries(active), NEW e \in Known,
                 e.key = f.key, e.key # r.op.key
          PROVE  Later(InMemory, e)
      <4>1. f \in InMemory /\ e \in Known \ Pending
        BY <1>3, <1>4, <3>1 DEF InMemory, Memory
      <4>. QED
        BY <1>4, <3>1, <4>1 DEF StoreInv, ReadInv, MemoryFirst, HasKey
    <3>. QED
      BY <1>2, <1>5, <1>6, <1>8, <3>1, CurrentGrows DEF Grows, TypeInv, OrderInv, StoreInv, ReadInv
  <2>. QED
    BY <2>1, <2>2, <2>3 DEF ReadInv
<1>18. JobInv'
  BY <1>1, JobUntouched DEF StoreInv
<1>. QED
  BY <1>10, <1>11, <1>12, <1>13, <1>15, <1>16, <1>17, <1>18 DEF StoreInv

(* The oldest memtable of the queue stays the oldest.                      *)
LEMMA LastPrepended ==
    ASSUME NEW s, s \in Seq(Range(s)), s # <<>>, NEW x
    PROVE  <<x>> \o s # <<>> /\ Last(<<x>> \o s) = Last(s)
<1>1. Len(s) \in Nat /\ Len(s) # 0
  BY EmptySeq
<1>2. /\ <<x>> \o s \in Seq(Range(<<x>> \o s)) /\ Len(<<x>> \o s) = Len(s) + 1
      /\ \A i \in 1 .. Len(s) + 1 : (<<x>> \o s)[i] = IF i = 1 THEN x ELSE s[i - 1]
  BY Prepended
<1>3. (<<x>> \o s)[Len(s) + 1] = s[Len(s)]
  BY <1>1, <1>2
<1>4. <<x>> \o s # <<>>
  BY <1>1, <1>2, EmptySeq
<1>. QED
  BY <1>2, <1>3, <1>4 DEF Last

(* The memtable joins the queue: memory stays what it was.                 *)
LEMMA RotateStores ==
    ASSUME TypeInv, OrderInv, StoreInv, Rotate
    PROVE  StoreInv' /\ SameStore
<1>1. /\ UNCHANGED <<recs, lastSeqno, isOpen, dman, man, nextId, readers, todo, phase, job>>
      /\ active' = EmptyMemtable /\ imms' = <<active>> \o imms
      /\ writer.pc = "applied" /\ writer'.pc = "idle"
  BY DEF Rotate, Log!Roll, diskVars, tableVars, Idle
<1>2. Memory' = Memory \cup {EmptyMemtable} /\ imms \in Seq(Range(imms))
  BY <1>1, Prepended DEF Memory, TypeInv, TypeOK, AreMemtables
<1>3. InMemory' = InMemory
  BY <1>2, EntriesEmpty DEF InMemory
<1>4. /\ Logged' = Logged /\ Saved' = Saved /\ Tables' = Tables /\ Readable' = Readable
      /\ Known' = Known /\ Recent' = Recent /\ Pending' = Pending
  BY <1>1, <1>3 DEF Logged, Saved, Tables, Readable, Known, Recent, Pending, UnderWay
<1>5. /\ \A m \in Memory' : m \in Memory \/ Entries(m) = {}
      /\ \A m, x : Entries(m) = {} => ~Reaches(m, x)
  BY <1>2, EntriesEmpty DEF Reaches
<1>6. \A e : (Newest(e)' <=> Newest(e)) /\ (InPlace(e) => InPlace(e)')
  BY <1>3, <1>4, <1>5 DEF Newest, InPlace
<1>7. \A t : BehindMemory(t) => BehindMemory(t)'
  BY <1>5 DEF BehindMemory
<1>8. LogInv'
  BY <1>1, <1>4 DEF StoreInv, LogInv, OneEntryPerSeqno, AllCounted, LogIsNewestPart,
     WriterIsLogged, LogIsOpen
<1>9. CoverInv'
  BY <1>1, <1>4 DEF StoreInv, CoverInv, NewerHides, FlushedBelow, UniqueIds
<1>10. KeepInv'
  BY <1>1, <1>3, <1>4, <1>6 DEF StoreInv, KeepInv, Keeps, MemoryIsSafe
<1>11. PlaceInv'
  BY <1>1, <1>4, <1>6, <1>7 DEF StoreInv, PlaceInv, Placed
<1>12. ReplayInv'
  BY <1>1, WriterIsUp DEF ReplayInv, Up
<1>13. ReadInv'
  <2>1. MemtablesCurrent'
    BY <1>4, <1>5 DEF StoreInv, ReadInv, MemtablesCurrent
  <2>. QED
    BY <1>1, <1>3, <1>4, <2>1 DEF StoreInv, ReadInv, MemoryFirst, ReadersFirst, Up
<1>14. JobInv'
  <2>1. FlushesOldest'
    BY <1>1, <1>2, LastPrepended DEF StoreInv, JobInv, FlushesOldest
  <2>2. CleansAfterSave'
    BY <1>1, <1>4 DEF StoreInv, JobInv, CleansAfterSave
  <2>3. CompactsWindow'
    BY <1>1, WindowUntouched DEF StoreInv, JobInv
  <2>. QED
    BY <2>1, <2>2, <2>3 DEF JobInv
<1>15. SameStore
  BY <1>4 DEF SameStore
<1>. QED
  BY <1>8, <1>9, <1>10, <1>11, <1>12, <1>13, <1>14, <1>15 DEF StoreInv

-----------------------------------------------------------------------------
(* The flush.                                                              *)

(* The oldest memtable of the queue is older than the rest of memory.      *)
LEMMA QueueSplit ==
    ASSUME TypeOK, MemoryOrdered, imms # <<>>
    PROVE  /\ Range(imms) = Range(Front(imms)) \cup {Last(imms)}
           /\ \A m \in {active} \cup Range(Front(imms)) :
                 \A e \in Entries(m), f \in Entries(Last(imms)) : e.seq > f.seq
<1>1. Len(imms) \in Nat \ {0} /\ imms \in Seq(Range(imms))
  BY EmptySeq DEF AreMemtables, TypeOK
<1>2. DOMAIN imms = 1 .. Len(imms) /\ Last(imms) = imms[Len(imms)] /\ Last(imms) \in Range(imms)
  BY <1>1, SequenceOfItsRange DEF Last
<1>3. /\ Front(imms) \in Seq(Range(Front(imms)))
      /\ Range(Front(imms)) \subseteq Range(imms)
      /\ Len(Front(imms)) = Len(imms) - 1
      /\ \A i \in 1 .. Len(imms) - 1 : Front(imms)[i] = imms[i]
  <2>1. /\ Len(Front(imms)) = Len(imms) - 1
        /\ \A i \in 1 .. Len(imms) - 1 : Front(imms)[i] = imms[i]
    <3>1. Len(imms) - 1 <= Len(imms) /\ \A i \in 1 .. Len(imms) - 1 : imms[i] \in Range(imms)
      BY <1>1, SequenceOfItsRange
    <3>2. /\ Len(Front(imms)) = IF 1 <= Len(imms) - 1 THEN Len(imms) - 1 - 1 + 1 ELSE 0
          /\ \A i \in 1 .. Len(imms) - 1 - 1 + 1 : Front(imms)[i] = imms[1 + i - 1]
      BY <1>1, <3>1, SubSeqProperties DEF Front
    <3>3. Len(imms) - 1 - 1 + 1 = Len(imms) - 1 /\ \A i \in 1 .. Len(imms) - 1 : 1 + i - 1 = i
      BY <1>1
    <3>4. Len(Front(imms)) = Len(imms) - 1
      <4>1. CASE Len(imms) = 1
        BY <3>2, <4>1
      <4>2. CASE Len(imms) > 1
        <5>1. 1 <= Len(imms) - 1
          BY <1>1, <4>2
        <5>. QED
          BY <3>2, <3>3, <5>1
      <4>3. \A n \in Nat \ {0} : n = 1 \/ n > 1
        OBVIOUS
      <4>. QED
        BY <1>1, <4>1, <4>2, <4>3
    <3>. QED
      BY <3>2, <3>3, <3>4
  <2>. QED
    BY <1>1, <2>1, LastDropped
<1>4. \A m \in Range(Front(imms)) : \E i \in 1 .. Len(imms) - 1 : m = imms[i]
  BY <1>3, SequenceOfItsRange
<1>5. ASSUME NEW m \in Range(imms), m # Last(imms)
      PROVE  m \in Range(Front(imms))
  <2>1. PICK i \in 1 .. Len(imms) : m = imms[i]
    BY <1>1, SequenceOfItsRange
  <2>2. i \in 1 .. Len(imms) - 1
    BY <1>1, <1>2, <1>5, <2>1
  <2>. QED
    BY <1>3, <2>1, <2>2, SequenceOfItsRange
<1>6. IsMemtable(active) /\ \A m \in Range(imms) : IsMemtable(m)
  BY DEF TypeOK, AreMemtables
<1>7. ASSUME NEW m \in Range(Front(imms)), NEW e \in Entries(m), NEW f \in Entries(Last(imms))
      PROVE  e.seq > f.seq
  <2>1. PICK i \in 1 .. Len(imms) - 1 : m = imms[i]
    BY <1>4
  <2>2. e.seq \in Seqnos(imms[i]) /\ f.seq \in Seqnos(imms[Len(imms)])
    BY <1>2, <1>3, <1>6, <2>1, EntriesOfMemtable
  <2>3. i \in DOMAIN imms /\ Len(imms) \in DOMAIN imms /\ i < Len(imms)
    BY <1>1, <1>2
  <2>. QED
    BY <2>2, <2>3 DEF MemoryOrdered, QueueOrdered
<1>. QED
  BY <1>2, <1>3, <1>5, <1>7, ActiveNewest

(* The newest entry of a key is where a get finds it.                      *)
LEMMA NewestIsRead ==
    ASSUME TypeOK, StoreInv, Up, NEW e, Newest(e)
    PROVE  e \in Logged \cup InMemory \cup In(Readable)
<1>1. e \in Known /\ \A f \in Known : f.key = e.key => f.seq <= e.seq
  BY DEF Newest
<1>2. \A f \in Known : f.key = e.key /\ f.seq >= e.seq => f = e
  BY <1>1, KnownTyped DEF StoreInv, LogInv, OneEntryPerSeqno, IsEntry
<1>3. CASE e \in Pending
  BY <1>3 DEF Pending, UnderWay, Logged, TypeOK, StoreInv, LogInv, WriterIsLogged
<1>4. CASE e \notin Pending /\ HasKey(InMemory, e.key)
  <2>1. PICK g \in InMemory : g.key = e.key /\ g.seq >= e.seq
    BY <1>1, <1>4 DEF StoreInv, ReadInv, MemoryFirst, Later
  <2>. QED
    BY <1>2, <2>1 DEF Known
<1>5. CASE e \notin Pending /\ ~HasKey(InMemory, e.key)
  <2>1. PICK i \in DOMAIN readers : Later(Entries(readers[i].data), e)
    BY <1>1, <1>5 DEF StoreInv, ReadInv, ReadersFirst
  <2>2. readers[i] \in Readable
    BY <2>1 DEF Readable, Range
  <2>3. PICK g \in Entries(readers[i].data) : g.key = e.key /\ g.seq >= e.seq
    BY <2>1 DEF Later
  <2>4. g \in In(Readable)
    BY <2>2, <2>3 DEF In
  <2>. QED
    BY <1>2, <2>3, <2>4, TablesKnown
<1>. QED
  BY <1>3, <1>4, <1>5

(* The table being flushed and the tables of the manifest.                 *)
LEMMA FlushedTable ==
    ASSUME TypeInv, OrderInv, TablesInv, StoreInv, job.pc = "flush", NEW t \in job.out
    PROVE  /\ Up /\ imms # <<>> /\ t.data = Last(imms) /\ IsTable(t) /\ IsRight(t)
           /\ Entries(t.data) \subseteq InMemory
           /\ \E f \in Entries(t.data) : f.seq = t.hi
           /\ \A m \in {active} \cup Range(Front(imms)) : \A e \in Entries(m) : e.seq > t.hi
           /\ \A u \in Tables : u.id # t.id
           /\ \A u \in Tables : \A e \in Entries(t.data), f \in Entries(u.data) : e.key = f.key =>
                 (t.hi >= u.hi => e.seq >= f.seq) /\ (u.hi >= t.hi => f.seq >= e.seq)
           /\ \A e \in Recent : e.seq <= t.hi =>
                 \E y \in {t} \cup Tables : y.hi <= t.hi /\ Later(Entries(y.data), e)
<1>1. /\ Up /\ phase # "down" /\ imms # <<>> /\ t.data = Last(imms) /\ IsTable(t) /\ IsRight(t)
      /\ IsMemtable(t.data) /\ t.hi \in Nat
  BY DEF TypeInv, Quiet, Live, Up, StoreInv, JobInv, FlushesOldest, TypeOK, IsTable, CoverInv
<1>2. /\ t.data \in Memory /\ Entries(t.data) \subseteq InMemory
      /\ \A m \in Memory : m = t.data \/ m \in {active} \cup Range(Front(imms))
  BY <1>1, QueueSplit DEF TypeInv, OrderInv, Memory, InMemory
<1>3. PICK h \in Entries(t.data) : h.seq = t.hi
  BY <1>1 DEF IsRight
<1>4. \A m \in {active} \cup Range(Front(imms)) : \A e \in Entries(m) : e.seq > t.hi
  BY <1>1, <1>3, QueueSplit DEF TypeInv, OrderInv
<1>5. \A u \in Tables : u.id # t.id
  <2>1. t.id = nextId /\ nextId \in Nat
    BY DEF TablesInv, OutputIsNew, TypeInv, TypeOK
  <2>2. \A u \in Tables : u.id \in Named
    BY DEF Named, Tables, Ids
  <2>. QED
    BY <1>1, <2>1, <2>2 DEF TablesInv, IdsAreOld
<1>6. \A x \in Nat : x <= t.hi => Reaches(t.data, x)
  BY <1>1, <1>3 DEF Reaches
<1>7. /\ \A e \in Known : e.seq \in Nat
      /\ \A u \in Tables : u.hi \in Nat /\ IsRight(u) /\ Entries(u.data) \subseteq Known
      /\ InMemory \subseteq Known /\ Recent \subseteq Known
  BY KnownTyped, TablesKnown
     DEF IsEntry, TypeInv, IsTable, StoreInv, CoverInv, Recent
<1>8. /\ MemtablesCurrent /\ FlushedBelow(Tables) /\ NewerHides(Tables)
  BY DEF StoreInv, ReadInv, CoverInv
<1>9. ASSUME NEW u \in Tables, NEW e \in Entries(t.data), NEW f \in Entries(u.data), e.key = f.key
      PROVE  (t.hi >= u.hi => e.seq >= f.seq) /\ (u.hi >= t.hi => f.seq >= e.seq)
  <2>1. /\ f \in Known /\ e \in Known /\ e.seq \in Nat /\ f.seq \in Nat
        /\ f.seq <= u.hi /\ e.seq <= t.hi /\ u.hi \in Nat
    BY <1>1, <1>2, <1>7 DEF IsRight
  <2>2. ASSUME t.hi >= u.hi
        PROVE  e.seq >= f.seq
    <3>1. Reaches(t.data, f.seq)
      BY <1>1, <1>6, <2>1, <2>2
    <3>2. f.seq <= e.seq
      BY <1>2, <1>8, <1>9, <2>1, <3>1 DEF MemtablesCurrent
    <3>. QED
      BY <2>1, <3>2
  <2>3. ASSUME u.hi >= t.hi
        PROVE  f.seq >= e.seq
    <3>1. e \in Recent /\ e.seq <= u.hi
      BY <1>1, <1>2, <2>1, <2>3 DEF Recent
    <3>2. PICK y \in Tables : y.hi <= u.hi /\ Later(Entries(y.data), e)
      BY <1>8, <3>1 DEF FlushedBelow
    <3>3. PICK g \in Entries(y.data) : g.key = e.key /\ g.seq >= e.seq
      BY <3>2 DEF Later
    <3>4. f.seq >= g.seq /\ g.seq \in Nat
      BY <1>7, <1>8, <1>9, <3>2, <3>3 DEF NewerHides
    <3>. QED
      BY <2>1, <3>3, <3>4
  <2>. QED
    BY <2>2, <2>3
<1>10. ASSUME NEW e \in Recent, e.seq <= t.hi
       PROVE  \E y \in {t} \cup Tables : y.hi <= t.hi /\ Later(Entries(y.data), e)
  <2>1. e \in Known /\ e.seq \in Nat /\ Reaches(t.data, e.seq)
    BY <1>6, <1>7, <1>10
  <2>2. CASE HasKey(Entries(t.data), e.key)
    <3>1. PICK f \in Entries(t.data) : f.key = e.key
      BY <2>2 DEF HasKey
    <3>2. e.seq <= f.seq /\ f.seq \in Nat
      BY <1>2, <1>7, <1>8, <2>1, <3>1 DEF MemtablesCurrent
    <3>. QED
      BY <1>1, <2>1, <3>1, <3>2 DEF Later
  <2>3. CASE ~HasKey(Entries(t.data), e.key)
    <3>1. e \notin InMemory
      BY <1>1, <1>2, <1>4, <1>10, <2>1, <2>3 DEF InMemory, HasKey
    <3>2. e \in Logged
      BY <3>1 DEF Recent
    <3>3. e \notin Pending
      <4>1. ASSUME e \in Pending
            PROVE  FALSE
        <5>1. writer.pc = "logged" /\ e = EntryOf(writer.rec) /\ IsRecord(writer.rec)
          BY <1>1, <4>1 DEF Pending, UnderWay, TypeInv, Quiet, Up, TypeOK
        <5>2. e.seq = lastSeqno /\ \A n \in Held : n < lastSeqno
          BY <5>1, EntryOfRecord DEF OrderInv, WriterNext
        <5>3. t.hi \in Held
          BY <1>2, <1>3, HeldInMemory DEF TypeInv
        <5>. QED
          BY <1>1, <1>10, <2>1, <5>2, <5>3
      <4>. QED
        BY <4>1
    <3>4. CASE InPlace(e)
      <4>1. PICK f \in InMemory : /\ f.key = e.key /\ f.seq >= e.seq
                                  /\ \A m \in Memory : Reaches(m, e.seq) => Reaches(m, f.seq)
        BY <3>4 DEF InPlace
      <4>2. PICK g \in Entries(t.data) : g.seq >= f.seq
        BY <1>2, <2>1, <4>1 DEF Reaches
      <4>3. f.seq <= t.hi
        <5>1. g.seq <= t.hi /\ g.seq \in Nat /\ f.seq \in Nat
          BY <1>1, <1>2, <1>7 DEF IsRight
        <5>. QED
          BY <1>1, <4>2, <5>1
      <4>4. f \in Entries(t.data)
        BY <1>1, <1>2, <1>4, <1>7, <4>3 DEF InMemory
      <4>. QED
        BY <2>3, <4>1, <4>4 DEF HasKey
    <3>5. ASSUME NEW y \in Tables, Later(Entries(y.data), e), BehindMemory(y)
          PROVE  y.hi <= t.hi
      <4>1. PICK g \in Entries(t.data) : g.seq >= y.hi
        BY <1>2, <1>3, <3>5 DEF BehindMemory, Reaches
      <4>2. g.seq <= t.hi /\ g.seq \in Nat /\ y.hi \in Nat
        BY <1>1, <1>2, <1>7 DEF IsRight
      <4>3. \A n \in Nat \ {0} : n = 1 \/ n > 1
        OBVIOUS
      <4>. QED
        BY <1>1, <4>1, <4>2, <4>3
    <3>. QED
      BY <1>1, <3>2, <3>3, <3>4, <3>5 DEF StoreInv, PlaceInv, Placed
  <2>. QED
    BY <2>2, <2>3
<1>. QED
  BY <1>1, <1>2, <1>3, <1>4, <1>5, <1>9, <1>10

-----------------------------------------------------------------------------
(* The table joins the manifest.                                           *)
LEMMA TableJoins ==
    ASSUME TypeInv, OrderInv, TablesInv, StoreInv, job.pc = "flush", NEW t \in job.out,
           man' = <<t>> \o man, Logged' = Logged, InMemory' \subseteq InMemory, SameStore
    PROVE  /\ Tables' = {t} \cup Tables /\ t = man'[1]
           /\ UniqueIds(Tables)' /\ NewerHides(Tables)' /\ FlushedBelow(Tables)'
           /\ Keeps(Tables)' /\ MemoryIsSafe'
<1>1. Tables' = {t} \cup Tables /\ t = man'[1]
  <2>1. man \in Seq(Range(man)) /\ Len(man) \in Nat
    BY SequenceOfItsRange DEF TypeInv, TypeOK, AreTables
  <2>2. 1 \in 1 .. Len(man) + 1
    BY <2>1
  <2>3. /\ Range(<<t>> \o man) = {t} \cup Range(man)
        /\ \A i \in 1 .. Len(man) + 1 : (<<t>> \o man)[i] = IF i = 1 THEN t ELSE man[i - 1]
    BY ONLY <2>1, Prepended
  <2>4. (<<t>> \o man)[1] = t
    BY <2>2, <2>3
  <2>. QED
    BY <2>3, <2>4 DEF Tables
<1>2. Recent' \subseteq Recent
  BY DEF Recent
<1>3. /\ Up /\ phase # "down" /\ t.hi \in Nat
      /\ \A u \in Tables : u.hi \in Nat /\ IsMemtable(u.data)
      /\ IsMemtable(t.data) /\ Entries(t.data) \subseteq InMemory
      /\ \A e \in Known : e.seq \in Nat
      /\ Entries(t.data) \subseteq Known
  BY FlushedTable, KnownTyped DEF Up, TypeInv, IsTable, IsEntry, Known
<1>4. UniqueIds(Tables)'
  <2>1. \A u, x \in {t} \cup Tables : u.id = x.id => u = x
    BY FlushedTable DEF StoreInv, CoverInv, UniqueIds
  <2>. QED
    BY <1>1, <2>1 DEF UniqueIds
<1>5. NewerHides(Tables)'
  <2>1. ASSUME NEW u \in {t} \cup Tables, NEW x \in {t} \cup Tables, u.hi >= x.hi,
               NEW e \in Entries(u.data), NEW f \in Entries(x.data), e.key = f.key
        PROVE  e.seq >= f.seq
    <3>1. CASE u = t /\ x = t
      BY <1>3, <2>1, <3>1, EntriesOfMemtable
    <3>2. CASE u = t /\ x \in Tables
      BY <2>1, <3>2, FlushedTable
    <3>3. CASE u \in Tables /\ x = t
      BY <2>1, <3>3, FlushedTable
    <3>4. CASE u \in Tables /\ x \in Tables
      BY <2>1, <3>4 DEF StoreInv, CoverInv, NewerHides
    <3>. QED
      BY <3>1, <3>2, <3>3, <3>4
  <2>. QED
    BY <1>1, <2>1 DEF NewerHides
<1>6. FlushedBelow(Tables)'
  <2>1. ASSUME NEW u \in {t} \cup Tables, NEW e \in Recent, e.seq <= u.hi
        PROVE  \E y \in {t} \cup Tables : y.hi <= u.hi /\ Later(Entries(y.data), e)
    <3>1. CASE u = t
      BY <2>1, <3>1, FlushedTable
    <3>2. CASE u \in Tables
      BY <2>1, <3>2 DEF StoreInv, CoverInv, FlushedBelow
    <3>. QED
      BY <3>1, <3>2
  <2>. QED
    BY <1>1, <1>2, <2>1 DEF FlushedBelow
<1>7. Keeps(Tables)'
  <2>1. ASSUME NEW e, Newest(e)', ~HasKey(Logged', e.key)
        PROVE  e \in In(Tables') \/ (e.val = NotFound /\ ~HasKey(In(Tables'), e.key))
    <3>1. Newest(e) /\ e \in Known
      BY <2>1, NewestBefore DEF TypeInv, StoreInv, Newest
    <3>2. CASE e \in In(Tables)
      BY <1>1, <3>2 DEF In
    <3>3. CASE e.val = NotFound /\ ~HasKey(In(Tables), e.key)
      <4>1. ASSUME NEW f \in Entries(t.data), f.key = e.key
            PROVE  FALSE
        <5>1. f \in InMemory /\ f \notin Logged
          BY <1>3, <2>1, <4>1 DEF HasKey
        <5>2. Later(In(Tables), f)
          BY <1>3, <5>1 DEF StoreInv, KeepInv, MemoryIsSafe
        <5>. QED
          BY <3>3, <4>1, <5>2 DEF Later, HasKey
      <4>. QED
        BY <1>1, <3>3, <4>1 DEF In, HasKey
    <3>. QED
      BY <1>3, <2>1, <3>1, <3>2, <3>3 DEF StoreInv, KeepInv, Keeps
  <2>. QED
    BY <2>1 DEF Keeps
<1>8. MemoryIsSafe'
  <2>1. \A e \in InMemory : e \in Logged \/ Later(In(Tables), e)
    BY <1>3 DEF StoreInv, KeepInv, MemoryIsSafe
  <2>2. In(Tables) \subseteq In(Tables')
    BY <1>1 DEF In
  <2>. QED
    BY <2>1, <2>2 DEF MemoryIsSafe, Later
<1>. QED
  BY <1>1, <1>4, <1>5, <1>6, <1>7, <1>8

(* The save fails: the memtable stays where it is.                         *)
LEMMA FlushSaveFailsStores ==
    ASSUME TypeInv, OrderInv, TablesInv, StoreInv, FlushSaveFails
    PROVE  StoreInv' /\ SameStore
<1>1. /\ UNCHANGED <<recs, activeSeg, lastSeqno, isOpen, dman, readers, active, imms, todo>>
      /\ job.pc = "flush" /\ job'.pc = "idle" /\ job'.out = {}
      /\ writer' = writer \/ (writer.pc # "logged" /\ writer'.pc # "logged")
      /\ phase' = phase \/ phase' = "stopping"
  BY DEF FlushSaveFails, GiveUp, NoJob, DrainAbandoned, WriterNotified, Idle,
     walVars, diskVars
<1>2. PICK t \in job.out : man' = <<t>> \o man
  BY DEF FlushSaveFails
<1>3. /\ Logged' = Logged /\ Memory' = Memory /\ InMemory' = InMemory
      /\ Saved' = Saved /\ Readable' = Readable
      /\ Recent' = Recent /\ UnderWay' = UnderWay /\ Pending' = Pending
  BY <1>1 DEF Logged, Memory, InMemory, Saved, Readable, Recent, UnderWay, Pending
<1>4. Up /\ Up' /\ phase # "down" /\ phase' # "down" /\ IsRight(t)
  BY <1>1, FlushedTable DEF Up
<1>5. Tables' = {t} \cup Tables
  BY <1>2, Prepended DEF TypeInv, TypeOK, AreTables, Tables
<1>6. Known' = Known
  <2>1. Entries(t.data) \subseteq InMemory
    BY <1>1, FlushedTable
  <2>2. In(Saved' \cup Tables' \cup Readable') = In(Saved \cup Tables \cup Readable) \cup Entries(t.data)
    BY <1>3, <1>5 DEF In
  <2>. QED
    BY <1>3, <2>1, <2>2 DEF Known
<1>7. SameStore
  BY <1>6 DEF SameStore
<1>8. /\ t = man'[1]
      /\ UniqueIds(Tables)' /\ NewerHides(Tables)' /\ FlushedBelow(Tables)'
      /\ Keeps(Tables)' /\ MemoryIsSafe'
  BY <1>1, <1>2, <1>3, <1>7, TableJoins
<1>9. LogInv'
  BY <1>1, <1>3, <1>4, <1>6 DEF StoreInv, LogInv, OneEntryPerSeqno, AllCounted, LogIsNewestPart,
     WriterIsLogged, LogIsOpen, TypeInv, Quiet
<1>10. CoverInv'
  <2>1. FlushedBelow(Saved)'
    BY <1>3 DEF StoreInv, CoverInv, FlushedBelow
  <2>2. NewerHides(Saved)' /\ UniqueIds(Saved)'
    BY <1>3 DEF StoreInv, CoverInv, NewerHides, UniqueIds
  <2>. QED
    BY <1>1, <1>3, <1>4, <1>5, <1>8, <2>1, <2>2 DEF StoreInv, CoverInv
<1>11. KeepInv'
  <2>1. Keeps(Saved)'
    BY <1>3, <1>6 DEF StoreInv, KeepInv, Keeps, Newest
  <2>. QED
    BY <1>8, <2>1 DEF KeepInv
<1>12. PlaceInv'
  <2>1. BehindMemory(t)'
    <3>1. \A m \in Memory : m = t.data \/ m \in {active} \cup Range(Front(imms))
      BY <1>1, FlushedTable, QueueSplit DEF TypeInv, OrderInv, Memory
    <3>2. ASSUME NEW m \in Memory, Entries(m) # {}
          PROVE  Reaches(m, t.hi)
      <4>1. CASE m = t.data
        <5>1. PICK f \in Entries(t.data) : f.seq = t.hi
          BY <1>1, FlushedTable
        <5>2. t.hi \in Nat
          BY <1>1, FlushedTable DEF IsTable
        <5>. QED
          BY <4>1, <5>1, <5>2 DEF Reaches
      <4>2. CASE m \in {active} \cup Range(Front(imms))
        <5>1. PICK e \in Entries(m) : e.seq > t.hi
          BY <1>1, <3>2, <4>2, FlushedTable
        <5>2. t.hi \in Nat /\ e \in InMemory
          BY <1>1, <3>2, FlushedTable DEF IsTable, InMemory
        <5>3. e.seq \in Nat
          BY <5>2, KnownTyped DEF IsEntry, Known, TypeInv
        <5>. QED
          BY <5>1, <5>2, <5>3 DEF Reaches
      <4>. QED
        BY <3>1, <3>2, <4>1, <4>2
    <3>. QED
      BY <1>3, <3>2 DEF BehindMemory
  <2>2. \A e \in Logged \ Pending : Placed(e)
    BY <1>4 DEF StoreInv, PlaceInv
  <2>3. ASSUME NEW e \in Logged \ Pending
        PROVE  Placed(e)'
    BY <1>3, <1>5, <2>2 DEF Placed, InPlace, BehindMemory
  <2>. QED
    BY <1>3, <1>5, <1>8, <2>1, <2>3 DEF PlaceInv
<1>13. ReplayInv'
  BY <1>4 DEF ReplayInv, Up
<1>14. ReadInv'
  BY <1>1, <1>3, <1>4, <1>6 DEF StoreInv, ReadInv, MemoryFirst, ReadersFirst, MemtablesCurrent
<1>15. JobInv'
  BY <1>1, NoJobLeft
<1>. QED
  BY <1>7, <1>9, <1>10, <1>11, <1>12, <1>13, <1>14, <1>15 DEF StoreInv

(* The table is published and the memtable leaves the queue.               *)
LEMMA FlushPublishStores ==
    ASSUME TypeInv, OrderInv, TablesInv, StoreInv, FlushPublish
    PROVE  StoreInv' /\ SameStore
<1>1. /\ UNCHANGED <<recs, activeSeg, lastSeqno, isOpen, active, todo, phase>>
      /\ job.pc = "flush" /\ job'.pc = "clean" /\ job'.out = {}
      /\ writer' = writer \/ (writer.pc # "logged" /\ writer'.pc # "logged")
      /\ dman' = man' /\ imms' = Front(imms)
  BY DEF FlushPublish, NoJob, WriterNotified, Idle, walVars
<1>2. PICK t \in job.out : man' = <<t>> \o man /\ readers' = <<t>> \o readers
  BY DEF FlushPublish
<1>3. /\ Up /\ Up' /\ phase # "down" /\ imms # <<>> /\ t.data = Last(imms)
      /\ IsTable(t) /\ IsRight(t) /\ t.hi \in Nat
      /\ Entries(t.data) \subseteq InMemory
      /\ \A m \in {active} \cup Range(Front(imms)) : \A e \in Entries(m) : e.seq > t.hi
  BY <1>1, FlushedTable DEF Up, IsTable
<1>4. /\ Logged' = Logged /\ UnderWay' = UnderWay /\ Pending' = Pending
      /\ Memory' = {active} \cup Range(Front(imms))
  BY <1>1 DEF Logged, UnderWay, Pending, Memory
<1>5. /\ Tables' = {t} \cup Tables /\ Saved' = Tables' /\ Readable' = {t} \cup Readable
  BY <1>1, <1>2, Prepended DEF TypeInv, TypeOK, AreTables, Tables, Readable, Saved
<1>6. /\ Memory' \subseteq Memory /\ InMemory' \subseteq InMemory
      /\ InMemory \subseteq InMemory' \cup Entries(t.data)
      /\ Recent' \subseteq Recent
  <2>1. Memory = Memory' \cup {t.data}
    BY <1>3, <1>4, QueueSplit DEF TypeInv, OrderInv, Memory
  <2>. QED
    BY <1>4, <2>1 DEF InMemory, Recent
<1>7. /\ Known' \subseteq Known
      /\ Logged \cup InMemory \cup In(Readable) \subseteq Known'
  <2>1. In(Saved' \cup Tables' \cup Readable') = In(Tables \cup Readable) \cup Entries(t.data)
    BY <1>5 DEF In
  <2>2. In(Tables \cup Readable) \subseteq In(Saved \cup Tables \cup Readable)
    BY DEF In
  <2>3. In(Readable) \subseteq In(Tables \cup Readable)
    BY DEF In
  <2>. QED
    BY <1>3, <1>4, <1>6, <2>1, <2>2, <2>3 DEF Known
<1>8. SameStore
  BY <1>3, <1>7, NewestIsRead DEF SameStore, TypeInv
<1>9. /\ t = man'[1]
      /\ UniqueIds(Tables)' /\ NewerHides(Tables)' /\ FlushedBelow(Tables)'
      /\ Keeps(Tables)' /\ MemoryIsSafe'
  BY <1>1, <1>2, <1>4, <1>6, <1>8, TableJoins
<1>10. LogInv'
  BY <1>1, <1>4, <1>7 DEF StoreInv, LogInv, OneEntryPerSeqno, AllCounted, LogIsNewestPart,
     WriterIsLogged, LogIsOpen
<1>11. CoverInv'
  <2>1. UniqueIds(Saved)' /\ NewerHides(Saved)' /\ FlushedBelow(Saved)'
    BY <1>5, <1>9 DEF UniqueIds, NewerHides, FlushedBelow
  <2>. QED
    BY <1>1, <1>3, <1>5, <1>9, <2>1 DEF StoreInv, CoverInv
<1>12. KeepInv'
  <2>1. Keeps(Saved)'
    BY <1>5, <1>9 DEF Keeps
  <2>. QED
    BY <1>9, <2>1 DEF KeepInv
<1>13. \A e \in InMemory : IsEntry(e)
  BY KnownTyped DEF TypeInv, Known
<1>14. PlaceInv'
  <2>1. BehindMemory(t)'
    <3>1. ASSUME NEW m \in Memory', Entries(m) # {}
          PROVE  Reaches(m, t.hi)
      <4>1. PICK e \in Entries(m) : e.seq > t.hi
        BY <1>3, <1>4, <3>1
      <4>2. e.seq \in Nat
        BY <1>6, <1>13, <3>1, <4>1 DEF InMemory, IsEntry
      <4>. QED
        BY <1>3, <4>1, <4>2 DEF Reaches
    <3>. QED
      BY <3>1 DEF BehindMemory
  <2>2. ASSUME NEW e \in Logged \ Pending
        PROVE  Placed(e)'
    <3>1. Placed(e)
      BY <1>3 DEF StoreInv, PlaceInv
    <3>2. CASE InPlace(e)
      <4>1. PICK f \in InMemory : /\ f.key = e.key /\ f.seq >= e.seq
                                  /\ \A m \in Memory : Reaches(m, e.seq) => Reaches(m, f.seq)
        BY <3>2 DEF InPlace
      <4>2. CASE f \in InMemory'
        BY <1>6, <4>1, <4>2 DEF Placed, InPlace
      <4>3. CASE f \in Entries(t.data)
        <5>1. Later(Entries(t.data), e)
          BY <4>1, <4>3 DEF Later
        <5>. QED
          BY <1>5, <2>1, <5>1 DEF Placed
      <4>. QED
        BY <1>6, <4>2, <4>3
    <3>3. CASE \E y \in Tables : Later(Entries(y.data), e) /\ BehindMemory(y)
      <4>1. PICK y \in Tables : Later(Entries(y.data), e) /\ BehindMemory(y)
        BY <3>3
      <4>2. BehindMemory(y)'
        BY <1>6, <4>1 DEF BehindMemory
      <4>. QED
        BY <1>5, <4>1, <4>2 DEF Placed
    <3>. QED
      BY <3>1, <3>2, <3>3 DEF Placed
  <2>. QED
    BY <1>4, <1>5, <1>9, <2>1, <2>2 DEF PlaceInv
<1>15. ReplayInv'
  BY <1>3 DEF ReplayInv, Up
<1>16. ReadInv'
  <2>1. ASSUME NEW e \in Known' \ Pending', HasKey(InMemory, e.key)
        PROVE  Later(InMemory, e)
    BY <1>3, <1>4, <1>7, <2>1 DEF StoreInv, ReadInv, MemoryFirst
  <2>2. MemoryFirst'
    <3>1. SUFFICES ASSUME NEW e \in Known' \ Pending', NEW f \in InMemory', f.key = e.key
                   PROVE  Later(InMemory', e)
      BY DEF MemoryFirst, HasKey
    <3>2. PICK g \in InMemory : g.key = e.key /\ g.seq >= e.seq
      BY <1>6, <2>1, <3>1 DEF Later, HasKey
    <3>3. CASE g \in InMemory'
      BY <3>2, <3>3 DEF Later
    <3>4. CASE g \in Entries(t.data)
      <4>1. PICK m \in Memory' : f \in Entries(m)
        BY DEF InMemory
      <4>2. f.seq > t.hi /\ g.seq <= t.hi
        BY <1>3, <1>4, <3>4, <4>1 DEF IsRight
      <4>3. f.seq \in Nat /\ g.seq \in Nat /\ e.seq \in Nat
        BY <1>6, <1>7, <1>13, KnownTyped DEF IsEntry, TypeInv
      <4>4. f.seq >= e.seq
        BY <1>3, <3>2, <4>2, <4>3
      <4>. QED
        BY <3>1, <4>4 DEF Later
    <3>. QED
      BY <1>6, <3>3, <3>4
  <2>3. ReadersFirst'
    <3>1. SUFFICES ASSUME NEW e \in Known' \ Pending', ~HasKey(InMemory', e.key)
                   PROVE  \E i \in DOMAIN readers' :
                             /\ Later(Entries(readers'[i].data), e)
                             /\ \A h \in 1 .. i - 1 : ~HasKey(Entries(readers'[h].data), e.key)
      BY DEF ReadersFirst
    <3>2. /\ Len(readers) \in Nat /\ DOMAIN readers = 1 .. Len(readers)
          /\ DOMAIN readers' = 1 .. Len(readers) + 1
          /\ \A i \in 1 .. Len(readers) + 1 : readers'[i] = IF i = 1 THEN t ELSE readers[i - 1]
      <4>1. readers \in Seq(Range(readers))
        BY DEF TypeInv, TypeOK, AreTables
      <4>. QED
        BY <1>2, <4>1, Prepended, SequenceOfItsRange
    <3>3. CASE HasKey(Entries(t.data), e.key)
      <4>1. HasKey(InMemory, e.key)
        BY <1>3, <3>3 DEF HasKey
      <4>2. PICK g \in InMemory : g.key = e.key /\ g.seq >= e.seq
        BY <2>1, <4>1 DEF Later
      <4>3. Later(Entries(t.data), e)
        BY <1>6, <3>1, <4>2 DEF Later, HasKey
      <4>4. 1 \in DOMAIN readers' /\ readers'[1] = t /\ 1 .. 1 - 1 = {}
        BY <3>2
      <4>. QED
        BY <4>3, <4>4
    <3>4. CASE ~HasKey(Entries(t.data), e.key)
      <4>1. ~HasKey(InMemory, e.key) /\ e \in Known \ Pending
        BY <1>4, <1>6, <1>7, <3>1, <3>4 DEF HasKey
      <4>2. PICK i \in DOMAIN readers :
                    /\ Later(Entries(readers[i].data), e)
                    /\ \A h \in 1 .. i - 1 : ~HasKey(Entries(readers[h].data), e.key)
        BY <1>3, <4>1 DEF StoreInv, ReadInv, ReadersFirst
      <4>3. i + 1 \in DOMAIN readers' /\ readers'[i + 1] = readers[i]
        BY <3>2
      <4>4. ASSUME NEW h \in 1 .. (i + 1) - 1
            PROVE  ~HasKey(Entries(readers'[h].data), e.key)
        <5>1. CASE h = 1
          <6>1. readers'[h] = t
            BY <3>2, <5>1
          <6>. QED
            BY <3>4, <6>1
        <5>2. CASE h # 1
          <6>1. h - 1 \in 1 .. i - 1 /\ readers'[h] = readers[h - 1]
            BY <3>2, <5>2
          <6>. QED
            BY <4>2, <6>1
        <5>. QED
          BY <5>1, <5>2
      <4>. QED
        BY <4>2, <4>3, <4>4
    <3>. QED
      BY <3>3, <3>4
  <2>4. MemtablesCurrent'
    BY <1>6, <1>7 DEF StoreInv, ReadInv, MemtablesCurrent
  <2>. QED
    BY <2>2, <2>3, <2>4 DEF ReadInv
<1>17. JobInv'
  BY <1>1, <1>5 DEF JobInv, FlushesOldest, CleansAfterSave, CompactsWindow
<1>. QED
  BY <1>8, <1>10, <1>11, <1>12, <1>14, <1>15, <1>16, <1>17 DEF StoreInv

-----------------------------------------------------------------------------
(* Log cleanup: oldest segments first, up to the watermark.                *)
LEMMA LogCut ==
    ASSUME TypeInv, OrderInv, StoreInv, job.pc = "clean", NEW w \in Watermark(man),
           NEW gone, gone \subseteq Log!Covered(w),
           \A s \in Log!Covered(w), q \in gone : s <= q => s \in gone,
           recs' = {r \in recs : r.seg \notin gone}
    PROVE  /\ Logged' \subseteq Logged
           /\ \A e \in Logged \ Logged' : Later(In(Tables), e)
           /\ \A f \in Logged', e \in Logged : e.seq >= f.seq => e \in Logged'
           /\ \A r \in recs : r.seg = activeSeg => r \in recs'
<1>1. /\ \A r \in recs : /\ IsRecord(r) /\ r.seg \in Nat /\ r.seq \in Nat
                         /\ EntryOf(r).seq = r.seq /\ EntryOf(r) \in Logged
      /\ activeSeg \in Nat
  BY EntryOfRecord DEF TypeInv, TypeOK, IsRecord, Logged
<1>2. \A s \in gone : s # activeSeg /\ \A r \in recs : r.seg = s => r.seq <= w
  BY DEF Log!Covered
<1>3. /\ phase \in Live /\ isOpen
      /\ \A q, r \in recs : q.seg < r.seg => q.seq < r.seq
      /\ \A r \in recs : r.seg \in segs /\ r.seg <= activeSeg
  BY DEF TypeInv, Quiet, StoreInv, LogInv, LogIsOpen, OrderInv, LogOrdered, LogCounted
<1>4. Logged' \subseteq Logged /\ \A e \in Logged \ Logged' : \E q \in recs : e = EntryOf(q) /\ q.seg \in gone
  BY DEF Logged
<1>5. PICK u \in Tables : u.hi = w /\ u.hi \in Nat
  <2>1. Tables # {} /\ \A t \in Tables : t.hi \in Nat
    BY KnownTyped DEF StoreInv, JobInv, CleansAfterSave, TypeInv, IsTable
  <2>2. w \in {0} \cup {t.hi : t \in Tables} /\ \A t \in Tables : t.hi <= w
    BY DEF Watermark, Greatest, Tables
  <2>. QED
    BY <2>1, <2>2
<1>6. ASSUME NEW e \in Logged \ Logged'
      PROVE  Later(In(Tables), e)
  <2>1. e \in Recent /\ e.seq <= u.hi
    BY <1>1, <1>2, <1>4, <1>5 DEF Recent
  <2>2. PICK y \in Tables : Later(Entries(y.data), e)
    BY <2>1 DEF StoreInv, CoverInv, FlushedBelow
  <2>. QED
    BY <2>2 DEF Later, In
<1>7. ASSUME NEW f \in Logged', NEW e \in Logged, e.seq >= f.seq, e \notin Logged'
      PROVE  FALSE
  <2>1. PICK r \in recs : f = EntryOf(r) /\ r.seg \notin gone
    BY DEF Logged
  <2>2. PICK q \in recs : e = EntryOf(q) /\ q.seg \in gone
    BY <1>4, <1>7
  <2>3. r.seq <= q.seq /\ q.seq <= w /\ w \in Nat
    BY <1>1, <1>2, <1>5, <1>7, <2>1, <2>2
  <2>4. r.seg < q.seg
    <3>1. ~(q.seg < r.seg)
      BY <1>1, <1>3, <2>3
    <3>. QED
      BY <1>1, <2>1, <2>2, <3>1
  <2>5. r.seg # activeSeg
    BY <1>1, <1>3, <2>4
  <2>6. r.seg \notin Log!Covered(w)
    BY <1>1, <2>1, <2>2, <2>4
  <2>7. PICK p \in recs : p.seg = r.seg /\ ~(p.seq <= w)
    BY <1>3, <2>5, <2>6 DEF Log!Covered
  <2>8. p.seq < q.seq
    BY <1>3, <2>4, <2>7
  <2>. QED
    BY <1>1, <2>3, <2>7, <2>8
<1>8. \A r \in recs : r.seg = activeSeg => r \in recs'
  BY <1>2
<1>. QED
  BY <1>4, <1>6, <1>7, <1>8

(* The segments that the tables cover are removed.                         *)
LEMMA FlushCleanStores ==
    ASSUME TypeInv, OrderInv, StoreInv, FlushClean
    PROVE  StoreInv' /\ SameStore
<1>1. /\ UNCHANGED <<activeSeg, lastSeqno, isOpen, dman, man, readers, active, imms, todo,
                     phase, writer>>
      /\ job.pc = "clean" /\ job'.pc = "idle" /\ job'.out = {}
  BY DEF FlushClean, NoJob, Log!RemoveSegments, diskVars, tableVars, memVars
<1>2. /\ Logged' \subseteq Logged
      /\ \A e \in Logged \ Logged' : Later(In(Tables), e)
      /\ \A f \in Logged', e \in Logged : e.seq >= f.seq => e \in Logged'
      /\ \A r \in recs : r.seg = activeSeg => r \in recs'
  <2>1. PICK w \in Watermark(man) : Log!RemoveSegments(Log!Covered(w))
    BY DEF FlushClean
  <2>. QED
    BY <1>1, <2>1, LogCut DEF Log!RemoveSegments
<1>3. /\ Memory' = Memory /\ InMemory' = InMemory
      /\ Saved' = Saved /\ Tables' = Tables /\ Readable' = Readable
      /\ UnderWay' = UnderWay /\ Saved = Tables
  BY <1>1 DEF Memory, InMemory, Saved, Tables, Readable, UnderWay, StoreInv, JobInv, CleansAfterSave
<1>4. Recent' \subseteq Recent /\ Known' \subseteq Known
  BY <1>2, <1>3 DEF Recent, Known
<1>5. Up /\ Up' /\ phase # "down" /\ Pending' = Pending
  BY <1>1, <1>3 DEF TypeInv, Quiet, Live, Up, Pending
<1>6. ASSUME NEW e, Newest(e), e \notin Logged'
      PROVE  e \in Known' /\ (HasKey(Logged, e.key) => e \in In(Tables))
  <2>1. e \in Known /\ \A f \in Known : f.key = e.key => f.seq <= e.seq
    BY <1>6 DEF Newest
  <2>2. CASE e \in Logged
    <3>1. PICK f \in In(Tables) : f.key = e.key /\ f.seq >= e.seq
      BY <1>2, <1>6, <2>2 DEF Later
    <3>2. f \in Known /\ f.seq <= e.seq
      BY <2>1, <3>1, TablesKnown
    <3>3. f = e
      BY <2>1, <3>1, <3>2, KnownTyped DEF StoreInv, LogInv, OneEntryPerSeqno, IsEntry, TypeInv
    <3>4. In(Tables) \subseteq Known'
      BY <1>3 DEF Known, In
    <3>. QED
      BY <3>1, <3>3, <3>4
  <2>3. CASE e \notin Logged
    <3>1. e \in Known'
      BY <1>3, <2>1, <2>3 DEF Known
    <3>2. ~HasKey(Logged, e.key)
      <4>1. ASSUME NEW f \in Logged, f.key = e.key
            PROVE  FALSE
        <5>1. f \in Known /\ f.seq <= e.seq
          BY <2>1, <4>1 DEF Known
        <5>2. f.seq \in Nat /\ e.seq \in Nat
          BY <2>1, <5>1, KnownTyped DEF IsEntry, TypeInv
        <5>. QED
          BY <2>1, <2>3, <5>1, <5>2 DEF StoreInv, LogInv, LogIsNewestPart
      <4>. QED
        BY <4>1 DEF HasKey
    <3>. QED
      BY <3>1, <3>2
  <2>. QED
    BY <2>2, <2>3
<1>7. SameStore
  <2>1. ASSUME NEW e, Newest(e)
        PROVE  e \in Known'
    BY <1>6, <2>1 DEF Known
  <2>. QED
    BY <1>4, <2>1 DEF SameStore
<1>8. LogInv'
  <2>1. OneEntryPerSeqno' /\ AllCounted'
    BY <1>1, <1>4 DEF StoreInv, LogInv, OneEntryPerSeqno, AllCounted
  <2>2. LogIsNewestPart'
    <3>1. SUFFICES ASSUME NEW f \in Logged', NEW e \in Known', e.seq >= f.seq
                   PROVE  e \in Logged'
      BY DEF LogIsNewestPart
    <3>2. e \in Logged
      BY <1>2, <1>4, <3>1 DEF StoreInv, LogInv, LogIsNewestPart
    <3>. QED
      BY <1>2, <3>1, <3>2
  <2>3. WriterIsLogged' /\ LogIsOpen'
    BY <1>1, <1>2 DEF StoreInv, LogInv, WriterIsLogged, LogIsOpen
  <2>. QED
    BY <2>1, <2>2, <2>3 DEF LogInv
<1>9. CoverInv'
  BY <1>1, <1>3, <1>4 DEF StoreInv, CoverInv, NewerHides, FlushedBelow, UniqueIds
<1>10. KeepInv'
  <2>1. ASSUME NEW e, Newest(e)', ~HasKey(Logged', e.key)
        PROVE  e \in In(Tables) \/ (e.val = NotFound /\ ~HasKey(In(Tables), e.key))
    <3>1. Newest(e) /\ e \notin Logged'
      BY <1>7, <2>1, NewestBefore DEF TypeInv, StoreInv, HasKey
    <3>2. HasKey(Logged, e.key) => e \in In(Tables)
      BY <1>6, <3>1
    <3>. QED
      BY <1>5, <3>1, <3>2 DEF StoreInv, KeepInv, Keeps, Newest
  <2>2. Keeps(Saved)' /\ Keeps(Tables)'
    BY <1>3, <2>1 DEF Keeps
  <2>3. MemoryIsSafe'
    BY <1>2, <1>3, <1>5 DEF StoreInv, KeepInv, MemoryIsSafe
  <2>. QED
    BY <2>2, <2>3 DEF KeepInv
<1>11. PlaceInv'
  <2>1. Logged' \ Pending' \subseteq Logged \ Pending /\ man' = man
    BY <1>1, <1>2, <1>5
  <2>2. ASSUME NEW e, Placed(e)
        PROVE  Placed(e)'
    BY <1>3, <2>2 DEF Placed, InPlace, BehindMemory
  <2>3. ASSUME NEW e, InPlace(e)
        PROVE  InPlace(e)'
    BY <1>3, <2>3 DEF InPlace
  <2>4. ASSUME NEW t \in Tables, t = man[1], BehindMemory(t)
        PROVE  \E u \in Tables' : u = man'[1] /\ BehindMemory(u)'
    BY <1>3, <2>1, <2>4 DEF BehindMemory
  <2>. QED
    BY <1>5, <2>1, <2>2, <2>3, <2>4 DEF StoreInv, PlaceInv
<1>12. ReplayInv'
  BY <1>5 DEF ReplayInv, Up
<1>13. ReadInv'
  <2>1. MemtablesCurrent'
    BY <1>3, <1>4 DEF StoreInv, ReadInv, MemtablesCurrent
  <2>2. MemoryFirst' /\ ReadersFirst'
    BY <1>1, <1>3, <1>4, <1>5 DEF StoreInv, ReadInv, MemoryFirst, ReadersFirst
  <2>. QED
    BY <2>1, <2>2 DEF ReadInv
<1>14. JobInv'
  BY <1>1, NoJobLeft
<1>. QED
  BY <1>7, <1>8, <1>9, <1>10, <1>11, <1>12, <1>13, <1>14 DEF StoreInv

-----------------------------------------------------------------------------
(* The process ends: what is known is what is on disk.                     *)
LEMMA ForgottenStores ==
    ASSUME TypeInv, StoreInv, ForgetMemory, UNCHANGED <<dman, lastSeqno>>,
           Logged' \subseteq Logged,
           \A e \in Logged \ Logged' : Later(In(Saved), e),
           \A f \in Logged', e \in Logged : e.seq >= f.seq => e \in Logged'
    PROVE  StoreInv' /\ SameStore
<1>1. /\ phase' = "down" /\ man' = <<>> /\ readers' = <<>>
      /\ active' = EmptyMemtable /\ imms' = <<>> /\ todo' = {}
      /\ writer'.pc = "idle" /\ job'.pc = "idle" /\ job'.out = {} /\ lastSeqno' = lastSeqno
  BY DEF ForgetMemory, Idle, NoJob
<1>2. /\ Memory' = {EmptyMemtable} /\ InMemory' = {}
      /\ Saved' = Saved /\ Tables' = {} /\ Readable' = {}
  BY <1>1, EntriesEmpty, EmptyRange DEF Memory, InMemory, Saved, Tables, Readable
<1>3. Known' = Logged' \cup In(Saved) /\ Recent' = Logged'
  BY <1>2 DEF Known, Recent
<1>4. Known' \subseteq Known /\ Recent' \subseteq Recent
  BY <1>3, TablesKnown DEF Known, Recent
<1>5. \A e \in Known : IsEntry(e)
  BY KnownTyped DEF TypeInv
<1>6. SameStore
  <2>1. ASSUME NEW e, Newest(e)
        PROVE  e \in Known' \/ (e.val = NotFound /\ ~HasKey(Known', e.key))
    <3>1. e \in Known /\ \A f \in Known : f.key = e.key => f.seq <= e.seq
      BY <2>1 DEF Newest
    <3>2. CASE e \in Logged \ Logged'
      <4>1. PICK f \in In(Saved) : f.key = e.key /\ f.seq >= e.seq
        BY <3>2 DEF Later
      <4>2. f \in Known /\ f.seq <= e.seq
        BY <3>1, <4>1, TablesKnown
      <4>3. f = e
        BY <1>5, <3>1, <4>1, <4>2 DEF StoreInv, LogInv, OneEntryPerSeqno, IsEntry
      <4>. QED
        BY <1>3, <4>1, <4>3
    <3>3. CASE e \notin Logged
      <4>1. ~HasKey(Logged, e.key)
        <5>1. ASSUME NEW f \in Logged, f.key = e.key
              PROVE  FALSE
          <6>1. f \in Known /\ f.seq <= e.seq
            BY <3>1, <5>1 DEF Known
          <6>2. f.seq \in Nat /\ e.seq \in Nat
            BY <1>5, <3>1, <6>1 DEF IsEntry
          <6>. QED
            BY <3>1, <3>3, <6>1, <6>2 DEF StoreInv, LogInv, LogIsNewestPart
        <5>. QED
          BY <5>1 DEF HasKey
      <4>2. e \in In(Saved) \/ (e.val = NotFound /\ ~HasKey(In(Saved), e.key))
        BY <2>1, <3>1, <4>1 DEF StoreInv, KeepInv, Keeps
      <4>. QED
        BY <1>3, <4>1, <4>2 DEF HasKey
    <3>. QED
      BY <1>3, <3>2, <3>3
  <2>. QED
    BY <1>4, <2>1 DEF SameStore
<1>7. LogInv'
  <2>1. OneEntryPerSeqno' /\ AllCounted'
    BY <1>1, <1>4 DEF StoreInv, LogInv, OneEntryPerSeqno, AllCounted
  <2>2. LogIsNewestPart'
    <3>1. SUFFICES ASSUME NEW f \in Logged', NEW e \in Known', e.seq >= f.seq
                   PROVE  e \in Logged'
      BY DEF LogIsNewestPart
    <3>2. e \in Logged
      BY <1>4, <3>1 DEF StoreInv, LogInv, LogIsNewestPart
    <3>. QED
      BY <3>1, <3>2
  <2>. QED
    BY <1>1, <2>1, <2>2 DEF LogInv, WriterIsLogged, LogIsOpen, Live
<1>8. CoverInv'
  BY <1>1, <1>2, <1>4 DEF StoreInv, CoverInv, NewerHides, FlushedBelow, UniqueIds
<1>9. KeepInv'
  BY <1>1, <1>2, <1>3 DEF KeepInv, Keeps, HasKey
<1>10. PlaceInv' /\ ReplayInv'
  BY <1>1 DEF PlaceInv, ReplayInv
<1>11. ReadInv'
  BY <1>1, <1>2, EntriesEmpty DEF ReadInv, Up, MemtablesCurrent
<1>12. JobInv'
  BY <1>1, NoJobLeft
<1>. QED
  BY <1>6, <1>7, <1>8, <1>9, <1>10, <1>11, <1>12 DEF StoreInv

(* However the process ends.                                               *)
LEMMA StopStores ==
    ASSUME TypeInv, OrderInv, StoreInv, Stop
    PROVE  StoreInv' /\ SameStore
<1>1. CASE CloseGracefully \/ CloseFast \/ Drained \/ CloseLog
  BY <1>1, CloseMoves
<1>2. CASE Exit \/ Crash \/ CrashInRotate
  <2>1. ForgetMemory /\ UNCHANGED <<dman, lastSeqno, recs>>
    BY <1>2 DEF Exit, Crash, CrashInRotate, Log!Crash, Log!CrashInRoll, walVars, diskVars
  <2>2. Logged' = Logged
    BY <2>1 DEF Logged
  <2>. QED
    BY <2>1, <2>2, ForgottenStores
<1>3. CASE CrashInCleanup
  <2>1. ForgetMemory /\ UNCHANGED <<dman, lastSeqno>> /\ job.pc = "clean"
    BY <1>3 DEF CrashInCleanup, diskVars
  <2>2. PICK w \in Watermark(man) : \E last \in Log!Covered(w) :
           recs' = {r \in recs : r.seg \notin {s \in Log!Covered(w) : s <= last}}
    BY <1>3 DEF CrashInCleanup
  <2>3. PICK last \in Log!Covered(w) :
           recs' = {r \in recs : r.seg \notin {s \in Log!Covered(w) : s <= last}}
    BY <2>2
  <2>4. PICK gone : gone = {s \in Log!Covered(w) : s <= last}
    OBVIOUS
  <2>5. \A s \in Log!Covered(w) : s \in Nat
    BY DEF Log!Covered, TypeInv, TypeOK
  <2>6. \A s \in Log!Covered(w), q \in gone : s <= q => s \in gone
    BY <2>3, <2>4, <2>5
  <2>7. gone \subseteq Log!Covered(w) /\ recs' = {r \in recs : r.seg \notin gone}
    BY <2>3, <2>4
  <2>8. /\ Logged' \subseteq Logged
        /\ \A e \in Logged \ Logged' : Later(In(Tables), e)
        /\ \A f \in Logged', e \in Logged : e.seq >= f.seq => e \in Logged'
    BY <2>1, <2>6, <2>7, LogCut
  <2>9. Saved = Tables
    BY <2>1 DEF StoreInv, JobInv, CleansAfterSave
  <2>. QED
    BY <2>1, <2>8, <2>9, ForgottenStores
<1>. QED
  BY <1>1, <1>2, <1>3 DEF Stop

-----------------------------------------------------------------------------
(* open().                                                                 *)

(* In a list sorted by max_seqno, the first table with a key has the       *)
(* newest entry of it.                                                     *)
LEMMA SortedFirst ==
    ASSUME NEW s, AreTables(s), \A i, j \in DOMAIN s : i < j => s[i].hi >= s[j].hi,
           NewerHides(Range(s)), NEW e \in In(Range(s))
    PROVE  \E i \in DOMAIN s :
              /\ Later(Entries(s[i].data), e)
              /\ \A h \in 1 .. i - 1 : ~HasKey(Entries(s[h].data), e.key)
<1>1. /\ Len(s) \in Nat /\ DOMAIN s = 1 .. Len(s)
      /\ \A i \in 1 .. Len(s) : s[i] \in Range(s) /\ s[i].hi \in Nat
  BY SequenceOfItsRange DEF AreTables, IsTable
<1>2. PICK j \in 1 .. Len(s) : e \in Entries(s[j].data)
  BY SequenceOfItsRange DEF In, AreTables
<1>. DEFINE H == {i \in 1 .. Len(s) : HasKey(Entries(s[i].data), e.key)}
<1>3. H \in SUBSET Nat /\ j \in H
  BY <1>1, <1>2 DEF HasKey
<1>4. PICK i \in H : \A h \in H : i <= h
  BY <1>3, LeastOfNaturals
<1>5. PICK f \in Entries(s[i].data) : f.key = e.key
  BY <1>4 DEF HasKey
<1>6. s[i].hi >= s[j].hi
  <2>1. i = j \/ i < j
    BY <1>3, <1>4
  <2>. QED
    BY <1>1, <1>2, <1>4, <2>1
<1>7. f.seq >= e.seq
  BY <1>1, <1>2, <1>4, <1>5, <1>6 DEF NewerHides
<1>8. ASSUME NEW h \in 1 .. i - 1
      PROVE  ~HasKey(Entries(s[h].data), e.key)
  <2>1. h \in 1 .. Len(s) /\ ~(i <= h)
    BY <1>1, <1>4
  <2>. QED
    BY <1>4, <2>1
<1>. QED
  BY <1>1, <1>4, <1>5, <1>7, <1>8 DEF Later

(* Memory is empty while the process is down.                              *)
LEMMA NothingInMemory ==
    ASSUME TypeOK, HeldCounted, phase = "down"
    PROVE  InMemory = {}
<1>. QED
  BY HeldInMemory DEF HeldCounted

(* The manifest is read: what is known is what is on disk.                 *)
LEMMA LoadManifestStores ==
    ASSUME TypeInv, OrderInv, StoreInv, LoadManifest
    PROVE  StoreInv' /\ SameStore
<1>1. /\ UNCHANGED <<recs, activeSeg, lastSeqno, isOpen, dman, active, imms, writer, job>>
      /\ phase = "down" /\ phase' = "replay" /\ todo' = recs
  BY DEF LoadManifest, walVars, memVars
<1>2. PICK order \in SortedByMaxSeqno(Saved) : man' = order /\ readers' = order
  BY DEF LoadManifest, Saved
<1>3. /\ Range(order) = Saved
      /\ \A i, j \in DOMAIN order : i < j => order[i].hi >= order[j].hi
  <2>1. IsFiniteSet(Saved)
    BY FiniteRange DEF TypeInv, TypeOK, AreTables, Saved
  <2>. QED
    BY <2>1, SortedTables DEF SortedByMaxSeqno
<1>4. writer.pc = "idle" /\ writer'.pc = "idle" /\ job'.pc = "idle" /\ InMemory = {}
  BY <1>1, NothingInMemory DEF TypeInv, Quiet, Live, OrderInv, WriterNext
<1>5. /\ Logged' = Logged /\ Memory' = Memory /\ InMemory' = {} /\ Recent' = Logged
      /\ Recent = Logged /\ Saved' = Saved /\ Tables' = Saved /\ Readable' = Saved
      /\ Pending' = Logged
  BY <1>1, <1>2, <1>3, <1>4
     DEF Logged, Memory, InMemory, Recent, Saved, Tables, Readable, Pending, UnderWay
<1>6. Known' = Logged \cup In(Saved) /\ Known' \subseteq Known
  BY <1>5, TablesKnown DEF Known
<1>7. SameStore
  <2>1. ASSUME NEW e, Newest(e), e \notin Logged
        PROVE  e \in Known' \/ (e.val = NotFound /\ ~HasKey(Known', e.key))
    <3>1. e \in Known /\ \A f \in Known : f.key = e.key => f.seq <= e.seq
      BY <2>1 DEF Newest
    <3>2. ~HasKey(Logged, e.key)
      <4>1. ASSUME NEW f \in Logged, f.key = e.key
            PROVE  FALSE
        <5>1. f \in Known /\ f.seq <= e.seq
          BY <3>1, <4>1 DEF Known
        <5>2. f.seq \in Nat /\ e.seq \in Nat
          BY <3>1, <5>1, KnownTyped DEF IsEntry, TypeInv
        <5>. QED
          BY <2>1, <3>1, <5>1, <5>2 DEF StoreInv, LogInv, LogIsNewestPart
      <4>. QED
        BY <4>1 DEF HasKey
    <3>3. e \in In(Saved) \/ (e.val = NotFound /\ ~HasKey(In(Saved), e.key))
      BY <2>1, <3>1, <3>2 DEF StoreInv, KeepInv, Keeps
    <3>. QED
      BY <1>6, <3>2, <3>3 DEF HasKey
  <2>. QED
    BY <1>6, <2>1 DEF SameStore
<1>8. LogInv'
  BY <1>1, <1>4, <1>5, <1>6 DEF StoreInv, LogInv, OneEntryPerSeqno, AllCounted, LogIsNewestPart,
     WriterIsLogged, LogIsOpen, Live
<1>9. CoverInv'
  BY <1>1, <1>5 DEF StoreInv, CoverInv, NewerHides, FlushedBelow, UniqueIds
<1>10. KeepInv'
  BY <1>5, <1>6 DEF KeepInv, Keeps, HasKey, MemoryIsSafe
<1>11. PlaceInv'
  BY <1>5 DEF PlaceInv
<1>12. ReplayInv'
  BY <1>2, <1>3, <1>5 DEF ReplayInv
<1>13. ReadInv'
  <2>1. \A m \in Memory : Entries(m) = {}
    BY <1>4 DEF InMemory
  <2>. QED
    BY <1>1, <1>5, <2>1 DEF ReadInv, Up, MemtablesCurrent
<1>14. JobInv'
  BY <1>4, NoJobLeft
<1>. QED
  BY <1>7, <1>8, <1>9, <1>10, <1>11, <1>12, <1>13, <1>14 DEF StoreInv

(* A record reaches the memtable again.                                    *)
LEMMA ReplayStores ==
    ASSUME TypeInv, OrderInv, StoreInv, ReplayOne
    PROVE  StoreInv' /\ SameStore
<1>1. /\ UNCHANGED <<recs, activeSeg, lastSeqno, isOpen, dman, man, readers, phase, writer, job>>
      /\ phase = "replay"
  BY DEF ReplayOne, walVars, diskVars, tableVars
<1>2. PICK r \in todo :
         /\ OldestRecord(r) /\ todo' = todo \ {r}
         /\ \/ active' = EmptyMemtable /\ imms' = <<Apply(active, r)>> \o imms
            \/ active' = Apply(active, r) /\ imms' = imms
  BY DEF ReplayOne
<1>3. PICK n : n = EntryOf(r)
  OBVIOUS
<1>4. /\ r \in recs /\ n \in Logged /\ n.seq = r.seq /\ n.key = r.op.key /\ r.seq \in Nat
      /\ writer.pc = "idle" /\ job.pc = "idle"
  BY <1>1, <1>2, <1>3, EntryOfRecord
     DEF TypeInv, TypeOK, Logged, IsRecord, OrderInv, WriterNext, Quiet, Live
<1>5. Grows(r)
  <2>1. CASE active' = EmptyMemtable /\ imms' = <<Apply(active, r)>> \o imms
    <3>1. Range(imms') = {Apply(active, r)} \cup Range(imms)
      BY <2>1, Prepended DEF TypeInv, TypeOK, AreMemtables
    <3>. QED
      BY <2>1, <3>1 DEF Grows, Memory
  <2>2. CASE active' = Apply(active, r) /\ imms' = imms
    BY <2>2 DEF Grows, Memory
  <2>. QED
    BY <1>2, <2>1, <2>2
<1>6. \A e \in InMemory : e.seq < r.seq
  <2>1. \A h \in Held : r.seq > h
    BY <1>2 DEF OrderInv, MemoryOrdered, Above
  <2>2. \A e \in InMemory : e.seq \in Held /\ e.seq \in Nat
    BY HeldInMemory, KnownTyped DEF TypeInv, Known, IsEntry
  <2>. QED
    BY <1>4, <2>1, <2>2
<1>7. /\ n \in InMemory' /\ InMemory' \subseteq InMemory \cup {n} /\ InPlace(n)'
      /\ \A e : IsEntry(e) /\ InPlace(e) => InPlace(e)'
  BY <1>3, <1>4, <1>5, <1>6, MemoryGrows DEF TypeInv, OrderInv
<1>8. InMemory \subseteq Logged
  BY <1>1 DEF StoreInv, ReplayInv
<1>9. /\ Logged' = Logged /\ Saved' = Saved /\ Tables' = Tables /\ Readable' = Readable
      /\ InMemory' \subseteq Logged /\ Recent' = Recent /\ Known' = Known
  BY <1>1, <1>4, <1>7, <1>8 DEF Logged, Saved, Tables, Readable, Recent, Known
<1>10. \A e \in Known : IsEntry(e)
  BY KnownTyped DEF TypeInv
<1>11. SameStore
  BY <1>9 DEF SameStore
<1>12. LogInv'
  BY <1>1, <1>9 DEF StoreInv, LogInv, OneEntryPerSeqno, AllCounted, LogIsNewestPart,
     WriterIsLogged, LogIsOpen
<1>13. CoverInv'
  BY <1>1, <1>9 DEF StoreInv, CoverInv, NewerHides, FlushedBelow, UniqueIds
<1>14. KeepInv'
  BY <1>1, <1>9 DEF StoreInv, KeepInv, Keeps, Newest, MemoryIsSafe
<1>15. ASSUME NEW e \in Logged', e \notin Pending'
       PROVE  InPlace(e)'
  <2>1. CASE e \in Pending
    <3>1. PICK q \in todo : e = EntryOf(q)
      BY <1>4, <2>1 DEF Pending, UnderWay
    <3>2. q = r
      BY <1>2, <1>15, <3>1 DEF Pending
    <3>. QED
      BY <1>3, <1>7, <3>1, <3>2
  <2>2. CASE e \notin Pending
    <3>1. InPlace(e)
      BY <1>1, <1>9, <1>15, <2>2 DEF StoreInv, ReplayInv
    <3>2. IsEntry(e)
      BY <1>9, <1>10, <1>15 DEF Known
    <3>. QED
      BY <1>7, <3>1, <3>2
  <2>. QED
    BY <2>1, <2>2
<1>16. PlaceInv'
  BY <1>15 DEF PlaceInv, Placed
<1>17. ReplayInv'
  BY <1>1, <1>9, <1>15 DEF StoreInv, ReplayInv
<1>18. ReadInv'
  <2>1. ASSUME NEW f \in Entries(active), NEW e \in Known,
               e.key = f.key, e.key # r.op.key, e.seq <= r.seq
        PROVE  Later(InMemory, e)
    <3>1. f \in InMemory /\ f \in Logged /\ f \in Known /\ f.seq \in Nat /\ e.seq \in Nat
      BY <1>8, <1>10 DEF InMemory, Memory, Known, IsEntry
    <3>2. CASE f.seq >= e.seq
      BY <2>1, <3>1, <3>2 DEF Later
    <3>3. CASE e.seq >= f.seq
      <4>1. e \in Logged
        BY <3>1, <3>3 DEF StoreInv, LogInv, LogIsNewestPart
      <4>2. e \notin Pending
        <5>1. ASSUME e \in Pending
              PROVE  FALSE
          <6>1. PICK q \in todo : e = EntryOf(q)
            BY <1>4, <5>1 DEF Pending, UnderWay
          <6>2. q \in recs /\ e.seq = q.seq /\ e.key = q.op.key
            BY <6>1, EntryOfRecord DEF TypeInv, TypeOK
          <6>3. r.seq <= q.seq
            <7>1. r.seg < q.seg => r.seq < q.seq
              BY <1>4, <6>2 DEF OrderInv, LogOrdered
            <7>. QED
              BY <1>2, <1>4, <3>1, <6>1, <6>2, <7>1 DEF OldestRecord
          <6>4. q.seq = r.seq
            BY <1>4, <2>1, <3>1, <6>2, <6>3
          <6>5. q = r
            BY <1>4, <6>2, <6>4 DEF OrderInv, LogOrdered
          <6>. QED
            BY <2>1, <6>2, <6>5
        <5>. QED
          BY <5>1
      <4>3. InPlace(e)
        BY <1>1, <4>1, <4>2 DEF StoreInv, ReplayInv
      <4>. QED
        BY <4>3 DEF InPlace, Later
    <3>. QED
      BY <3>1, <3>2, <3>3
  <2>2. MemtablesCurrent'
    BY <1>4, <1>5, <1>6, <1>9, <2>1, CurrentGrows DEF TypeInv, OrderInv, StoreInv, ReadInv
  <2>. QED
    BY <1>1, <2>2 DEF ReadInv, Up
<1>19. JobInv'
  BY <1>1, <1>4, NoJobLeft
<1>. QED
  BY <1>11, <1>12, <1>13, <1>14, <1>16, <1>17, <1>18, <1>19 DEF StoreInv

(* The counter starts from the newest of the log and of the tables.        *)
LEMMA FinishOpenStores ==
    ASSUME TypeInv, OrderInv, StoreInv, FinishOpen
    PROVE  StoreInv' /\ SameStore
<1>1. /\ UNCHANGED <<recs, dman, man, readers, active, imms, todo, writer, job>>
      /\ phase = "replay" /\ phase' = "running" /\ todo = {} /\ isOpen' = TRUE
  BY DEF FinishOpen, Log!Open, diskVars, tableVars, memVars
<1>2. /\ Logged' = Logged /\ Memory' = Memory /\ InMemory' = InMemory
      /\ Saved' = Saved /\ Tables' = Tables /\ Readable' = Readable
      /\ Known' = Known /\ Recent' = Recent
      /\ UnderWay' = UnderWay /\ Pending' = Pending
  BY <1>1 DEF Logged, Memory, InMemory, Saved, Tables, Readable, Known, Recent, UnderWay, Pending
<1>3. /\ writer.pc = "idle" /\ job.pc = "idle" /\ Pending = {}
      /\ Tables = Saved /\ Readable = Saved /\ InMemory \subseteq Logged
      /\ \A i, j \in DOMAIN readers : i < j => readers[i].hi >= readers[j].hi
      /\ \A e \in Logged : InPlace(e)
  BY <1>1 DEF OrderInv, WriterNext, TypeInv, Quiet, Live, Pending, UnderWay, StoreInv, ReplayInv
<1>4. \A e \in Known : e \in Logged \/ e \in In(Saved)
  BY <1>3 DEF Known
<1>5. /\ \A e \in Known : IsEntry(e) /\ e.seq \in Nat
      /\ \A t \in Tables : t.hi \in Nat /\ IsRight(t)
  BY KnownTyped DEF TypeInv, IsEntry, IsTable, StoreInv, CoverInv
<1>6. SameStore
  BY <1>2 DEF SameStore
<1>7. AllCounted'
  <2>1. PICK w \in Watermark(man) : Log!Open(w)
    BY DEF FinishOpen
  <2>2. PICK n \in {w} \cup {r.seq : r \in recs} :
           /\ \A m \in {w} \cup {r.seq : r \in recs} : m <= n
           /\ lastSeqno' = n
    BY <2>1 DEF Log!Open
  <2>3. w \in Nat /\ \A t \in Tables : t.hi <= w
    BY <1>5 DEF Watermark, Greatest, Tables
  <2>4. n \in Nat
    BY <2>2, <2>3 DEF TypeInv, TypeOK, IsRecord
  <2>5. ASSUME NEW e \in Logged
        PROVE  e.seq <= n
    <3>1. PICK r \in recs : e = EntryOf(r)
      BY DEF Logged
    <3>. QED
      BY <2>2, <3>1, EntryOfRecord DEF TypeInv, TypeOK
  <2>6. ASSUME NEW e \in In(Saved)
        PROVE  e.seq <= n
    <3>1. PICK t \in Tables : e \in Entries(t.data)
      BY <1>3 DEF In
    <3>2. e.seq <= t.hi /\ t.hi <= w /\ w <= n /\ t.hi \in Nat /\ e.seq \in Nat
      BY <1>5, <2>2, <2>3, <3>1, TablesKnown DEF IsRight
    <3>. QED
      BY <2>3, <2>4, <3>2
  <2>. QED
    BY <1>2, <1>4, <2>2, <2>5, <2>6 DEF AllCounted
<1>8. LogInv'
  BY <1>1, <1>2, <1>3, <1>7 DEF StoreInv, LogInv, OneEntryPerSeqno, LogIsNewestPart,
     WriterIsLogged, LogIsOpen
<1>9. CoverInv'
  BY <1>1, <1>2 DEF StoreInv, CoverInv, NewerHides, FlushedBelow, UniqueIds
<1>10. KeepInv'
  BY <1>1, <1>2 DEF StoreInv, KeepInv, Keeps, Newest, MemoryIsSafe
<1>11. PlaceInv'
  BY <1>2, <1>3 DEF PlaceInv, Placed, InPlace
<1>12. ReplayInv'
  BY <1>1 DEF ReplayInv
<1>13. ReadInv'
  <2>1. MemoryFirst
    <3>1. SUFFICES ASSUME NEW e \in Known, NEW f \in InMemory, f.key = e.key
                   PROVE  Later(InMemory, e)
      BY DEF MemoryFirst, HasKey
    <3>2. f \in Logged /\ f \in Known /\ f.seq \in Nat /\ e.seq \in Nat
      BY <1>3, <1>5 DEF Known
    <3>3. CASE f.seq >= e.seq
      BY <3>1, <3>3 DEF Later
    <3>4. CASE e.seq >= f.seq
      <4>1. e \in Logged
        BY <3>2, <3>4 DEF StoreInv, LogInv, LogIsNewestPart
      <4>. QED
        BY <1>3, <4>1 DEF InPlace, Later
    <3>. QED
      BY <3>2, <3>3, <3>4
  <2>2. ReadersFirst
    <3>1. SUFFICES ASSUME NEW e \in Known, ~HasKey(InMemory, e.key)
                   PROVE  \E i \in DOMAIN readers :
                             /\ Later(Entries(readers[i].data), e)
                             /\ \A h \in 1 .. i - 1 : ~HasKey(Entries(readers[h].data), e.key)
      BY DEF ReadersFirst
    <3>2. e \notin Logged
      BY <1>3, <3>1 DEF InPlace, HasKey
    <3>3. e \in In(Range(readers)) /\ NewerHides(Range(readers)) /\ AreTables(readers)
      BY <1>3, <1>4, <3>2 DEF Readable, StoreInv, CoverInv, TypeInv, TypeOK
    <3>. QED
      BY <1>3, <3>3, SortedFirst
  <2>3. MemtablesCurrent'
    BY <1>2 DEF StoreInv, ReadInv, MemtablesCurrent
  <2>4. MemoryFirst' /\ ReadersFirst'
    BY <1>1, <1>2, <2>1, <2>2 DEF MemoryFirst, ReadersFirst
  <2>. QED
    BY <2>3, <2>4 DEF ReadInv
<1>14. JobInv'
  BY <1>1, <1>3, NoJobLeft
<1>. QED
  BY <1>6, <1>8, <1>9, <1>10, <1>11, <1>12, <1>13, <1>14 DEF StoreInv

-----------------------------------------------------------------------------
(* Compaction.                                                             *)

Rest == {t \in Tables : t.id \notin job.ins}

(* The key of e leaves the tables: its newest entry in the inputs is a     *)
(* delete marker older than all the other tables.                          *)
Dropped(e) ==
    /\ ~HasKey(In(job.out), e.key)
    /\ \E d \in In(Inputs) : /\ d.key = e.key /\ d.val = NotFound /\ d.seq >= e.seq
                             /\ \A t \in Rest : t.lo > d.seq

(* A table comes out of what is not empty.                                 *)
LEMMA TableComesOut ==
    ASSUME NEW id, NEW m, IsMemtable(m), DOMAIN m # {},
           NEW N \in Nat, \A n \in Seqnos(m) : n <= N
    PROVE  \E t \in TablesOf(id, m) : t.data = m
<1>1. Seqnos(m) \in SUBSET Nat /\ Seqnos(m) # {}
  BY SeqnosTyped DEF Seqnos
<1>2. PICK h \in Seqnos(m) : \A n \in Seqnos(m) : n <= h
  BY <1>1, GreatestOfNaturals
<1>3. PICK l \in Seqnos(m) : \A n \in Seqnos(m) : l <= n
  BY <1>1, LeastOfNaturals
<1>4. [id |-> id, data |-> m, lo |-> l, hi |-> h] \in TablesOf(id, m)
  BY <1>2, <1>3 DEF TablesOf
<1>. QED
  BY <1>4

(* The inputs are adjacent in the manifest, so that every other table is   *)
(* above all of them or below all of them.                                 *)
LEMMA WindowInOrder ==
    ASSUME TypeOK, UniqueIds(Tables), InOrder, NEW j \in DOMAIN man, NEW i \in 1 .. j,
           NEW w, w = Window(i, j), job.ins = Ids(w)
    PROVE  /\ AreTables(w) /\ Range(w) = Inputs /\ Inputs \subseteq Tables
           /\ Rest = Range(man) \ Range(w)
           /\ \A p, q \in DOMAIN w : p <= q => w[p].hi >= w[q].hi
           /\ \E x \in Inputs : \A y \in Inputs : y.hi <= x.hi
           /\ \A u \in Rest : \/ \A x \in Inputs : u.hi > x.hi
                              \/ \A x \in Inputs : x.hi > u.hi
<1>1. AreTables(man) /\ man \in Seq(Range(man))
  BY DEF TypeOK, AreTables
<1>2. /\ Len(man) \in Nat /\ DOMAIN man = 1 .. Len(man)
      /\ \A p \in 1 .. Len(man) : man[p] \in Tables /\ man[p].hi \in Nat
      /\ \A t \in Tables : \E p \in 1 .. Len(man) : t = man[p]
  BY <1>1, SequenceOfItsRange DEF AreTables, Tables, IsTable
<1>3. AreTables(w) /\ Range(w) \subseteq Tables
  BY <1>1, WindowTyped DEF Tables
<1>4. /\ Len(w) = j - i + 1 /\ DOMAIN w = 1 .. j - i + 1
      /\ \A p \in 1 .. j - i + 1 : w[p] = man[i + p - 1]
  <2>1. i \in Nat /\ j \in Nat /\ 1 <= i /\ i <= j /\ j <= Len(man)
    BY <1>2
  <2>2. \A p \in i .. j : man[p] \in Range(man)
    BY <1>2, <2>1 DEF Tables
  <2>3. /\ Len(w) = IF i <= j THEN j - i + 1 ELSE 0
        /\ \A p \in 1 .. j - i + 1 : w[p] = man[i + p - 1]
    BY <1>1, <1>2, <2>1, <2>2, SubSeqProperties DEF Window
  <2>4. Len(w) = j - i + 1
    BY <2>1, <2>3
  <2>. QED
    BY <1>3, <2>3, <2>4, SequenceOfItsRange DEF AreTables
<1>5. \A t \in Range(w) : \E p \in i .. j : t = man[p]
  <2>. TAKE t \in Range(w)
  <2>1. PICK p \in 1 .. j - i + 1 : t = man[i + p - 1]
    BY <1>4 DEF Range
  <2>2. i + p - 1 \in i .. j
    BY <1>2
  <2>. QED
    BY <2>1, <2>2
<1>6. \A p \in i .. j : man[p] \in Range(w)
  <2>. TAKE p \in i .. j
  <2>1. p - i + 1 \in 1 .. j - i + 1 /\ i + (p - i + 1) - 1 = p
    BY <1>2
  <2>2. w[p - i + 1] = man[p]
    BY <1>4, <2>1
  <2>. QED
    BY <1>4, <2>1, <2>2 DEF Range
<1>7. Range(w) = Inputs
  BY <1>3 DEF Inputs, Ids, UniqueIds
<1>8. Rest = Range(man) \ Range(w)
  BY <1>7 DEF Rest, Inputs, Tables
<1>9. \A p, q \in DOMAIN w : p <= q => w[p].hi >= w[q].hi
  <2>. SUFFICES ASSUME NEW p \in DOMAIN w, NEW q \in DOMAIN w, p <= q
                PROVE  w[p].hi >= w[q].hi
    OBVIOUS
  <2>1. i + p - 1 \in 1 .. Len(man) /\ i + q - 1 \in 1 .. Len(man)
        /\ w[p] = man[i + p - 1] /\ w[q] = man[i + q - 1]
    <3>1. p \in 1 .. j - i + 1 /\ q \in 1 .. j - i + 1
      BY <1>4
    <3>2. w[p] = man[i + p - 1] /\ w[q] = man[i + q - 1]
      BY <1>4, <3>1
    <3>3. i + p - 1 \in 1 .. Len(man) /\ i + q - 1 \in 1 .. Len(man)
      BY <1>2, <3>1
    <3>. QED
      BY <3>2, <3>3
  <2>2. p = q \/ i + p - 1 < i + q - 1
    BY <1>2, <1>4
  <2>3. CASE p = q
    BY <1>2, <2>1, <2>3
  <2>4. CASE i + p - 1 < i + q - 1
    BY <1>2, <2>1, <2>4 DEF InOrder
  <2>. QED
    BY <2>2, <2>3, <2>4
<1>10. \E x \in Inputs : \A y \in Inputs : y.hi <= x.hi
  <2>1. man[i] \in Inputs
    BY <1>2, <1>6, <1>7
  <2>2. ASSUME NEW y \in Inputs
        PROVE  y.hi <= man[i].hi
    <3>1. PICK p \in i .. j : y = man[p]
      BY <1>5, <1>7
    <3>2. p \in DOMAIN man /\ i \in DOMAIN man /\ (p = i \/ i < p)
      BY <1>2
    <3>. QED
      BY <1>2, <3>1, <3>2 DEF InOrder
  <2>. QED
    BY <2>1, <2>2
<1>11. ASSUME NEW u \in Rest
       PROVE  (\A x \in Inputs : u.hi > x.hi) \/ (\A x \in Inputs : x.hi > u.hi)
  <2>1. PICK q \in 1 .. Len(man) : u = man[q]
    BY <1>2 DEF Rest
  <2>2. q \notin i .. j
    BY <1>6, <1>8, <2>1
  <2>3. CASE q < i
    <3>1. \A p \in i .. j : p \in DOMAIN man /\ q < p
      BY <1>2, <2>3
    <3>. QED
      BY <1>2, <1>5, <1>7, <2>1, <3>1 DEF InOrder
  <2>4. CASE q > j
    <3>1. \A p \in i .. j : p \in DOMAIN man /\ p < q
      BY <1>2, <2>4
    <3>. QED
      BY <1>2, <1>5, <1>7, <2>1, <3>1 DEF InOrder
  <2>. QED
    BY <1>2, <2>2, <2>3, <2>4
<1>. QED
  BY <1>3, <1>7, <1>8, <1>9, <1>10, <1>11

(* Merging keeps the newest entry of each key.                             *)
LEMMA MergedNewest ==
    ASSUME NEW w, AreTables(w), NewerHides(Range(w)),
           \A p, q \in DOMAIN w : p <= q => w[p].hi >= w[q].hi,
           NEW m, m = Merged(w)
    PROVE  /\ \A e \in In(Range(w)) : e.key \in DOMAIN m
           /\ \A k \in DOMAIN m : \E d \in In(Range(w)) :
                 /\ d = [key |-> k, val |-> m[k].val, seq |-> m[k].seq]
                 /\ \A f \in In(Range(w)) : f.key = k => f.seq <= d.seq
<1>1. /\ Len(w) \in Nat /\ DOMAIN w = 1 .. Len(w)
      /\ \A p \in 1 .. Len(w) : w[p] \in Range(w) /\ IsMemtable(w[p].data)
      /\ \A t \in Range(w) : \E p \in 1 .. Len(w) : t = w[p]
  BY SequenceOfItsRange DEF AreTables, IsTable
<1>2. /\ DOMAIN m = UNION {DOMAIN w[p].data : p \in DOMAIN w}
      /\ \A k \in DOMAIN m : m[k] = w[FirstHolder(Data(w), k)].data[k]
  BY DEF Merged
<1>3. ASSUME NEW e \in In(Range(w))
      PROVE  e.key \in DOMAIN m /\ \E p \in 1 .. Len(w) : e \in Entries(w[p].data) /\ e.key \in DOMAIN w[p].data
  <2>1. PICK t \in Range(w) : e \in Entries(t.data)
    BY DEF In
  <2>2. PICK p \in 1 .. Len(w) : t = w[p]
    BY <1>1
  <2>3. e.key \in DOMAIN w[p].data
    BY <1>1, <2>1, <2>2, EntriesOfMemtable
  <2>. QED
    BY <1>1, <1>2, <2>1, <2>2, <2>3
<1>4. ASSUME NEW k \in DOMAIN m
      PROVE  \E d \in In(Range(w)) :
                /\ d = [key |-> k, val |-> m[k].val, seq |-> m[k].seq]
                /\ \A f \in In(Range(w)) : f.key = k => f.seq <= d.seq
  <2>. DEFINE H == {p \in DOMAIN Data(w) : k \in DOMAIN Data(w)[p]}
              h == FirstHolder(Data(w), k)
  <2>1. DOMAIN Data(w) = 1 .. Len(w) /\ \A p \in 1 .. Len(w) : Data(w)[p] = w[p].data
    BY <1>1 DEF Data
  <2>2. PICK q \in 1 .. Len(w) : k \in DOMAIN w[q].data
    BY <1>1, <1>2
  <2>3. H \in SUBSET Nat /\ H # {}
    BY <2>1, <2>2
  <2>4. h \in H /\ \A p \in H : h <= p
    BY <2>3, LeastOfNaturals DEF FirstHolder
  <2>. HIDE DEF h
  <2>5. h \in 1 .. Len(w) /\ k \in DOMAIN w[h].data
        /\ \A p \in 1 .. Len(w) : k \in DOMAIN w[p].data => h <= p
    BY <2>1, <2>4
  <2>6. m[k] = w[h].data[k]
    BY <1>2 DEF h
  <2>. DEFINE d == [key |-> k, val |-> m[k].val, seq |-> m[k].seq]
  <2>7. d \in Entries(w[h].data)
    BY <2>5, <2>6 DEF Entries
  <2>8. d \in In(Range(w)) /\ d.key = k
    BY <1>1, <2>5, <2>7 DEF In
  <2>. HIDE DEF d
  <2>9. ASSUME NEW f \in In(Range(w)), f.key = k
        PROVE  f.seq <= d.seq
    <3>1. PICK p \in 1 .. Len(w) : f \in Entries(w[p].data) /\ k \in DOMAIN w[p].data
      BY <1>3, <2>9
    <3>2. w[h].hi >= w[p].hi
      BY <1>1, <2>5, <3>1
    <3>3. d.seq >= f.seq /\ d.seq \in Nat /\ f.seq \in Nat
      BY <1>1, <2>5, <2>7, <2>8, <2>9, <3>1, <3>2, EntriesOfMemtable DEF NewerHides, IsEntry
    <3>. QED
      BY <3>3
  <2>. QED
    BY <2>8, <2>9 DEF d
<1>. QED
  BY <1>3, <1>4

(* What comes out of a compaction.                                         *)
LEMMA Compacted ==
    ASSUME TypeInv, TablesInv, StoreInv, InOrder, job.pc = "compact"
    PROVE  /\ Inputs \subseteq Tables
           /\ \E x \in Inputs : \A y \in Inputs : y.hi <= x.hi
           /\ \A u \in Rest : \/ \A x \in Inputs : u.hi > x.hi
                              \/ \A x \in Inputs : x.hi > u.hi
           /\ \A e \in In(job.out) : /\ e \in In(Inputs)
                                     /\ \A f \in In(Inputs) : f.key = e.key => f.seq <= e.seq
           /\ \A e \in In(Inputs) : Later(In(job.out), e) \/ Dropped(e)
           /\ \A o, p \in job.out : o = p
           /\ \A o \in job.out, u \in Tables : o.id # u.id
<1>1. PICK j \in DOMAIN man : \E i \in 1 .. j : \E aged \in SUBSET Ids(Window(i, j)) :
            /\ job.ins = Ids(Window(i, j))
            /\ job.out = TablesOf(nextId, Kept(Window(i, j), aged))
  BY DEF StoreInv, JobInv, CompactsWindow
<1>2. PICK i \in 1 .. j : \E aged \in SUBSET Ids(Window(i, j)) :
            /\ job.ins = Ids(Window(i, j))
            /\ job.out = TablesOf(nextId, Kept(Window(i, j), aged))
  BY <1>1
<1>3. PICK aged \in SUBSET Ids(Window(i, j)) :
            /\ job.ins = Ids(Window(i, j))
            /\ job.out = TablesOf(nextId, Kept(Window(i, j), aged))
  BY <1>2
<1>4. PICK w, m, kept : w = Window(i, j) /\ m = Merged(w) /\ kept = Kept(w, aged)
  OBVIOUS
<1>5. /\ AreTables(w) /\ Range(w) = Inputs /\ Inputs \subseteq Tables
      /\ Rest = Range(man) \ Range(w)
      /\ \A p, q \in DOMAIN w : p <= q => w[p].hi >= w[q].hi
      /\ \E x \in Inputs : \A y \in Inputs : y.hi <= x.hi
      /\ \A u \in Rest : \/ \A x \in Inputs : u.hi > x.hi
                         \/ \A x \in Inputs : x.hi > u.hi
  BY <1>3, <1>4, WindowInOrder DEF TypeInv, StoreInv, CoverInv
<1>6. /\ \A e \in In(Inputs) : e.key \in DOMAIN m
      /\ \A k \in DOMAIN m : \E d \in In(Inputs) :
            /\ d = [key |-> k, val |-> m[k].val, seq |-> m[k].seq]
            /\ \A f \in In(Inputs) : f.key = k => f.seq <= d.seq
  <2>1. NewerHides(Range(w))
    BY <1>5 DEF StoreInv, CoverInv, NewerHides
  <2>. QED
    BY <1>4, <1>5, <2>1, MergedNewest
<1>7. /\ \A k \in DOMAIN kept : k \in DOMAIN m /\ kept[k] = m[k]
      /\ \A k \in DOMAIN m : k \notin DOMAIN kept =>
            m[k].val = NotFound /\ NothingOlderOutside(m[k].seq, w)
  BY <1>4 DEF Kept
<1>8. IsMemtable(kept)
  BY <1>4, <1>5, KeptTyped
<1>9. \A o \in job.out : o.data = kept /\ o.id = nextId
  BY <1>3, <1>4 DEF TablesOf
<1>10. ASSUME NEW e \in Entries(kept)
       PROVE  /\ e.key \in DOMAIN kept /\ e \in In(Inputs)
              /\ \A f \in In(Inputs) : f.key = e.key => f.seq <= e.seq
  <2>1. PICK k \in DOMAIN kept : e = [key |-> k, val |-> kept[k].val, seq |-> kept[k].seq]
    BY DEF Entries
  <2>. QED
    BY <1>6, <1>7, <2>1
<1>11. ASSUME NEW e \in In(job.out)
       PROVE  e \in Entries(kept)
  BY <1>9 DEF In
<1>12. ASSUME NEW e \in In(Inputs)
       PROVE  Later(In(job.out), e) \/ Dropped(e)
  <2>1. e.key \in DOMAIN m
    BY <1>6
  <2>2. PICK d \in In(Inputs) :
            /\ d = [key |-> e.key, val |-> m[e.key].val, seq |-> m[e.key].seq]
            /\ \A f \in In(Inputs) : f.key = e.key => f.seq <= d.seq
    BY <1>6, <2>1
  <2>3. In(Inputs) \subseteq In(Tables)
    BY <1>5 DEF In
  <2>4. d.seq >= e.seq /\ d.key = e.key
    <3>1. d.seq \in Nat /\ e.seq \in Nat
      BY <2>3, TablesKnown, KnownTyped DEF TypeInv, IsEntry
    <3>. QED
      BY <2>2, <3>1
  <2>5. CASE e.key \in DOMAIN kept
    <3>1. \A n \in Seqnos(kept) : n <= lastSeqno
      <4>1. \A f \in Entries(kept) : f.seq <= lastSeqno
        BY <1>10, <2>3, TablesKnown DEF StoreInv, LogInv, AllCounted
      <4>. QED
        BY <1>8, <4>1, EntriesOfMemtable
    <3>2. PICK o \in job.out : o.data = kept
      BY <1>3, <1>4, <1>8, <2>5, <3>1, TableComesOut DEF TypeInv, TypeOK
    <3>3. d \in Entries(kept)
      BY <1>7, <2>2, <2>5 DEF Entries
    <3>. QED
      BY <2>4, <3>2, <3>3 DEF Later, In
  <2>6. CASE e.key \notin DOMAIN kept
    <3>1. d.val = NotFound /\ \A t \in Rest : t.lo > d.seq
      BY <1>5, <1>7, <2>1, <2>2, <2>6 DEF NothingOlderOutside
    <3>2. ~HasKey(In(job.out), e.key)
      BY <1>10, <1>11, <2>6 DEF HasKey
    <3>. QED
      BY <2>4, <3>1, <3>2 DEF Dropped
  <2>. QED
    BY <2>5, <2>6
<1>13. \A o, p \in job.out : o = p
  <2>1. Seqnos(kept) \subseteq Nat
    BY <1>8, SeqnosTyped
  <2>. QED
    BY <1>3, <1>4, <2>1 DEF TablesOf
<1>14. \A o \in job.out, u \in Tables : o.id # u.id
  <2>1. nextId \in Nat /\ phase # "down"
    BY DEF TypeInv, TypeOK, Quiet, Live
  <2>2. \A u \in Tables : u.id \in Named
    BY DEF Named, Tables, Ids
  <2>. QED
    BY <1>9, <2>1, <2>2 DEF TablesInv, IdsAreOld
<1>. QED
  BY <1>5, <1>10, <1>11, <1>12, <1>13, <1>14

-----------------------------------------------------------------------------
(* The output takes the place of the inputs in the order of max_seqno.     *)
LEMMA OutputInOrder ==
    ASSUME TypeInv, TablesInv, StoreInv, InOrder, job.pc = "compact", NEW o \in job.out
    PROVE  /\ IsRight(o) /\ IsTable(o) /\ Entries(o.data) \subseteq In(Inputs)
           /\ \E x \in Inputs : o.hi <= x.hi
           /\ \A u \in Rest : \/ u.hi > o.hi /\ \A x \in Inputs : u.hi > x.hi
                              \/ o.hi > u.hi /\ \A x \in Inputs : x.hi > u.hi
<1>1. /\ Inputs \subseteq Tables
      /\ \A u \in Rest : \/ \A x \in Inputs : u.hi > x.hi
                         \/ \A x \in Inputs : x.hi > u.hi
      /\ \A e \in In(job.out) : e \in In(Inputs)
      /\ \A e \in In(Inputs) : Later(In(job.out), e) \/ Dropped(e)
      /\ \A p \in job.out : p = o
  BY Compacted
<1>2. /\ IsTable(o) /\ IsRight(o) /\ o.hi \in Nat
      /\ \A t \in Tables : IsTable(t) /\ IsRight(t) /\ t.hi \in Nat /\ t.lo \in Nat /\ t.lo <= t.hi
      /\ \A e \in In(Inputs) : e.seq \in Nat
  <2>1. In(Inputs) \subseteq Known
    BY <1>1, TablesKnown DEF In
  <2>. QED
    BY <2>1, KnownTyped DEF TypeInv, IsTable, IsEntry, StoreInv, CoverInv
<1>3. Entries(o.data) \subseteq In(Inputs)
  BY <1>1 DEF In
<1>4. PICK x0 \in Inputs : o.hi <= x0.hi
  <2>1. PICK e \in Entries(o.data) : e.seq = o.hi
    BY <1>2 DEF IsRight
  <2>2. PICK x \in Inputs : e \in Entries(x.data)
    BY <1>3 DEF In
  <2>. QED
    BY <1>1, <1>2, <2>1, <2>2 DEF IsRight
<1>5. ASSUME NEW u \in Rest, \A x \in Inputs : x.hi > u.hi
      PROVE  o.hi > u.hi
  <2>1. PICK e \in Entries(x0.data) : e.seq = x0.hi
    BY <1>1, <1>2 DEF IsRight
  <2>2. e \in In(Inputs) /\ e.seq > u.hi /\ u.hi \in Nat /\ u.lo \in Nat /\ u.lo <= u.hi
    BY <1>2, <1>5, <2>1 DEF In, Rest
  <2>3. CASE Later(In(job.out), e)
    <3>1. PICK g \in Entries(o.data) : g.seq >= e.seq
      BY <1>1, <2>3 DEF Later, In
    <3>2. g.seq <= o.hi /\ g.seq \in Nat /\ e.seq \in Nat
      BY <1>2, <1>3, <2>2 DEF IsRight
    <3>. QED
      BY <1>2, <2>2, <3>1, <3>2
  <2>4. CASE Dropped(e)
    <3>1. PICK d \in In(Inputs) : d.seq >= e.seq /\ u.lo > d.seq
      BY <2>4 DEF Dropped
    <3>. QED
      BY <1>2, <2>2, <3>1
  <2>. QED
    BY <1>1, <2>2, <2>3, <2>4
<1>6. ASSUME NEW u \in Rest, \A x \in Inputs : u.hi > x.hi
      PROVE  u.hi > o.hi
  <2>1. u.hi \in Nat /\ x0.hi \in Nat /\ u.hi > x0.hi
    BY <1>1, <1>2, <1>6 DEF Rest
  <2>. QED
    BY <1>2, <1>4, <2>1
<1>. QED
  BY <1>1, <1>2, <1>3, <1>4, <1>5, <1>6

(* What memory and the log hold no newer entry for is not dropped.         *)
LEMMA RecentNotDropped ==
    ASSUME TypeInv, TablesInv, StoreInv, SafeToCompact, job.pc = "compact",
           NEW e \in Recent, NEW y \in Tables, Later(Entries(y.data), e)
    PROVE  /\ NothingDropped
           /\ \/ y \in Rest
              \/ y \in Inputs /\ \E o \in job.out : Later(Entries(o.data), e)
<1>1. InOrder /\ (NothingDropped \/ LogIsNewer)
  BY DEF SafeToCompact
<1>2. PICK g \in Entries(y.data) : g.key = e.key /\ g.seq >= e.seq
  BY DEF Later
<1>3. g.seq \in Nat /\ e.seq \in Nat /\ g.seq <= y.hi /\ y.hi \in Nat
  BY TablesKnown, KnownTyped DEF TypeInv, IsEntry, IsTable, StoreInv, CoverInv, IsRight
<1>4. NothingDropped
  BY <1>1, <1>2, <1>3 DEF LogIsNewer
<1>5. CASE y \in Inputs
  <2>1. g \in In(Inputs)
    BY <1>2, <1>5 DEF In
  <2>2. Later(In(job.out), g)
    BY <1>1, <1>4, <2>1, Compacted DEF NothingDropped, Dropped
  <2>3. PICK h \in In(job.out) : h.key = g.key /\ h.seq >= g.seq
    BY <2>2 DEF Later
  <2>4. PICK o \in job.out : h \in Entries(o.data)
    BY <2>3 DEF In
  <2>5. h.seq \in Nat
    <3>1. Inputs \subseteq Tables /\ Entries(o.data) \subseteq In(Inputs)
      BY <1>1, Compacted, OutputInOrder
    <3>. QED
      BY <2>4, <3>1, TablesKnown, KnownTyped DEF TypeInv, IsEntry, In
  <2>6. Later(Entries(o.data), e)
    BY <1>2, <1>3, <2>3, <2>4, <2>5 DEF Later
  <2>. QED
    BY <1>4, <1>5, <2>6
<1>. QED
  BY <1>4, <1>5 DEF Rest, Inputs

(* The tables after the compaction hide and cover as those before it.      *)
LEMMA CompactedCover ==
    ASSUME TypeInv, TablesInv, StoreInv, SafeToCompact, job.pc = "compact",
           NEW S, S = Rest \cup job.out
    PROVE  /\ \A t \in S : IsRight(t)
           /\ In(S) \subseteq In(Tables)
           /\ UniqueIds(S) /\ NewerHides(S) /\ FlushedBelow(S)
<1>1. InOrder
  BY DEF SafeToCompact
<1>2. /\ Inputs \subseteq Tables /\ Rest \subseteq Tables
      /\ \A o, p \in job.out : o = p
      /\ \A o \in job.out, u \in Tables : o.id # u.id
  BY <1>1, Compacted DEF Rest
<1>3. \A o \in job.out :
         /\ IsRight(o) /\ IsTable(o) /\ o.hi \in Nat /\ Entries(o.data) \subseteq In(Inputs)
         /\ \E x \in Inputs : o.hi <= x.hi
         /\ \A u \in Rest : \/ u.hi > o.hi /\ \A x \in Inputs : u.hi > x.hi
                            \/ o.hi > u.hi /\ \A x \in Inputs : x.hi > u.hi
  BY <1>1, OutputInOrder DEF IsTable
<1>4. /\ \A t \in Tables : IsTable(t) /\ IsRight(t) /\ t.hi \in Nat /\ IsMemtable(t.data)
      /\ \A e \in In(Tables) : e.seq \in Nat
      /\ \A e \in Recent : e.seq \in Nat
  BY KnownTyped, TablesKnown DEF TypeInv, IsTable, IsEntry, StoreInv, CoverInv
<1>5. \A t \in S : IsRight(t)
  BY <1>2, <1>3, <1>4
<1>6. In(S) \subseteq In(Tables)
  <2>1. In(Inputs) \subseteq In(Tables)
    BY <1>2 DEF In
  <2>. QED
    BY <1>2, <1>3, <2>1 DEF In
<1>7. UniqueIds(S)
  BY <1>2 DEF StoreInv, CoverInv, UniqueIds
<1>8. NewerHides(S)
  <2>1. SUFFICES ASSUME NEW t \in S, NEW u \in S, t.hi >= u.hi,
                        NEW e \in Entries(t.data), NEW f \in Entries(u.data), e.key = f.key
                 PROVE  e.seq >= f.seq
    BY DEF NewerHides
  <2>2. NewerHides(Tables)
    BY DEF StoreInv, CoverInv
  <2>3. CASE t \in Rest /\ u \in Rest
    BY <1>2, <2>1, <2>2, <2>3 DEF NewerHides
  <2>4. CASE t \in job.out /\ u \in job.out
    <3>1. t = u /\ IsMemtable(t.data)
      BY <1>2, <1>3, <2>4 DEF IsTable
    <3>2. e = f /\ e.seq \in Nat
      BY <2>1, <3>1, EntriesOfMemtable DEF IsEntry
    <3>. QED
      BY <3>2
  <2>5. CASE t \in Rest /\ u \in job.out
    <3>1. \A x \in Inputs : t.hi > x.hi
      BY <1>2, <1>3, <1>4, <2>1, <2>5
    <3>2. PICK x \in Inputs : f \in Entries(x.data)
      BY <1>3, <2>1, <2>5 DEF In
    <3>3. t.hi >= x.hi
      BY <1>2, <1>4, <2>5, <3>1, <3>2
    <3>. QED
      BY <1>2, <2>1, <2>2, <2>5, <3>2, <3>3 DEF NewerHides
  <2>6. CASE t \in job.out /\ u \in Rest
    <3>1. \A x \in Inputs : x.hi > u.hi
      BY <1>2, <1>3, <1>4, <2>1, <2>6
    <3>2. PICK x \in Inputs : e \in Entries(x.data)
      BY <1>3, <2>1, <2>6 DEF In
    <3>3. x.hi >= u.hi
      BY <1>2, <1>4, <2>6, <3>1, <3>2
    <3>. QED
      BY <1>2, <2>1, <2>2, <2>6, <3>2, <3>3 DEF NewerHides
  <2>. QED
    BY <2>3, <2>4, <2>5, <2>6
<1>9. FlushedBelow(S)
  <2>1. SUFFICES ASSUME NEW u \in S, NEW e \in Recent, e.seq <= u.hi
                 PROVE  \E y \in S : y.hi <= u.hi /\ Later(Entries(y.data), e)
    BY DEF FlushedBelow
  <2>2. FlushedBelow(Tables)
    BY DEF StoreInv, CoverInv
  <2>3. CASE u \in Rest
    <3>1. PICK y \in Tables : y.hi <= u.hi /\ Later(Entries(y.data), e)
      BY <1>2, <2>1, <2>2, <2>3 DEF FlushedBelow
    <3>2. CASE y \in Rest
      BY <3>1, <3>2
    <3>3. ASSUME y \in Inputs, NEW o \in job.out, Later(Entries(o.data), e)
          PROVE  o.hi <= u.hi
      BY <1>2, <1>3, <1>4, <2>3, <3>1, <3>3
    <3>. QED
      BY <3>1, <3>2, <3>3, RecentNotDropped
  <2>4. CASE u \in job.out
    <3>1. PICK x \in Inputs : u.hi <= x.hi
      BY <1>3, <2>4
    <3>2. e.seq <= x.hi
      BY <1>2, <1>3, <1>4, <2>1, <2>4, <3>1
    <3>3. PICK y \in Tables : y.hi <= x.hi /\ Later(Entries(y.data), e)
      BY <1>2, <2>2, <3>2 DEF FlushedBelow
    <3>4. CASE y \in Rest
      <4>1. y.hi <= u.hi
        BY <1>2, <1>3, <1>4, <2>4, <3>1, <3>3, <3>4
      <4>. QED
        BY <3>3, <3>4, <4>1
    <3>5. ASSUME y \in Inputs, NEW o \in job.out, Later(Entries(o.data), e)
          PROVE  o = u /\ o.hi <= u.hi
      BY <1>2, <1>3, <2>4, <3>5
    <3>. QED
      BY <3>3, <3>4, <3>5, RecentNotDropped
  <2>. QED
    BY <2>3, <2>4
<1>. QED
  BY <1>5, <1>6, <1>7, <1>8, <1>9

(* Nothing is lost.                                                        *)
LEMMA CompactedKeeps ==
    ASSUME TypeInv, TablesInv, StoreInv, SafeToCompact, job.pc = "compact",
           NEW S, S = Rest \cup job.out
    PROVE  /\ \A e : Newest(e) /\ ~HasKey(Logged, e.key) =>
                 e \in In(S) \/ (e.val = NotFound /\ ~HasKey(In(S), e.key))
           /\ \A e \in InMemory : e \in Logged \/ Later(In(S), e)
<1>1. InOrder /\ phase # "down"
  BY DEF SafeToCompact, TypeInv, Quiet, Live
<1>2. In(S) \subseteq In(Tables)
  BY CompactedCover
<1>3. \A e \in In(Tables) : e \in In(Rest) \/ e \in In(Inputs)
  BY DEF In, Rest, Inputs
<1>4. In(S) = In(Rest) \cup In(job.out)
  BY DEF In
<1>5. /\ \A e \in Known : e.seq \in Nat
      /\ Inputs \subseteq Tables
      /\ \A t \in Rest : IsTable(t) /\ t.lo \in Nat /\ IsRight(t) /\ t \in Tables
      /\ \A e \in In(Inputs) : Later(In(job.out), e) \/ Dropped(e)
  BY <1>1, KnownTyped, Compacted DEF TypeInv, IsEntry, Rest, IsTable, StoreInv, CoverInv
<1>6. In(Tables) \subseteq Known /\ In(Inputs) \subseteq Known
  BY <1>5, TablesKnown DEF In
<1>7. ASSUME NEW e, Newest(e), ~HasKey(Logged, e.key)
      PROVE  e \in In(S) \/ (e.val = NotFound /\ ~HasKey(In(S), e.key))
  <2>1. e \in Known /\ \A f \in Known : f.key = e.key => f.seq <= e.seq
    BY <1>7 DEF Newest
  <2>2. \A f \in Known : f.key = e.key /\ f.seq >= e.seq => f = e
    BY <1>5, <2>1 DEF StoreInv, LogInv, OneEntryPerSeqno
  <2>3. CASE e.val = NotFound /\ ~HasKey(In(Tables), e.key)
    BY <1>2, <2>3 DEF HasKey
  <2>4. CASE e \in In(Rest)
    BY <1>4, <2>4
  <2>5. CASE e \in In(Inputs)
    <3>1. CASE Later(In(job.out), e)
      <4>1. PICK g \in In(job.out) : g.key = e.key /\ g.seq >= e.seq
        BY <3>1 DEF Later
      <4>2. g = e
        BY <1>2, <1>4, <1>6, <2>2, <4>1
      <4>. QED
        BY <1>4, <4>1, <4>2
    <3>2. CASE Dropped(e)
      <4>1. PICK d \in In(Inputs) : /\ d.key = e.key /\ d.val = NotFound /\ d.seq >= e.seq
                                    /\ \A t \in Rest : t.lo > d.seq
        BY <3>2 DEF Dropped
      <4>2. d = e
        BY <1>6, <2>2, <4>1
      <4>3. ASSUME NEW f \in In(Rest), f.key = e.key
            PROVE  FALSE
        <5>1. PICK t \in Rest : f \in Entries(t.data)
          BY DEF In
        <5>2. f.seq >= t.lo /\ t.lo > e.seq /\ f \in Known /\ t.lo \in Nat
          BY <1>5, <4>1, <4>2, <5>1, TablesKnown DEF IsRight
        <5>. QED
          BY <1>5, <2>1, <4>3, <5>2
      <4>. QED
        BY <1>4, <3>2, <4>1, <4>2, <4>3 DEF Dropped, HasKey
    <3>. QED
      BY <1>5, <2>5, <3>1, <3>2
  <2>. QED
    BY <1>1, <1>3, <1>7, <2>1, <2>3, <2>4, <2>5 DEF StoreInv, KeepInv, Keeps
<1>8. ASSUME NEW e \in InMemory, e \notin Logged
      PROVE  Later(In(S), e)
  <2>1. PICK g \in In(Tables) : g.key = e.key /\ g.seq >= e.seq
    BY <1>1, <1>8 DEF StoreInv, KeepInv, MemoryIsSafe, Later
  <2>2. PICK y \in Tables : g \in Entries(y.data)
    BY DEF In
  <2>3. Later(Entries(y.data), e) /\ e \in Recent
    BY <2>1, <2>2 DEF Later, Recent
  <2>4. CASE y \in Rest
    BY <1>4, <2>1, <2>2, <2>4 DEF Later, In
  <2>5. ASSUME NEW o \in job.out, Later(Entries(o.data), e)
        PROVE  Later(In(S), e)
    BY <2>5 DEF Later, In
  <2>. QED
    BY <2>3, <2>4, <2>5, RecentNotDropped
<1>. QED
  BY <1>7, <1>8

(* The log's entries stay in place.                                        *)
LEMMA CompactedPlaces ==
    ASSUME TypeInv, TablesInv, StoreInv, SafeToCompact, job.pc = "compact",
           NEW S, S = Rest \cup job.out
    PROVE  /\ \A e \in Logged \ Pending :
                 InPlace(e) \/ \E y \in S : Later(Entries(y.data), e) /\ BehindMemory(y)
           /\ \/ \A e \in Logged \ Pending : InPlace(e)
              \/ S # {} /\ \A y \in S : BehindMemory(y)
<1>1. InOrder /\ phase # "down"
  BY DEF SafeToCompact, TypeInv, Quiet, Live
<1>2. /\ \A e \in Logged \ Pending : Placed(e)
      /\ \/ \A e \in Logged \ Pending : InPlace(e)
         \/ \E t \in Tables : t = man[1] /\ BehindMemory(t)
  BY <1>1 DEF StoreInv, PlaceInv
<1>3. /\ \A t \in Tables : t.hi \in Nat
      /\ \A e \in InMemory : e.seq \in Nat
  BY KnownTyped DEF TypeInv, IsTable, IsEntry, Known
<1>4. CASE \A e \in Logged \ Pending : InPlace(e)
  BY <1>4
<1>5. ASSUME NEW t \in Tables, t = man[1], BehindMemory(t),
             NEW e0 \in Logged \ Pending, ~InPlace(e0)
      PROVE  /\ \A e \in Logged \ Pending :
                   InPlace(e) \/ \E y \in S : Later(Entries(y.data), e) /\ BehindMemory(y)
             /\ S # {} /\ \A y \in S : BehindMemory(y)
  <2>1. \A u \in Tables : u.hi <= t.hi
    <3>1. man \in Seq(Range(man))
      BY DEF TypeInv, TypeOK, AreTables
    <3>2. /\ Len(man) \in Nat /\ DOMAIN man = 1 .. Len(man)
          /\ \A u \in Tables : \E p \in 1 .. Len(man) : u = man[p]
      BY <3>1, SequenceOfItsRange DEF Tables
    <3>. TAKE u \in Tables
    <3>3. PICK p \in 1 .. Len(man) : u = man[p]
      BY <3>2
    <3>4. p = 1 \/ (1 < p /\ 1 \in DOMAIN man /\ p \in DOMAIN man)
      BY <3>2
    <3>. QED
      BY <1>1, <1>3, <1>5, <3>3, <3>4 DEF InOrder
  <2>2. ASSUME NEW u, u.hi \in Nat, u.hi <= t.hi
        PROVE  BehindMemory(u)
    <3>1. ASSUME NEW m \in Memory, Reaches(m, t.hi)
          PROVE  Reaches(m, u.hi)
      <4>1. PICK f \in Entries(m) : f.seq >= t.hi
        BY <3>1 DEF Reaches
      <4>2. f.seq \in Nat
        BY <1>3 DEF InMemory
      <4>3. f.seq >= u.hi
        BY <1>3, <2>2, <4>1, <4>2
      <4>. QED
        BY <4>3 DEF Reaches
    <3>. QED
      BY <1>5, <3>1 DEF BehindMemory
  <2>3. ASSUME NEW y \in S
        PROVE  BehindMemory(y)
    <3>1. CASE y \in Rest
      BY <1>3, <2>1, <2>2, <3>1 DEF Rest
    <3>2. CASE y \in job.out
      <4>1. IsTable(y) /\ \E x \in Inputs : y.hi <= x.hi
        BY <1>1, <3>2, OutputInOrder
      <4>2. y.hi \in Nat /\ y.hi <= t.hi
        BY <1>3, <2>1, <4>1 DEF IsTable, Inputs
      <4>. QED
        BY <2>2, <4>2
    <3>. QED
      BY <3>1, <3>2
  <2>4. ASSUME NEW e \in Logged \ Pending, ~InPlace(e)
        PROVE  \E y \in S : Later(Entries(y.data), e)
    <3>1. PICK y \in Tables : Later(Entries(y.data), e)
      BY <1>2, <2>4 DEF Placed
    <3>. QED
      BY <3>1, RecentNotDropped DEF Recent
  <2>. QED
    BY <1>5, <2>3, <2>4
<1>6. CASE \E t \in Tables : t = man[1] /\ BehindMemory(t)
  BY <1>5, <1>6
<1>. QED
  BY <1>2, <1>4, <1>6

-----------------------------------------------------------------------------
(* The edit of the manifest.                                               *)
LEMMA CompactionEdited ==
    ASSUME TypeInv, EditForCompaction
    PROVE  /\ Tables' = Rest \cup job.out /\ AreTables(man')
           /\ \A i, j \in DOMAIN man' : i < j => man'[i].hi >= man'[j].hi
           /\ Tables' # {} => man'[1] \in Tables'
<1>1. PICK S : S = {t \in Range(man) : t.id \notin job.ins} \cup job.out
  OBVIOUS
<1>2. S = Rest \cup job.out
  BY <1>1 DEF Rest, Tables
<1>3. IsFiniteSet(S)
  <2>1. IsFiniteSet(Range(man)) /\ IsFiniteSet(job.out)
    BY FiniteRange DEF TypeInv, TypeOK, AreTables, Quiet
  <2>2. IsFiniteSet({t \in Range(man) : t.id \notin job.ins})
    BY <2>1, FS_Subset
  <2>. QED
    BY <1>1, <2>1, <2>2, FS_Union
<1>4. man' \in SortedByMaxSeqno(S)
  BY <1>1 DEF EditForCompaction
<1>5. man' \in Seq(Range(man')) /\ Range(man') = S
  BY <1>3, <1>4, SortedTables
<1>6. AreTables(man')
  BY <1>1, <1>5 DEF AreTables, TypeInv, TypeOK
<1>7. S # {} => man'[1] \in Range(man')
  <2>1. /\ Len(man') \in Nat
        /\ \A x \in Range(man') : \E i \in 1 .. Len(man') : x = man'[i]
        /\ \A i \in 1 .. Len(man') : man'[i] \in Range(man')
    BY <1>5, SequenceOfItsRange
  <2>. QED
    BY <1>5, <2>1
<1>. QED
  BY <1>2, <1>4, <1>5, <1>6, <1>7 DEF SortedByMaxSeqno, Tables

(* The parts of the invariant that a compaction leaves to the tables of    *)
(* the manifest.                                                           *)
LEMMA CompactedTables ==
    ASSUME TypeInv, OrderInv, TablesInv, StoreInv, SafeToCompact,
           job.pc = "compact", EditForCompaction,
           UNCHANGED <<recs, activeSeg, lastSeqno, isOpen, active, imms, todo, phase, writer>>,
           job'.pc \in {"idle", "delete"}, job'.out = {}, SameStore
    PROVE  /\ LogInv' /\ PlaceInv' /\ ReplayInv' /\ JobInv'
           /\ UniqueIds(Tables)' /\ NewerHides(Tables)' /\ FlushedBelow(Tables)'
           /\ \A t \in Tables' : IsRight(t)
           /\ Keeps(Tables)' /\ MemoryIsSafe' /\ MemtablesCurrent'
<1>1. /\ Logged' = Logged /\ Memory' = Memory /\ InMemory' = InMemory /\ Recent' = Recent
      /\ UnderWay' = UnderWay /\ Pending' = Pending
  BY DEF Logged, Memory, InMemory, Recent, UnderWay, Pending
<1>2. /\ Tables' = Rest \cup job.out
      /\ Tables' # {} => man'[1] \in Tables'
  BY CompactionEdited
<1>3. Up /\ phase \in Live /\ phase' = phase /\ Known' \subseteq Known
  BY DEF TypeInv, Quiet, Live, Up, SameStore
<1>4. LogInv'
  BY <1>1, <1>3 DEF StoreInv, LogInv, OneEntryPerSeqno, AllCounted, LogIsNewestPart,
     WriterIsLogged, LogIsOpen
<1>5. /\ \A t \in Tables' : IsRight(t)
      /\ UniqueIds(Tables') /\ NewerHides(Tables') /\ FlushedBelow(Tables)'
  <2>1. PICK S : S = Rest \cup job.out
    OBVIOUS
  <2>2. (\A t \in S : IsRight(t)) /\ UniqueIds(S) /\ NewerHides(S) /\ FlushedBelow(S)
    BY <2>1, CompactedCover
  <2>. QED
    BY <1>1, <1>2, <2>1, <2>2 DEF FlushedBelow
<1>6. ASSUME NEW e, Newest(e)', ~HasKey(Logged', e.key)
      PROVE  e \in In(Tables') \/ (e.val = NotFound /\ ~HasKey(In(Tables'), e.key))
  <2>1. Newest(e) /\ ~HasKey(Logged, e.key)
    BY <1>1, <1>6, NewestBefore DEF TypeInv, StoreInv
  <2>. QED
    BY <1>2, <2>1, CompactedKeeps
<1>7. MemoryIsSafe'
  BY <1>1, <1>2, CompactedKeeps DEF MemoryIsSafe
<1>8. PlaceInv'
  <2>1. /\ \A e \in Logged \ Pending :
              InPlace(e) \/ \E y \in Tables' : Later(Entries(y.data), e) /\ BehindMemory(y)
        /\ \/ \A e \in Logged \ Pending : InPlace(e)
           \/ Tables' # {} /\ \A y \in Tables' : BehindMemory(y)
    BY <1>2, CompactedPlaces
  <2>2. ASSUME NEW e, InPlace(e)
        PROVE  InPlace(e)'
    BY <1>1, <2>2 DEF InPlace
  <2>3. ASSUME NEW y, BehindMemory(y)
        PROVE  BehindMemory(y)'
    BY <1>1, <2>3 DEF BehindMemory
  <2>4. \A e \in Logged' \ Pending' : Placed(e)'
    BY <1>1, <2>1, <2>2, <2>3 DEF Placed
  <2>5. \/ \A e \in Logged' \ Pending' : InPlace(e)'
        \/ \E t \in Tables' : t = man'[1] /\ BehindMemory(t)'
    BY <1>1, <1>2, <2>1, <2>2, <2>3
  <2>. QED
    BY <2>4, <2>5 DEF PlaceInv
<1>9. ReplayInv'
  BY <1>3 DEF ReplayInv, Up
<1>10. JobInv'
  BY NoJobLeft
<1>11. MemtablesCurrent'
  BY <1>1, <1>3 DEF StoreInv, ReadInv, MemtablesCurrent
<1>. QED
  BY <1>4, <1>5, <1>6, <1>7, <1>8, <1>9, <1>10, <1>11 DEF Keeps, UniqueIds, NewerHides

(* The save fails: the edit stays in memory, the readers and the disk as   *)
(* they are.                                                               *)
LEMMA CompactSaveFailsStores ==
    ASSUME TypeInv, OrderInv, TablesInv, StoreInv, SafeToCompact, CompactSaveFails
    PROVE  StoreInv' /\ SameStore
<1>1. /\ UNCHANGED <<recs, activeSeg, lastSeqno, isOpen, active, imms, todo, phase, writer,
                     dman, readers>>
      /\ EditForCompaction /\ job.pc = "compact" /\ job'.pc = "idle" /\ job'.out = {}
  BY DEF CompactSaveFails, NoJob, walVars, diskVars, memVars
<1>2. /\ Logged' = Logged /\ InMemory' = InMemory /\ Pending' = Pending /\ Recent' = Recent
      /\ Saved' = Saved /\ Readable' = Readable
  BY <1>1 DEF Logged, Memory, InMemory, Pending, UnderWay, Recent, Saved, Readable
<1>3. Up /\ Up' /\ phase # "down" /\ phase' # "down"
  BY <1>1 DEF TypeInv, Quiet, Live, Up
<1>4. In(Tables') \subseteq In(Tables)
  BY <1>1, CompactionEdited, CompactedCover
<1>5. /\ Known' \subseteq Known
      /\ Logged \cup InMemory \cup In(Readable) \subseteq Known'
  <2>1. In(Saved' \cup Tables' \cup Readable') = In(Saved) \cup In(Tables') \cup In(Readable)
    BY <1>2 DEF In
  <2>. QED
    BY <1>2, <1>4, <2>1, TablesKnown DEF Known
<1>6. SameStore
  BY <1>3, <1>5, NewestIsRead DEF SameStore, TypeInv
<1>7. /\ LogInv' /\ PlaceInv' /\ ReplayInv' /\ JobInv'
      /\ UniqueIds(Tables)' /\ NewerHides(Tables)' /\ FlushedBelow(Tables)'
      /\ \A t \in Tables' : IsRight(t)
      /\ Keeps(Tables)' /\ MemoryIsSafe' /\ MemtablesCurrent'
  BY <1>1, <1>6, CompactedTables
<1>8. CoverInv'
  <2>1. UniqueIds(Saved)' /\ NewerHides(Saved)' /\ FlushedBelow(Saved)'
    BY <1>2 DEF StoreInv, CoverInv, UniqueIds, NewerHides, FlushedBelow
  <2>. QED
    BY <1>1, <1>2, <1>7, <2>1 DEF StoreInv, CoverInv
<1>9. KeepInv'
  <2>1. ASSUME NEW e, Newest(e)'
        PROVE  Newest(e) /\ e \in Known
    BY <1>6, <2>1, NewestBefore DEF TypeInv, StoreInv, Newest
  <2>2. Keeps(Saved)'
    BY <1>2, <2>1 DEF StoreInv, KeepInv, Keeps
  <2>. QED
    BY <1>7, <2>2 DEF KeepInv
<1>10. ReadInv'
  <2>1. MemoryFirst' /\ ReadersFirst'
    BY <1>1, <1>2, <1>3, <1>5 DEF StoreInv, ReadInv, MemoryFirst, ReadersFirst
  <2>. QED
    BY <1>7, <2>1 DEF ReadInv
<1>. QED
  BY <1>6, <1>7, <1>8, <1>9, <1>10 DEF StoreInv

(* The output replaces the inputs on disk and in the readers.              *)
LEMMA CompactPublishStores ==
    ASSUME TypeInv, OrderInv, TablesInv, StoreInv, SafeToCompact, CompactPublish
    PROVE  StoreInv' /\ SameStore
<1>1. /\ UNCHANGED <<recs, activeSeg, lastSeqno, isOpen, active, imms, todo, phase, writer>>
      /\ EditForCompaction /\ job.pc = "compact" /\ job'.pc = "delete" /\ job'.out = {}
      /\ dman' = man' /\ readers' = man'
  BY DEF CompactPublish, Rebuilt, walVars, memVars
<1>2. /\ Logged' = Logged /\ Memory' = Memory /\ InMemory' = InMemory /\ Pending' = Pending
      /\ Recent' = Recent /\ Saved' = Tables' /\ Readable' = Tables'
  BY <1>1 DEF Logged, Memory, InMemory, Pending, UnderWay, Recent, Saved, Tables, Readable
<1>3. Up /\ Up' /\ phase # "down"
  BY <1>1 DEF TypeInv, Quiet, Live, Up
<1>4. /\ Tables' = Rest \cup job.out /\ AreTables(man')
      /\ \A i, j \in DOMAIN man' : i < j => man'[i].hi >= man'[j].hi
  BY <1>1, CompactionEdited
<1>5. Known' = Logged \cup InMemory \cup In(Tables') /\ Known' \subseteq Known
  BY <1>1, <1>2, <1>4, CompactedCover, TablesKnown DEF Known
<1>6. SameStore
  <2>1. ASSUME NEW e, Newest(e), e \notin Logged \cup InMemory
        PROVE  e \in Known' \/ (e.val = NotFound /\ ~HasKey(Known', e.key))
    <3>1. e \in Known /\ \A f \in Known : f.key = e.key => f.seq <= e.seq
      BY <2>1 DEF Newest
    <3>2. \A f \in Known : f.key = e.key /\ f.seq >= e.seq => f = e
      BY <3>1, KnownTyped DEF StoreInv, LogInv, OneEntryPerSeqno, IsEntry, TypeInv
    <3>3. ~HasKey(Logged, e.key)
      <4>1. ASSUME NEW f \in Logged, f.key = e.key
            PROVE  FALSE
        <5>1. f \in Known /\ f.seq <= e.seq
          BY <3>1, <4>1 DEF Known
        <5>2. f.seq \in Nat /\ e.seq \in Nat
          BY <3>1, <5>1, KnownTyped DEF IsEntry, TypeInv
        <5>. QED
          BY <2>1, <3>1, <5>1, <5>2 DEF StoreInv, LogInv, LogIsNewestPart
      <4>. QED
        BY <4>1 DEF HasKey
    <3>4. ~HasKey(InMemory, e.key)
      <4>1. e \notin Pending
        BY <2>1 DEF Pending, UnderWay, Logged, TypeInv, TypeOK, StoreInv, LogInv, WriterIsLogged
      <4>2. ASSUME HasKey(InMemory, e.key)
            PROVE  FALSE
        <5>1. PICK g \in InMemory : g.key = e.key /\ g.seq >= e.seq
          BY <1>3, <3>1, <4>1, <4>2 DEF StoreInv, ReadInv, MemoryFirst, Later
        <5>. QED
          BY <2>1, <3>2, <5>1, TablesKnown DEF Recent
      <4>. QED
        BY <4>2
    <3>5. e \in In(Tables') \/ (e.val = NotFound /\ ~HasKey(In(Tables'), e.key))
      BY <1>1, <1>4, <2>1, <3>3, CompactedKeeps
    <3>. QED
      BY <1>5, <3>3, <3>4, <3>5 DEF HasKey
  <2>. QED
    BY <1>5, <2>1 DEF SameStore
<1>7. /\ LogInv' /\ PlaceInv' /\ ReplayInv' /\ JobInv'
      /\ UniqueIds(Tables)' /\ NewerHides(Tables)' /\ FlushedBelow(Tables)'
      /\ \A t \in Tables' : IsRight(t)
      /\ Keeps(Tables)' /\ MemoryIsSafe' /\ MemtablesCurrent'
  BY <1>1, <1>6, CompactedTables
<1>8. CoverInv'
  <2>1. UniqueIds(Saved)' /\ NewerHides(Saved)' /\ FlushedBelow(Saved)'
    BY <1>2, <1>7 DEF UniqueIds, NewerHides, FlushedBelow
  <2>. QED
    BY <1>1, <1>2, <1>7, <2>1 DEF CoverInv
<1>9. KeepInv'
  <2>1. Keeps(Saved)'
    BY <1>2, <1>7 DEF Keeps
  <2>. QED
    BY <1>7, <2>1 DEF KeepInv
<1>10. ReadInv'
  <2>1. MemoryFirst'
    BY <1>2, <1>3, <1>5 DEF StoreInv, ReadInv, MemoryFirst
  <2>2. ASSUME NEW e \in In(Tables')
        PROVE  \E i \in DOMAIN man' :
                  /\ Later(Entries(man'[i].data), e)
                  /\ \A h \in 1 .. i - 1 : ~HasKey(Entries(man'[h].data), e.key)
    <3>1. Range(man') = Tables'
      BY DEF Tables
    <3>2. NewerHides(Range(man'))
      BY <1>7, <3>1 DEF NewerHides
    <3>. QED
      BY <1>4, <3>1, <3>2, SortedFirst
  <2>3. ReadersFirst'
    <3>1. SUFFICES ASSUME NEW e \in Known' \ Pending', ~HasKey(InMemory', e.key)
                   PROVE  \E i \in DOMAIN man' :
                             /\ Later(Entries(man'[i].data), e)
                             /\ \A h \in 1 .. i - 1 : ~HasKey(Entries(man'[h].data), e.key)
      BY <1>1 DEF ReadersFirst
    <3>2. CASE e \in In(Tables')
      BY <2>2, <3>2
    <3>3. CASE e \in Logged
      <4>1. PICK y \in Tables' : Later(Entries(y.data), e)
        <5>1. ~InPlace(e)
          BY <1>2, <3>1 DEF InPlace, HasKey
        <5>. QED
          BY <1>1, <1>2, <1>4, <3>1, <3>3, <5>1, CompactedPlaces
      <4>2. PICK g \in Entries(y.data) : g.key = e.key /\ g.seq >= e.seq
        BY <4>1 DEF Later
      <4>3. g \in In(Tables')
        BY <4>1, <4>2 DEF In
      <4>4. PICK i \in DOMAIN man' :
                  /\ Later(Entries(man'[i].data), g)
                  /\ \A h \in 1 .. i - 1 : ~HasKey(Entries(man'[h].data), g.key)
        BY <2>2, <4>3
      <4>5. PICK f \in Entries(man'[i].data) : f.key = g.key /\ f.seq >= g.seq
        BY <4>4 DEF Later
      <4>6. e.seq \in Nat /\ g.seq \in Nat /\ f.seq \in Nat
        <5>1. man'[i] \in Tables'
          BY <4>4 DEF Tables, Range
        <5>2. f \in Known'
          BY <1>5, <4>5, <5>1 DEF In
        <5>3. e \in Known /\ g \in Known /\ f \in Known
          BY <1>5, <3>1, <4>3, <5>2
        <5>. QED
          BY <5>3, KnownTyped DEF TypeInv, IsEntry
      <4>7. Later(Entries(man'[i].data), e)
        BY <4>2, <4>5, <4>6 DEF Later
      <4>. QED
        BY <4>2, <4>4, <4>7
    <3>4. e \notin InMemory
      BY <1>2, <3>1 DEF HasKey
    <3>. QED
      BY <1>5, <3>1, <3>2, <3>3, <3>4
  <2>. QED
    BY <1>7, <2>1, <2>3 DEF ReadInv
<1>. QED
  BY <1>6, <1>7, <1>8, <1>9, <1>10 DEF StoreInv

-----------------------------------------------------------------------------
(* An empty store.                                                         *)
LEMMA InitStores == Init => StoreInv
<1>. SUFFICES ASSUME Init PROVE StoreInv
  OBVIOUS
<1>1. /\ recs = {} /\ todo = {} /\ dman = <<>> /\ man = <<>> /\ readers = <<>>
      /\ active = EmptyMemtable /\ imms = <<>> /\ phase = "down"
      /\ writer.pc = "idle" /\ job.pc = "idle" /\ job.out = {}
  BY DEF Init, Log!Init, Idle, NoJob
<1>2. Saved = {} /\ Tables = {} /\ Readable = {} /\ Memory = {EmptyMemtable}
  BY <1>1, EmptyRange DEF Saved, Tables, Readable, Memory
<1>3. Logged = {} /\ InMemory = {} /\ In(Saved \cup Tables \cup Readable) = {}
  BY <1>1, <1>2, EntriesEmpty DEF Logged, InMemory, In
<1>4. Known = {} /\ Recent = {}
  BY <1>3 DEF Known, Recent
<1>5. LogInv
  BY <1>1, <1>4 DEF LogInv, OneEntryPerSeqno, AllCounted, LogIsNewestPart, WriterIsLogged,
     LogIsOpen, Live
<1>6. CoverInv
  BY <1>1, <1>2, <1>4 DEF CoverInv, UniqueIds, NewerHides, FlushedBelow
<1>7. KeepInv /\ PlaceInv /\ ReplayInv
  BY <1>1, <1>4 DEF KeepInv, Keeps, PlaceInv, ReplayInv
<1>8. ReadInv
  BY <1>1, <1>4 DEF ReadInv, Up, MemtablesCurrent
<1>9. JobInv
  BY <1>1 DEF JobInv, FlushesOldest, CleansAfterSave, CompactsWindow
<1>. QED
  BY <1>5, <1>6, <1>7, <1>8, <1>9 DEF StoreInv

(* Nothing happens.                                                        *)
LEMMA StutterStores ==
    ASSUME StoreInv, UNCHANGED vars
    PROVE  StoreInv' /\ SameStore
<1>1. UNCHANGED <<recs, activeSeg, lastSeqno, isOpen, dman, man, nextId, readers, active, imms,
                  todo, phase, writer, job>>
  BY DEF vars, walVars, diskVars, tableVars, memVars
<1>2. LogIsOpen' /\ JobInv' /\ \A t \in job'.out : IsRight(t)
  BY <1>1, JobUntouched DEF StoreInv, LogInv, LogIsOpen, CoverInv
<1>. QED
  BY <1>1, <1>2, StoreUntouched

-----------------------------------------------------------------------------
(* All the invariants of the engine together.                              *)

AllInv == TypeInv /\ OrderInv /\ TablesInv /\ StoreInv

(* They hold at first.                                                     *)
LEMMA AllAtFirst == Init => AllInv
<1>1. Init => TablesInv
  BY EmptyRange DEF Init, TablesInv, LiveTablesExist, IdsAreOld, OutputIsNew,
     InputsAreNamed, DeletedAreNotNamed, Named, Ids, NoJob
<1>. QED
  BY <1>1, InitTyped, InitOrdered, InitStores DEF AllInv

(* Those that do not depend on how compactions are done.                   *)
LEMMA OthersKept ==
    ASSUME TypeInv, OrderInv, TablesInv, [Next]_vars
    PROVE  TypeInv' /\ OrderInv' /\ TablesInv'
<1>1. TypeInv'
  BY OpenTyped, WriteTyped, FlushTyped, CompactionTyped, StopTyped, StutterTyped DEF Next
<1>2. OrderInv'
  <2>1. CASE Open
    BY <1>1, <2>1, LoadManifestOrdered, ReplayOrdered, FinishOpenOrdered DEF Open
  <2>2. CASE Write \/ Flush \/ Compaction \/ Stop
    BY <1>1, <2>2, WriteOrdered, FlushOrdered, CompactionOrdered, StopOrdered
  <2>3. CASE UNCHANGED vars
    BY <2>3, OrderUntouched DEF vars, walVars, memVars
  <2>. QED
    BY <2>1, <2>2, <2>3 DEF Next
<1>3. TablesInv'
  <2>1. UNCHANGED vars => TablesInv'
    BY DEF vars, diskVars, tableVars, TablesInv, LiveTablesExist, IdsAreOld, OutputIsNew,
       InputsAreNamed, DeletedAreNotNamed, Named
  <2>. QED
    BY <2>1, OpenKeepsTables, WriteKeepsTables, FlushKeepsTables, CompactionKeepsTables,
       StopKeepsTables DEF Next
<1>. QED
  BY <1>1, <1>2, <1>3

(* Every step keeps the invariant, and all but the append of a record      *)
(* leave the store as it is.                                               *)
LEMMA StepStores ==
    ASSUME AllInv, SafeToCompact, [Next]_vars
    PROVE  StoreInv' /\ (SameStore \/ \E o \in Mutation : LogWrite(o))
<1>1. TypeInv /\ OrderInv /\ TablesInv /\ StoreInv
  BY DEF AllInv
<1>2. CASE Open
  <2>1. LoadManifest \/ ReplayOne \/ FinishOpen
    BY <1>2 DEF Open
  <2>. QED
    BY <1>1, <2>1, LoadManifestStores, ReplayStores, FinishOpenStores
<1>3. CASE Write
  <2>1. \/ BeginWrite \/ BlockWriter \/ WakeWriter \/ RefuseWrite \/ ReturnFromWrite
        \/ ApplyWrite \/ Rotate \/ \E o \in Mutation : LogWrite(o)
    BY <1>3 DEF Write
  <2>2. CASE \E o \in Mutation : LogWrite(o)
    BY <1>1, <2>2, LogWriteStores
  <2>. QED
    BY <1>1, <2>1, <2>2, WriterMoves, ApplyWriteStores, RotateStores
<1>4. CASE Flush
  <2>1. FlushWrite \/ FlushWriteFails \/ FlushPublish \/ FlushSaveFails \/ FlushClean
    BY <1>4 DEF Flush
  <2>. QED
    BY <1>1, <2>1, FlushStarts, FlushPublishStores, FlushSaveFailsStores, FlushCleanStores
<1>5. CASE Compaction
  <2>1. Compact \/ CompactCancel \/ CompactPublish \/ CompactSaveFails \/ CompactDelete
    BY <1>5 DEF Compaction
  <2>2. CASE Compact
    <3>1. PICK j \in DOMAIN man : \E i \in 1 .. j :
             \E aged \in IF GraceElapses THEN SUBSET Ids(Window(i, j)) ELSE {{}} :
                CompactWrite(i, j, aged)
      BY <2>2 DEF Compact
    <3>2. PICK i \in 1 .. j :
             \E aged \in IF GraceElapses THEN SUBSET Ids(Window(i, j)) ELSE {{}} :
                CompactWrite(i, j, aged)
      BY <3>1
    <3>3. \E aged \in SUBSET Ids(Window(i, j)) : CompactWrite(i, j, aged)
      BY <3>2
    <3>. QED
      BY <1>1, <3>3, CompactionBegins
  <2>. QED
    BY <1>1, <2>1, <2>2, CompactionEnds, CompactPublishStores, CompactSaveFailsStores
<1>6. CASE Stop
  BY <1>1, <1>6, StopStores
<1>7. CASE UNCHANGED vars
  BY <1>1, <1>7, StutterStores
<1>. QED
  BY <1>2, <1>3, <1>4, <1>5, <1>6, <1>7 DEF Next

(* So the store changes when a record is appended, and at no other time.   *)
LEMMA StoreKeptButByWrites ==
    ASSUME AllInv, AllInv', [Next]_vars, SafeToCompact
    PROVE  DurableView' = DurableView \/ \E o \in Mutation : LogWrite(o)
<1>1. TypeOK /\ StoreInv /\ TypeOK' /\ StoreInv'
  BY DEF AllInv, TypeInv
<1>. QED
  BY <1>1, StepStores, StoreIsSame

-----------------------------------------------------------------------------
(* The seqNo counter, when compactions keep the last write.              *)

(* What most steps do: the log keeps its records and the tables stay.      *)
LEMMA CounterUntouched ==
    ASSUME CounterInv, lastSeqno' = lastSeqno, recs \subseteq recs',
           dman' = dman, phase' # "down" => man' = man /\ phase # "down"
    PROVE  CounterInv'
<1>1. Saved' = Saved /\ (phase' # "down" => Tables' = Tables)
  BY DEF Saved, Tables
<1>. QED
  BY <1>1 DEF CounterInv, Counts

(* A table joins those of the manifest.                                    *)
LEMMA CounterWithTable ==
    ASSUME TypeInv, CounterInv, phase # "down", lastSeqno' = lastSeqno, recs' = recs,
           NEW t, man' = <<t>> \o man, dman' = man' \/ dman' = dman
    PROVE  CounterInv'
<1>1. Tables' = {t} \cup Tables
  BY Prepended DEF Tables, TypeInv, TypeOK, AreTables
<1>2. Saved' = Tables' \/ Saved' = Saved
  BY DEF Saved, Tables
<1>. QED
  BY <1>1, <1>2 DEF CounterInv, Counts

(* Recovery finds the counter where the process that died had left it.     *)
LEMMA CounterRecovered ==
    ASSUME TypeInv, StoreInv, CounterInv, FinishOpen
    PROVE  lastSeqno' = lastSeqno /\ CounterInv'
<1>1. PICK w \in Watermark(man) : Log!Open(w)
  BY DEF FinishOpen
<1>2. PICK n \in {w} \cup {r.seq : r \in recs} :
         /\ \A m \in {w} \cup {r.seq : r \in recs} : m <= n
         /\ lastSeqno' = n
  BY <1>1 DEF Log!Open
<1>3. lastSeqno \in Nat /\ \A r \in recs : r.seq \in Nat /\ r.seq <= lastSeqno
  <2>1. \A r \in recs : IsRecord(r) /\ EntryOf(r) \in Known /\ EntryOf(r).seq = r.seq
    BY EntryOfRecord DEF TypeInv, TypeOK, Known, Logged
  <2>. QED
    BY <2>1 DEF TypeInv, TypeOK, IsRecord, StoreInv, LogInv, AllCounted
<1>4. \A t \in Tables : t.hi \in Nat /\ t.hi <= lastSeqno
  <2>1. \A t \in Tables : IsTable(t) /\ IsRight(t) /\ Entries(t.data) \subseteq Known
    BY KnownTyped, TablesKnown DEF TypeInv, StoreInv, CoverInv
  <2>. QED
    BY <2>1 DEF IsTable, IsRight, StoreInv, LogInv, AllCounted
<1>5. w \in {0} \cup {t.hi : t \in Tables} /\ 0 <= w /\ \A t \in Tables : t.hi <= w
  BY <1>1 DEF Watermark, Greatest, Tables
<1>6. n \in Nat /\ n <= lastSeqno
  BY <1>2, <1>3, <1>4, <1>5
<1>7. phase # "down" /\ recs' = recs /\ man' = man /\ dman' = dman
  BY DEF FinishOpen, Log!Open, diskVars, tableVars
<1>8. lastSeqno <= n
  <2>1. CASE lastSeqno = 0
    BY <1>6, <2>1
  <2>2. CASE \E r \in recs : r.seq = lastSeqno
    BY <1>2, <2>2
  <2>3. CASE \E t \in Tables : t.hi = lastSeqno
    <3>1. lastSeqno <= w /\ w <= n /\ w \in Nat
      BY <1>2, <1>4, <1>5, <2>3
    <3>. QED
      BY <1>3, <1>6, <3>1
  <2>. QED
    BY <1>7, <2>1, <2>2, <2>3 DEF CounterInv, Counts
<1>9. lastSeqno' = lastSeqno
  BY <1>2, <1>3, <1>6, <1>8
<1>. QED
  BY <1>7, <1>9, CounterUntouched

(* Records that the watermark covers are removed: if the last seqNo is     *)
(* among them, it is the watermark.                                        *)
LEMMA CounterAfterCut ==
    ASSUME TypeInv, StoreInv, CounterInv, job.pc = "clean",
           NEW w \in Watermark(man), NEW gone, gone \subseteq Log!Covered(w),
           recs' = {r \in recs : r.seg \notin gone},
           lastSeqno' = lastSeqno, dman' = dman, phase' # "down" => man' = man
    PROVE  CounterInv'
<1>1. Saved = Tables /\ Tables # {} /\ phase # "down"
  BY DEF StoreInv, JobInv, CleansAfterSave, TypeInv, Quiet, Live
<1>2. Saved' = Tables /\ (phase' # "down" => Tables' = Tables)
  BY <1>1 DEF Saved, Tables
<1>3. Counts(Tables)
  BY <1>1 DEF CounterInv
<1>4. \A t \in Tables : t.hi \in Nat /\ t.hi <= lastSeqno
  <2>1. \A t \in Tables : IsTable(t) /\ IsRight(t) /\ Entries(t.data) \subseteq Known
    BY KnownTyped, TablesKnown DEF TypeInv, StoreInv, CoverInv
  <2>. QED
    BY <2>1 DEF IsTable, IsRight, StoreInv, LogInv, AllCounted
<1>5. w \in {0} \cup {t.hi : t \in Tables} /\ \A t \in Tables : t.hi <= w
  BY DEF Watermark, Greatest, Tables
<1>6. PICK u \in Tables : u.hi = w
  BY <1>1, <1>4, <1>5
<1>7. ASSUME NEW r \in recs, r.seq = lastSeqno, r \notin recs'
      PROVE  u.hi = lastSeqno
  <2>1. r.seq <= w
    BY <1>7 DEF Log!Covered
  <2>2. lastSeqno \in Nat
    BY DEF TypeInv, TypeOK
  <2>. QED
    BY <1>4, <1>6, <1>7, <2>1, <2>2
<1>8. \/ lastSeqno = 0 \/ \E r \in recs' : r.seq = lastSeqno
      \/ \E t \in Tables : t.hi = lastSeqno
  BY <1>3, <1>7 DEF Counts
<1>. QED
  BY <1>2, <1>8 DEF CounterInv, Counts

(* The output of a compaction that drops nothing has the highest seqNo of  *)
(* its inputs.                                                             *)
LEMMA CounterCompacted ==
    ASSUME TypeInv, TablesInv, StoreInv, CounterInv, SafeToCompact, KeepsLastWrite,
           job.pc = "compact", EditForCompaction,
           lastSeqno' = lastSeqno, recs' = recs, phase' = phase,
           dman' = man' \/ dman' = dman
    PROVE  CounterInv'
<1>1. Tables' = Rest \cup job.out /\ (Saved' = Tables' \/ Saved' = Saved)
  BY CompactionEdited DEF Saved, Tables
<1>2. phase # "down" /\ InOrder
  BY DEF SafeToCompact, TypeInv, Quiet, Live
<1>3. ASSUME NEW x \in Tables, x.hi = lastSeqno
      PROVE  \E t \in Tables' : t.hi = lastSeqno
  <2>1. CASE x \in Rest
    BY <1>1, <1>3, <2>1
  <2>2. CASE x \in Inputs
    <3>1. PICK e \in Entries(x.data) : e.seq = lastSeqno
      BY <1>3 DEF StoreInv, CoverInv, IsRight
    <3>2. e \in In(Inputs)
      BY <2>2, <3>1 DEF In
    <3>3. PICK f \in In(job.out) : f.key = e.key
      BY <3>1, <3>2 DEF KeepsLastWrite, HasKey
    <3>4. e.seq <= f.seq /\ f \in In(Inputs)
      BY <1>2, <3>2, <3>3, Compacted
    <3>5. PICK o \in job.out : f \in Entries(o.data)
      BY <3>3 DEF In
    <3>6. f.seq <= o.hi /\ IsTable(o) /\ \E y \in Inputs : o.hi <= y.hi
      BY <1>2, <3>5, OutputInOrder DEF IsRight
    <3>7. PICK y \in Inputs : o.hi <= y.hi
      BY <3>6
    <3>8. y \in Tables /\ IsTable(y) /\ IsRight(y) /\ Entries(y.data) \subseteq Known
      BY KnownTyped, TablesKnown DEF Inputs, TypeInv, StoreInv, CoverInv
    <3>9. y.hi <= lastSeqno
      BY <3>8 DEF IsRight, StoreInv, LogInv, AllCounted
    <3>10. f \in Known /\ IsEntry(f)
      <4>1. f \in In(Tables)
        BY <3>4 DEF In, Inputs
      <4>. QED
        BY <4>1, TablesKnown, KnownTyped DEF TypeInv
    <3>11. o.hi = lastSeqno
      BY <3>1, <3>4, <3>6, <3>7, <3>8, <3>9, <3>10 DEF IsTable, IsEntry, TypeInv, TypeOK
    <3>. QED
      BY <1>1, <3>5, <3>11
  <2>. QED
    BY <2>1, <2>2 DEF Rest, Inputs
<1>. QED
  BY <1>1, <1>2, <1>3 DEF CounterInv, Counts

(* The counter moves with an append, and survives everything else.         *)
LEMMA StepCounts ==
    ASSUME AllInv, CounterInv, SafeToCompact, KeepsLastWrite, [Next]_vars
    PROVE  CounterInv' /\ (lastSeqno' = lastSeqno \/ \E o \in Mutation : LogWrite(o))
<1>1. TypeInv /\ TablesInv /\ StoreInv
  BY DEF AllInv
<1>2. CASE LoadManifest
  <2>1. /\ recs' = recs /\ lastSeqno' = lastSeqno /\ dman' = dman
        /\ man' \in SortedByMaxSeqno(Range(dman))
    BY <1>2 DEF LoadManifest, walVars
  <2>2. Range(man') = Range(dman)
    BY <1>1, <2>1, FiniteRange, SortedTables DEF TypeInv, TypeOK, AreTables
  <2>3. Saved' = Saved /\ Tables' = Saved
    BY <2>1, <2>2 DEF Saved, Tables
  <2>. QED
    BY <2>1, <2>3 DEF CounterInv, Counts
<1>3. CASE FinishOpen
  BY <1>1, <1>3, CounterRecovered
<1>4. CASE \E o \in Mutation : LogWrite(o)
  <2>1. PICK o \in Mutation : LogWrite(o)
    BY <1>4
  <2>2. /\ lastSeqno' = lastSeqno + 1 /\ Log!NextRecord(o) \in recs'
        /\ Log!NextRecord(o).seq = lastSeqno + 1
    BY <2>1 DEF LogWrite, Log!Append, Log!NextRecord
  <2>. QED
    BY <1>4, <2>2 DEF CounterInv, Counts
<1>5. CASE FlushPublish \/ FlushSaveFails
  <2>1. /\ recs' = recs /\ lastSeqno' = lastSeqno
        /\ \E t : man' = <<t>> \o man
        /\ dman' = man' \/ dman' = dman
        /\ job.pc = "flush"
    BY <1>5 DEF FlushPublish, FlushSaveFails, walVars, diskVars
  <2>2. phase # "down"
    BY <1>1, <2>1 DEF TypeInv, Quiet, Live
  <2>. QED
    BY <1>1, <2>1, <2>2, CounterWithTable
<1>6. CASE FlushClean
  <2>1. /\ job.pc = "clean" /\ dman' = dman /\ man' = man
        /\ \E w \in Watermark(man) : Log!RemoveSegments(Log!Covered(w))
    BY <1>6 DEF FlushClean, diskVars, tableVars
  <2>2. PICK w \in Watermark(man) : Log!RemoveSegments(Log!Covered(w))
    BY <2>1
  <2>3. recs' = {r \in recs : r.seg \notin Log!Covered(w)} /\ lastSeqno' = lastSeqno
    BY <2>2 DEF Log!RemoveSegments
  <2>. QED
    BY <1>1, <2>1, <2>3, CounterAfterCut
<1>7. CASE CrashInCleanup
  <2>1. /\ job.pc = "clean" /\ dman' = dman /\ lastSeqno' = lastSeqno /\ phase' = "down"
        /\ \E w \in Watermark(man) : \E last \in Log!Covered(w) :
              recs' = {r \in recs : r.seg \notin {s \in Log!Covered(w) : s <= last}}
    BY <1>7 DEF CrashInCleanup, diskVars, ForgetMemory
  <2>2. PICK w \in Watermark(man) : \E gone \in SUBSET Log!Covered(w) :
           recs' = {r \in recs : r.seg \notin gone}
    BY <2>1
  <2>. QED
    BY <1>1, <2>1, <2>2, CounterAfterCut
<1>8. CASE CompactPublish \/ CompactSaveFails
  <2>1. /\ job.pc = "compact" /\ EditForCompaction
        /\ lastSeqno' = lastSeqno /\ recs' = recs /\ phase' = phase
        /\ dman' = man' \/ dman' = dman
    BY <1>8 DEF CompactPublish, CompactSaveFails, walVars, diskVars
  <2>. QED
    BY <1>1, <2>1, CounterCompacted
<1>9. CASE \/ ReplayOne \/ FlushWrite \/ FlushWriteFails \/ Compact \/ CompactCancel
           \/ CompactDelete \/ UNCHANGED vars
           \/ BeginWrite \/ BlockWriter \/ WakeWriter \/ RefuseWrite \/ ApplyWrite
           \/ ReturnFromWrite \/ Rotate
           \/ CloseGracefully \/ CloseFast \/ Drained \/ CloseLog \/ Exit \/ Crash
           \/ CrashInRotate
  <2>1. CASE ReplayOne \/ FlushWrite \/ FlushWriteFails
    BY <2>1, CounterUntouched DEF ReplayOne, FlushWrite, FlushWriteFails, DrainAbandoned,
       WorkersUp, Live, walVars, diskVars, tableVars
  <2>2. CASE Compact \/ CompactCancel \/ CompactDelete \/ UNCHANGED vars
    <3>1. /\ recs' = recs /\ lastSeqno' = lastSeqno /\ dman' = dman /\ man' = man
          /\ phase' = phase
      BY <2>2 DEF Compact, CompactWrite, CompactCancel, CompactDelete, vars,
         walVars, diskVars, tableVars
    <3>. QED
      BY <3>1, CounterUntouched
  <2>3. CASE \/ BeginWrite \/ BlockWriter \/ WakeWriter \/ RefuseWrite \/ ApplyWrite
             \/ ReturnFromWrite \/ Rotate
    <3>1. /\ recs' = recs /\ lastSeqno' = lastSeqno /\ dman' = dman /\ man' = man
          /\ phase' = phase
      BY <2>3 DEF BeginWrite, BlockWriter, WakeWriter, RefuseWrite, ApplyWrite,
         ReturnFromWrite, Rotate, Log!Roll, walVars, diskVars, tableVars
    <3>. QED
      BY <3>1, CounterUntouched
  <2>4. CASE \/ CloseGracefully \/ CloseFast \/ Drained \/ CloseLog \/ Exit \/ Crash
             \/ CrashInRotate
    <3>1. /\ recs' = recs /\ lastSeqno' = lastSeqno /\ dman' = dman
          /\ phase' = "down" \/ (man' = man /\ phase # "down")
      BY <2>4 DEF CloseGracefully, CloseFast, Drained, CloseLog, Exit, Crash, CrashInRotate,
         ForgetMemory, Log!Close, Log!Crash, Log!CrashInRoll, walVars, diskVars, tableVars
    <3>. QED
      BY <3>1, CounterUntouched
  <2>. QED
    BY <1>9, <2>1, <2>2, <2>3, <2>4
<1>. QED
  BY <1>2, <1>3, <1>4, <1>5, <1>6, <1>7, <1>8, <1>9
     DEF Next, Open, Write, Flush, Compaction, Stop

-----------------------------------------------------------------------------
(* It is what a restart would recover before and after every step.         *)
LEMMA AllShowNewest == AllInv => ShowsNewest(DurableView)
  BY DurableIsNewest DEF AllInv, TypeInv

(* A record appended is a write of the key-value store.                    *)
LEMMA AppendWrites ==
    ASSUME AllInv, AllInv', NEW o \in Mutation, LogWrite(o)
    PROVE  Store!Write(o.key, o.val)
<1>1. ShowsNewest(DurableView) /\ ShowsNewest(DurableView)'
  BY AllShowNewest, PTL
<1>2. PICK n : n = EntryOf(Log!NextRecord(o))
  OBVIOUS
<1>3. Known' = Known \cup {n} /\ \A e \in Known : e.seq < n.seq
  BY <1>2, LogWriteStores DEF AllInv
<1>4. n.key = o.key /\ n.val = o.val /\ n.seq \in Nat
  BY <1>2 DEF EntryOf, Log!NextRecord, AllInv, TypeInv, TypeOK
<1>5. \A e \in Known : IsEntry(e)
  BY KnownTyped DEF AllInv, TypeInv
<1>6. Newest(n)'
  BY <1>3, <1>4, <1>5 DEF Newest, IsEntry
<1>7. ASSUME NEW k \in Keys, k # o.key
      PROVE  DurableView'[k] = DurableView[k]
  <2>1. CASE HasKey(Known, k)
    <3>1. PICK e \in Known : Newest(e) /\ e.key = k
      BY <2>1, NewestExists DEF AllInv, TypeInv, StoreInv, LogInv
    <3>2. Newest(e)' /\ e \in Known'
      BY <1>3, <1>4, <1>7, <3>1 DEF Newest
    <3>. QED
      BY <1>1, <3>1, <3>2 DEF ShowsNewest
  <2>2. CASE ~HasKey(Known, k)
    <3>1. ~HasKey(Known', k)
      BY <1>3, <1>4, <1>7, <2>2 DEF HasKey
    <3>. QED
      BY <1>1, <1>7, <2>2, <3>1 DEF ShowsNewest
  <2>. QED
    BY <2>1, <2>2
<1>8. DurableView'[o.key] = o.val
  BY <1>1, <1>3, <1>4, <1>6 DEF ShowsNewest
<1>9. /\ DurableView = [k \in Keys |-> DurableView[k]]
      /\ DurableView' = [k \in Keys |-> DurableView'[k]]
  BY DEF DurableView
<1>10. DurableView' = [DurableView EXCEPT ![o.key] = o.val]
  <2>1. \A k \in Keys : DurableView'[k] = [DurableView EXCEPT ![o.key] = o.val][k]
    BY <1>7, <1>8, <1>9
  <2>. QED
    BY <1>9, <2>1
<1>11. lastSeqno' = lastSeqno + 1
  BY DEF LogWrite, Log!Append
<1>. QED
  BY <1>10, <1>11 DEF Store!Write

(* A step that counts as it should is a step of the key-value store.       *)
LEMMA StepWrites ==
    ASSUME AllInv, AllInv', SafeToCompact, [Next]_vars,
           lastSeqno' = lastSeqno \/ \E o \in Mutation : LogWrite(o)
    PROVE  [Store!Next]_<<DurableView, lastSeqno>>
<1>1. CASE \E o \in Mutation : LogWrite(o)
  <2>1. PICK o \in Mutation : LogWrite(o)
    BY <1>1
  <2>2. Store!Write(o.key, o.val) /\ o.key \in Keys /\ o.val \in Values \cup {NotFound}
    BY <2>1, AppendWrites DEF Mutation
  <2>. QED
    BY <2>2 DEF Store!Next
<1>2. CASE ~\E o \in Mutation : LogWrite(o)
  BY <1>2, StoreKeptButByWrites
<1>. QED
  BY <1>1, <1>2

(* The store starts out empty.                                             *)
LEMMA StoreAtFirst == Init => Store!Init
<1>. SUFFICES ASSUME Init PROVE Store!Init
  OBVIOUS
<1>1. recs = {} /\ Range(dman) = {} /\ lastSeqno = 0
  BY EmptyRange DEF Init, Log!Init
<1>2. \A k \in Keys : LoggedAt(k) = {} /\ SavedAt(k) = {}
  BY <1>1 DEF LoggedAt, SavedAt
<1>3. DurableView = [k \in Keys |-> NotFound]
  BY <1>2 DEF DurableView
<1>. QED
  BY <1>1, <1>3 DEF Store!Init

-----------------------------------------------------------------------------
(* The first session: until a restart or a failed save the condition on    *)
(* compactions holds by itself.                                            *)

(* As long as there is nothing, there is nothing to violate.               *)
LEMMA SessionEmpty ==
    ASSUME TypeOK, StartsEmpty, recs = {}, Tables = {}, job.pc # "clean"
    PROVE  SessionInv
<1>1. Logged = {}
  BY DEF Logged
<1>2. InOrder
  BY SequenceOfItsRange DEF InOrder, Tables, TypeOK, AreTables
<1>. QED
  BY <1>1, <1>2 DEF SessionInv, MemoryIsNewer, SegmentsMatch, RolledAfter

(* What most steps do: they touch neither the log nor memory nor the       *)
(* tables of the manifest.                                                 *)
LEMMA SessionUntouched ==
    ASSUME SessionInv, UNCHANGED <<recs, lastSeqno, activeSeg, dman, man, active, imms>>,
           UnderWay' = UnderWay, phase' = phase,
           job'.pc = "clean" => job.pc = "clean",
           job.pc = "clean" => job'.pc = "clean"
    PROVE  SessionInv'
<1>1. /\ Logged' = Logged /\ InMemory' = InMemory /\ Tables' = Tables /\ Saved' = Saved
      /\ \A n : RolledAfter(n)' <=> RolledAfter(n)
  BY DEF Logged, Memory, InMemory, Tables, Saved, RolledAfter
<1>2. StartsEmpty' /\ InOrder' /\ MemoryIsNewer'
  BY <1>1 DEF SessionInv, StartsEmpty, InOrder, MemoryIsNewer
<1>3. SegmentsMatch'
  BY <1>1 DEF SessionInv, SegmentsMatch
<1>. QED
  BY <1>2, <1>3 DEF SessionInv

(* A record is appended, newer than all there is, behind the last roll.    *)
LEMMA LogWriteInSession ==
    ASSUME TypeInv, OrderInv, StoreInv, SessionInv, NEW o \in Mutation, LogWrite(o)
    PROVE  SessionInv'
<1>. DEFINE r == Log!NextRecord(o)
            n == EntryOf(r)
<1>1. /\ UNCHANGED <<dman, man, active, imms, phase, job, todo>>
      /\ recs' = recs \cup {r} /\ activeSeg' = r.seg
      /\ writer.pc = "admitted" /\ writer'.pc = "logged" /\ writer'.rec = r
      /\ r.seg \in {activeSeg, activeSeg + 1}
  BY DEF LogWrite, Log!Append, Log!NextRecord, Log!AppendSeg, diskVars, tableVars, memVars
<1>2. IsRecord(r) /\ n.seq = r.seq /\ r.seq = lastSeqno + 1 /\ lastSeqno \in Nat
  BY EntryOfRecord DEF Log!NextRecord, Log!AppendSeg, IsRecord, TypeInv, TypeOK
<1>. HIDE DEF r
<1>3. /\ UnderWay' = {n} /\ Logged' = Logged \cup {n} /\ InMemory' = InMemory
      /\ Tables' = Tables /\ Saved' = Saved
  BY <1>1 DEF UnderWay, Logged, InMemory, Memory, Tables, Saved
<1>4. phase = "running"
  BY <1>1 DEF OrderInv, WriterNext, SessionInv, StartsEmpty
<1>5. /\ \A t \in Tables : t.hi \in Nat /\ t.hi < n.seq
      /\ \A m \in Range(imms) : \A k \in Seqnos(m) : k \in Nat /\ k < n.seq
      /\ \A k \in Watermark(man) : k \in Nat /\ k < n.seq
  <2>1. \A t \in Tables : t.hi \in Nat /\ t.hi <= lastSeqno
    BY HighestCounted DEF TypeInv, StoreInv
  <2>2. ASSUME NEW m \in Range(imms), NEW k \in Seqnos(m)
        PROVE  k \in Nat /\ k <= lastSeqno
    <3>1. m \in Memory /\ IsMemtable(m) /\ Entries(m) \subseteq Known
      BY KnownTyped, TablesKnown DEF Memory, TypeInv
    <3>2. PICK e \in Entries(m) : e.seq = k
      BY <2>2, <3>1, EntriesOfMemtable
    <3>. QED
      BY <3>1, <3>2, KnownTyped DEF TypeInv, IsEntry, StoreInv, LogInv, AllCounted
  <2>3. \A k \in Watermark(man) : k \in Nat /\ k <= lastSeqno
    <3>1. \A k \in Watermark(man) : k \in {0} \cup {t.hi : t \in Tables}
      BY DEF Watermark, Greatest, Tables
    <3>. QED
      BY <1>2, <2>1, <3>1
  <2>. QED
    BY <1>2, <2>1, <2>2, <2>3
<1>6. ASSUME NEW k, k \in Nat, k < n.seq, RolledAfter(k)
      PROVE  RolledAfter(k)'
  <2>1. ~(r.seq <= k) /\ activeSeg \in Nat /\ \A q \in recs : q.seg \in Nat
    BY <1>2, <1>6 DEF TypeInv, TypeOK, IsRecord
  <2>. QED
    BY <1>1, <1>6, <2>1 DEF RolledAfter
<1>7. StartsEmpty' /\ InOrder'
  BY <1>1, <1>3, <1>4 DEF SessionInv, StartsEmpty, InOrder
<1>8. MemoryIsNewer'
  <2>1. \A e \in InMemory, t \in Tables : e.seq > t.hi
    BY DEF SessionInv, MemoryIsNewer
  <2>2. \A t \in Tables : n.seq > t.hi
    BY <1>2, <1>5
  <2>. QED
    BY <1>3, <2>1, <2>2 DEF MemoryIsNewer
<1>9. SegmentsMatch'
  <2>1. \A m \in Range(imms) : \A k \in Greatest(Seqnos(m)) : k \in Seqnos(m)
    BY DEF Greatest
  <2>2. \A t \in Tables : n.seq > t.hi
    BY <1>2, <1>5
  <2>3. \A m \in Range(imms) : \A k \in Greatest(Seqnos(m)) : RolledAfter(k)'
    BY <1>5, <1>6, <2>1 DEF SessionInv, SegmentsMatch
  <2>4. job.pc = "clean" => \A k \in Watermark(man) : RolledAfter(k)'
    BY <1>5, <1>6 DEF SessionInv, SegmentsMatch
  <2>. QED
    BY <1>1, <1>3, <2>2, <2>3, <2>4 DEF SessionInv, SegmentsMatch
<1>. QED
  BY <1>7, <1>8, <1>9 DEF SessionInv

(* The record under way reaches the active memtable.                       *)
LEMMA ApplyWriteInSession ==
    ASSUME TypeInv, OrderInv, StoreInv, SessionInv, ApplyWrite
    PROVE  SessionInv'
<1>1. /\ UNCHANGED <<recs, lastSeqno, activeSeg, dman, man, imms, phase, job>>
      /\ active' = Apply(active, writer.rec)
      /\ writer.pc = "logged" /\ writer'.pc = "applied"
  BY DEF ApplyWrite, walVars, diskVars, tableVars
<1>2. IsRecord(writer.rec) /\ IsMemtable(active) /\ UnderWay = {EntryOf(writer.rec)} /\ UnderWay' = {}
  BY <1>1 DEF TypeInv, TypeOK, UnderWay
<1>3. InMemory' \subseteq InMemory \cup UnderWay
  <2>1. Entries(active') \subseteq Entries(active) \cup UnderWay
    BY <1>1, <1>2, EntriesApplied
  <2>. QED
    BY <1>1, <2>1 DEF InMemory, Memory
<1>4. /\ Logged' = Logged /\ Tables' = Tables /\ Saved' = Saved
      /\ \A n : RolledAfter(n)' <=> RolledAfter(n)
  BY <1>1 DEF Logged, Tables, Saved, RolledAfter
<1>5. StartsEmpty' /\ InOrder' /\ MemoryIsNewer'
  BY <1>1, <1>2, <1>3, <1>4 DEF SessionInv, StartsEmpty, InOrder, MemoryIsNewer
<1>6. SegmentsMatch'
  BY <1>1, <1>4 DEF SessionInv, SegmentsMatch
<1>. QED
  BY <1>5, <1>6 DEF SessionInv

(* The log is rolled right after the newest entry of the memtable that     *)
(* joins the queue.                                                        *)
LEMMA RotateInSession ==
    ASSUME TypeInv, OrderInv, StoreInv, SessionInv, Rotate
    PROVE  SessionInv'
<1>1. /\ UNCHANGED <<recs, lastSeqno, dman, man, phase, job>>
      /\ activeSeg' = activeSeg + 1 /\ isOpen
      /\ active' = EmptyMemtable /\ imms' = <<active>> \o imms
      /\ writer.pc = "applied" /\ writer'.pc = "idle"
  BY DEF Rotate, Log!Roll, diskVars, tableVars, Idle
<1>2. Range(imms') = {active} \cup Range(imms)
  BY <1>1, Prepended DEF TypeInv, TypeOK, AreMemtables
<1>3. /\ InMemory' = InMemory /\ UnderWay' = UnderWay /\ UnderWay = {}
      /\ Logged' = Logged /\ Tables' = Tables /\ Saved' = Saved
  BY <1>1, <1>2, EntriesEmpty DEF InMemory, Memory, UnderWay, Logged, Tables, Saved
<1>4. /\ \A r \in recs : /\ IsRecord(r) /\ r.seg \in Nat /\ r.seq \in Nat /\ r.seg <= activeSeg
                         /\ EntryOf(r).seq = r.seq /\ EntryOf(r) \in Logged
      /\ activeSeg \in Nat
  BY <1>1, EntryOfRecord DEF TypeInv, TypeOK, IsRecord, Logged, OrderInv, LogCounted
<1>5. \A n : RolledAfter(n) => RolledAfter(n)'
  BY <1>1, <1>4 DEF RolledAfter
<1>6. ASSUME NEW n \in Greatest(Seqnos(active))
      PROVE  RolledAfter(n)'
  <2>1. IsMemtable(active) /\ active \in Memory /\ Entries(active) \subseteq InMemory
    BY DEF TypeInv, TypeOK, Memory, InMemory
  <2>2. PICK d \in Entries(active) : d.seq = n
    BY <2>1, EntriesOfMemtable DEF Greatest
  <2>3. \A f \in Entries(active) : f.seq <= n
    BY <2>1, EntriesOfMemtable DEF Greatest
  <2>4. /\ \A e \in Known : IsEntry(e) /\ e.seq \in Nat
        /\ \A t \in Tables : t.hi \in Nat /\ IsRight(t) /\ Entries(t.data) \subseteq Known
        /\ InMemory \subseteq Known
    BY KnownTyped, TablesKnown DEF TypeInv, IsEntry, IsTable, StoreInv, CoverInv, Known
  <2>5. ASSUME NEW q \in recs, q.seq > n
        PROVE  FALSE
    <3>1. phase # "down" /\ Pending = {}
      BY <1>1, <1>3, WriterIsUp DEF Up
    <3>2. Placed(EntryOf(q))
      BY <1>4, <3>1 DEF StoreInv, PlaceInv
    <3>3. CASE InPlace(EntryOf(q))
      <4>1. PICK f \in InMemory : f.seq >= q.seq
        BY <1>4, <3>3 DEF InPlace
      <4>2. PICK m \in Memory : f \in Entries(m)
        BY DEF InMemory
      <4>3. f.seq > n /\ f.seq \in Nat /\ n \in Nat
        BY <1>4, <2>1, <2>2, <2>4, <2>5, <4>1
      <4>4. CASE m = active
        BY <2>3, <4>2, <4>3, <4>4
      <4>5. CASE m \in Range(imms)
        <5>1. d.seq > f.seq
          BY <2>2, <4>2, <4>5, ActiveNewest DEF TypeInv, OrderInv
        <5>. QED
          BY <2>2, <4>3, <5>1
      <4>. QED
        BY <4>2, <4>4, <4>5 DEF Memory
    <3>4. CASE \E y \in Tables : Later(Entries(y.data), EntryOf(q))
      <4>1. PICK y \in Tables : Later(Entries(y.data), EntryOf(q))
        BY <3>4
      <4>2. PICK f \in Entries(y.data) : f.seq >= q.seq
        BY <1>4, <4>1 DEF Later
      <4>3. f.seq <= y.hi /\ y.hi \in Nat /\ f.seq \in Nat
        BY <2>4, <4>1, <4>2 DEF IsRight
      <4>4. n > y.hi /\ n \in Nat
        BY <2>1, <2>2, <2>4, <4>1 DEF SessionInv, MemoryIsNewer
      <4>. QED
        BY <1>4, <2>5, <4>2, <4>3, <4>4
    <3>. QED
      BY <3>2, <3>3, <3>4 DEF Placed
  <2>. QED
    BY <1>1, <1>4, <2>5 DEF RolledAfter
<1>7. StartsEmpty' /\ InOrder' /\ MemoryIsNewer'
  BY <1>1, <1>3 DEF SessionInv, StartsEmpty, InOrder, MemoryIsNewer
<1>8. SegmentsMatch'
  <2>1. \A m \in Range(imms') : \A n \in Greatest(Seqnos(m)) : RolledAfter(n)'
    BY <1>2, <1>5, <1>6 DEF SessionInv, SegmentsMatch
  <2>2. job.pc = "clean" => \A n \in Watermark(man) : RolledAfter(n)'
    BY <1>5 DEF SessionInv, SegmentsMatch
  <2>. QED
    BY <1>1, <1>3, <2>1, <2>2 DEF SessionInv, SegmentsMatch
<1>. QED
  BY <1>7, <1>8 DEF SessionInv

(* The table flushed is newer than the others and older than what is left  *)
(* in memory.                                                              *)
LEMMA FlushPublishInSession ==
    ASSUME TypeInv, OrderInv, TablesInv, StoreInv, SessionInv, FlushPublish
    PROVE  SessionInv'
<1>1. /\ UNCHANGED <<recs, lastSeqno, activeSeg, active, phase>>
      /\ job.pc = "flush" /\ job'.pc = "clean" /\ imms' = Front(imms) /\ dman' = man'
      /\ writer' = writer \/ (writer.pc # "logged" /\ writer'.pc # "logged")
  BY DEF FlushPublish, NoJob, WriterNotified, Idle, walVars
<1>2. PICK t \in job.out : man' = <<t>> \o man
  BY DEF FlushPublish
<1>3. /\ Up /\ imms # <<>> /\ t.data = Last(imms) /\ IsTable(t) /\ t.hi \in Nat /\ IsRight(t)
      /\ Entries(t.data) \subseteq InMemory
      /\ \A m \in {active} \cup Range(Front(imms)) : \A e \in Entries(m) : e.seq > t.hi
  BY <1>1, FlushedTable DEF IsTable
<1>4. PICK d \in Entries(t.data) : d.seq = t.hi
  BY <1>3 DEF IsRight
<1>5. \A u \in Tables : u.hi \in Nat /\ t.hi > u.hi
  BY <1>3, <1>4, HighestCounted DEF TypeInv, StoreInv, SessionInv, MemoryIsNewer
<1>6. /\ Len(man) \in Nat /\ DOMAIN man = 1 .. Len(man) /\ DOMAIN man' = 1 .. Len(man) + 1
      /\ Tables' = {t} \cup Tables
      /\ \A i \in 1 .. Len(man) + 1 : man'[i] = IF i = 1 THEN t ELSE man[i - 1]
      /\ \A i \in 1 .. Len(man) : man[i] \in Tables
  <2>1. man \in Seq(Range(man))
    BY DEF TypeInv, TypeOK, AreTables
  <2>2. /\ man' \in Seq(Range(man')) /\ Len(man') = Len(man) + 1
        /\ Range(man') = {t} \cup Range(man)
        /\ \A i \in 1 .. Len(man) + 1 : man'[i] = IF i = 1 THEN t ELSE man[i - 1]
    BY <1>2, <2>1, Prepended
  <2>. QED
    BY <2>1, <2>2, SequenceOfItsRange DEF Tables
<1>7. InOrder'
  <2>1. ASSUME NEW p \in DOMAIN man', NEW q \in DOMAIN man', p < q
        PROVE  man'[p].hi > man'[q].hi
    <3>1. q - 1 \in DOMAIN man /\ man'[q] = man[q - 1]
      BY <1>6, <2>1
    <3>2. CASE p = 1
      BY <1>5, <1>6, <2>1, <3>1, <3>2
    <3>3. CASE p # 1
      <4>1. p - 1 \in DOMAIN man /\ man'[p] = man[p - 1] /\ p - 1 < q - 1
        BY <1>6, <2>1, <3>3
      <4>. QED
        BY <3>1, <4>1 DEF SessionInv, InOrder
    <3>. QED
      BY <3>2, <3>3
  <2>. QED
    BY <2>1 DEF InOrder
<1>8. /\ Range(Front(imms)) \subseteq Range(imms)
      /\ Last(imms) \in Range(imms) /\ IsMemtable(Last(imms))
  <2>1. Range(imms) = Range(Front(imms)) \cup {Last(imms)}
    BY <1>3, QueueSplit DEF TypeInv, OrderInv
  <2>. QED
    BY <1>3, <2>1, LastIsMemtable DEF TypeInv
<1>9. /\ Logged' = Logged /\ UnderWay' = UnderWay /\ \A n : RolledAfter(n)' <=> RolledAfter(n)
      /\ Memory' = {active} \cup Range(Front(imms))
  BY <1>1 DEF Logged, UnderWay, RolledAfter, Memory
<1>10. MemoryIsNewer'
  <2>1. \A e \in InMemory' : e \in InMemory /\ e.seq > t.hi
    BY <1>3, <1>8, <1>9 DEF InMemory, Memory
  <2>2. ASSUME NEW e \in UnderWay
        PROVE  e.seq > t.hi
    <3>1. e.seq = lastSeqno /\ \A k \in Held : k < lastSeqno
      BY <2>2, EntryOfRecord DEF UnderWay, OrderInv, WriterNext, TypeInv, TypeOK
    <3>2. t.hi \in Held
      BY <1>3, <1>4, HeldInMemory DEF TypeInv
    <3>3. lastSeqno \in Nat
      BY DEF TypeInv, TypeOK
    <3>. QED
      BY <1>3, <3>1, <3>2, <3>3
  <2>3. \A e \in InMemory \cup UnderWay, u \in Tables : e.seq > u.hi
    BY DEF SessionInv, MemoryIsNewer
  <2>. QED
    BY <1>6, <1>9, <2>1, <2>2, <2>3 DEF MemoryIsNewer
<1>11. t.hi \in Greatest(Seqnos(Last(imms)))
  BY <1>3, <1>4, <1>8, EntriesOfMemtable DEF Greatest, IsRight
<1>12. ASSUME NEW n \in Watermark(man')
       PROVE  n = t.hi
  <2>1. n \in {0} \cup {u.hi : u \in Tables'} /\ \A u \in Tables' : u.hi <= n
    BY DEF Watermark, Greatest, Tables
  <2>. QED
    BY <1>3, <1>5, <1>6, <2>1
<1>13. SegmentsMatch'
  <2>1. RolledAfter(t.hi)
    BY <1>8, <1>11 DEF SessionInv, SegmentsMatch
  <2>2. \A n \in Watermark(man') : RolledAfter(n)'
    BY <1>9, <1>12, <2>1
  <2>3. \A m \in Range(imms') : \A n \in Greatest(Seqnos(m)) : RolledAfter(n)'
    BY <1>1, <1>8, <1>9 DEF SessionInv, SegmentsMatch
  <2>. QED
    BY <1>1, <2>2, <2>3 DEF SegmentsMatch
<1>14. StartsEmpty'
  BY <1>1 DEF TypeInv, Quiet, Live, SessionInv, StartsEmpty
<1>. QED
  BY <1>7, <1>10, <1>13, <1>14 DEF SessionInv

(* All the flushed records are removed, since the watermark is where the   *)
(* log was rolled.                                                         *)
LEMMA FlushCleanInSession ==
    ASSUME TypeInv, OrderInv, StoreInv, SessionInv, FlushClean
    PROVE  SessionInv'
<1>1. /\ UNCHANGED <<activeSeg, dman, man, active, imms, phase, writer>>
      /\ job.pc = "clean" /\ job'.pc = "idle"
  BY DEF FlushClean, NoJob, Log!RemoveSegments, diskVars, tableVars, memVars
<1>2. PICK w \in Watermark(man) : recs' = {r \in recs : r.seg \notin Log!Covered(w)}
  BY DEF FlushClean, Log!RemoveSegments
<1>3. /\ InMemory' = InMemory /\ UnderWay' = UnderWay /\ Tables' = Tables /\ Saved' = Saved
      /\ \A n : RolledAfter(n) => RolledAfter(n)'
  BY <1>1, <1>2 DEF InMemory, Memory, UnderWay, Tables, Saved, RolledAfter
<1>4. /\ \A t \in Tables : t.hi \in Nat
      /\ w \in Nat /\ \A t \in Tables : t.hi <= w
  <2>1. \A t \in Tables : t.hi \in Nat
    BY HighestCounted DEF TypeInv, StoreInv
  <2>2. w \in {0} \cup {t.hi : t \in Tables} /\ \A t \in Tables : t.hi <= w
    BY DEF Watermark, Greatest, Tables
  <2>. QED
    BY <2>1, <2>2
<1>5. ASSUME NEW r \in recs'
      PROVE  r.seq > w /\ EntryOf(r).seq = r.seq /\ r.seq \in Nat
  <2>1. /\ r \in recs /\ r.seg \in segs /\ r.seg \notin Log!Covered(w)
        /\ \A q \in recs : IsRecord(q) /\ q.seq \in Nat /\ q.seg \in Nat
        /\ EntryOf(r).seq = r.seq
    BY <1>2, <1>5, EntryOfRecord DEF OrderInv, LogOrdered, TypeInv, TypeOK, IsRecord
  <2>2. RolledAfter(w)
    BY <1>1 DEF SessionInv, SegmentsMatch
  <2>3. CASE r.seq <= w
    <3>1. r.seg < activeSeg /\ \A q \in recs : q.seq > w => q.seg # r.seg
      BY <2>1, <2>2, <2>3 DEF RolledAfter
    <3>2. r.seg # activeSeg /\ \A q \in recs : q.seg = r.seg => q.seq <= w
      BY <1>4, <2>1, <3>1 DEF TypeInv, TypeOK
    <3>. QED
      BY <2>1, <3>2 DEF Log!Covered
  <2>. QED
    BY <1>4, <2>1, <2>3
<1>6. \A e \in Logged', t \in Tables : e.seq > t.hi
  BY <1>4, <1>5 DEF Logged
<1>7. SegmentsMatch'
  BY <1>1, <1>3, <1>6 DEF SessionInv, SegmentsMatch
<1>8. StartsEmpty' /\ InOrder' /\ MemoryIsNewer'
  BY <1>1, <1>3 DEF TypeInv, Quiet, Live, SessionInv, StartsEmpty, InOrder, MemoryIsNewer
<1>. QED
  BY <1>7, <1>8 DEF SessionInv

(* Tables of different max_seqno have one order.                           *)
LEMMA SortedStrictly ==
    ASSUME NEW S, IsFiniteSet(S), NEW s \in SortedByMaxSeqno(S),
           \A t \in S : t.hi \in Nat,
           \A t, u \in S : t # u => t.hi # u.hi
    PROVE  \A i, j \in DOMAIN s : i < j => s[i].hi > s[j].hi
<1>1. PICK n : n = Cardinality(S)
  OBVIOUS
<1>2. /\ s \in [1 .. n -> S] /\ n \in Nat
      /\ \A t \in S : \E i \in 1 .. n : s[i] = t
      /\ \A i, j \in 1 .. n : i < j => s[i].hi >= s[j].hi
  BY <1>1, FS_CardinalityType DEF SortedByMaxSeqno
<1>3. s \in Surjection(1 .. n, S)
  BY <1>2 DEF Surjection
<1>4. IsFiniteSet(1 .. n) /\ Cardinality(1 .. n) = n
  BY <1>2, FS_Interval
<1>5. s \in Injection(1 .. n, S)
  BY <1>1, <1>3, <1>4, FS_SurjSameCardinalityImpliesInj
<1>6. \A i, j \in 1 .. n : i # j => s[i] # s[j]
  BY <1>5 DEF Injection, IsInjective
<1>7. DOMAIN s = 1 .. n
  BY <1>2
<1>8. ASSUME NEW i \in 1 .. n, NEW j \in 1 .. n, i < j
      PROVE  s[i].hi > s[j].hi
  <2>1. s[i] \in S /\ s[j] \in S /\ s[i] # s[j] /\ s[i].hi >= s[j].hi
    BY <1>2, <1>6, <1>8
  <2>. QED
    BY <2>1
<1>. QED
  BY <1>7, <1>8

(* A compaction keeps the order and takes no table above its inputs.       *)
LEMMA CompactPublishInSession ==
    ASSUME TypeInv, OrderInv, TablesInv, StoreInv, SessionInv, CompactPublish
    PROVE  SessionInv'
<1>1. /\ UNCHANGED <<recs, lastSeqno, activeSeg, active, imms, phase, writer>>
      /\ job.pc = "compact" /\ job'.pc = "delete" /\ EditForCompaction
  BY DEF CompactPublish, walVars, memVars
<1>2. InOrder
  BY DEF SessionInv
<1>3. Tables' = Rest \cup job.out
  BY <1>1, CompactionEdited
<1>4. /\ \A t \in Tables : t.hi \in Nat
      /\ \A o \in job.out : o.hi \in Nat /\ \E x \in Tables : o.hi <= x.hi /\ x.hi \in Nat
  <2>1. \A t \in Tables : t.hi \in Nat
    BY HighestCounted DEF TypeInv, StoreInv
  <2>2. ASSUME NEW o \in job.out
        PROVE  o.hi \in Nat /\ \E x \in Tables : o.hi <= x.hi /\ x.hi \in Nat
    BY <1>1, <1>2, <2>1, OutputInOrder DEF IsTable, Inputs
  <2>. QED
    BY <2>1, <2>2
<1>5. ASSUME NEW t \in Rest \cup job.out, NEW u \in Rest \cup job.out, t # u
      PROVE  t.hi # u.hi
  <2>1. Rest \subseteq Tables
    BY DEF Rest
  <2>2. CASE t \in Rest /\ u \in Rest
    <3>1. PICK p \in DOMAIN man, q \in DOMAIN man : t = man[p] /\ u = man[q]
      BY <2>1, <2>2 DEF Tables, Range
    <3>2. p \in Nat /\ q \in Nat /\ p # q
      <4>1. DOMAIN man \subseteq Nat
        <5>1. man \in Seq(Range(man))
          BY DEF TypeInv, TypeOK, AreTables
        <5>2. DOMAIN man = 1 .. Len(man) /\ Len(man) \in Nat
          BY <5>1, SequenceOfItsRange
        <5>. QED
          BY <5>2
      <4>2. p # q
        BY <1>5, <3>1
      <4>. QED
        BY <4>1, <4>2
    <3>3. p < q \/ q < p
      BY <3>2
    <3>4. t.hi > u.hi \/ u.hi > t.hi
      BY <1>2, <3>1, <3>3 DEF InOrder
    <3>. QED
      BY <1>4, <2>1, <2>2, <3>4
  <2>3. CASE t \in Rest /\ u \in job.out
    BY <1>1, <1>2, <1>4, <2>1, <2>3, OutputInOrder
  <2>4. CASE t \in job.out /\ u \in Rest
    BY <1>1, <1>2, <1>4, <2>1, <2>4, OutputInOrder
  <2>5. CASE t \in job.out /\ u \in job.out
    BY <1>1, <1>2, <1>5, <2>5, Compacted
  <2>. QED
    BY <2>2, <2>3, <2>4, <2>5
<1>6. InOrder'
  <2>1. PICK S : S = {t \in Range(man) : t.id \notin job.ins} \cup job.out
    OBVIOUS
  <2>2. S = Rest \cup job.out
    BY <2>1 DEF Rest, Tables
  <2>3. IsFiniteSet(S)
    <3>1. IsFiniteSet(Range(man)) /\ IsFiniteSet(job.out)
      BY FiniteRange DEF TypeInv, TypeOK, AreTables, Quiet
    <3>2. IsFiniteSet({t \in Range(man) : t.id \notin job.ins})
      BY <3>1, FS_Subset
    <3>. QED
      BY <2>1, <3>1, <3>2, FS_Union
  <2>4. man' \in SortedByMaxSeqno(S)
    BY <1>1, <2>1 DEF EditForCompaction
  <2>5. \A t \in S : t.hi \in Nat
    BY <1>4, <2>2 DEF Rest
  <2>6. \A t, u \in S : t # u => t.hi # u.hi
    BY <1>5, <2>2
  <2>7. PICK s : s = man'
    OBVIOUS
  <2>8. \A i, j \in DOMAIN s : i < j => s[i].hi > s[j].hi
    BY <2>3, <2>4, <2>5, <2>6, <2>7, SortedStrictly
  <2>. QED
    BY <2>7, <2>8 DEF InOrder
<1>7. /\ Logged' = Logged /\ InMemory' = InMemory /\ UnderWay' = UnderWay
      /\ \A n : RolledAfter(n)' <=> RolledAfter(n)
  BY <1>1 DEF Logged, InMemory, Memory, UnderWay, RolledAfter
<1>8. ASSUME NEW e, e.seq \in Nat, \A t \in Tables : e.seq > t.hi
      PROVE  \A t \in Tables' : e.seq > t.hi
  <2>1. \A o \in job.out : e.seq > o.hi
    BY <1>4, <1>8
  <2>. QED
    BY <1>3, <1>8, <2>1 DEF Rest
<1>9. \A e \in Logged \cup InMemory \cup UnderWay : e.seq \in Nat
  <2>1. \A e \in UnderWay : e \in Logged
    BY DEF UnderWay, StoreInv, LogInv, WriterIsLogged, Logged
  <2>. QED
    BY <2>1, KnownTyped DEF TypeInv, IsEntry, Known
<1>10. MemoryIsNewer'
  BY <1>7, <1>8, <1>9 DEF SessionInv, MemoryIsNewer
<1>11. SegmentsMatch'
  BY <1>1, <1>7, <1>8, <1>9 DEF SessionInv, SegmentsMatch
<1>12. StartsEmpty'
  BY <1>1 DEF TypeInv, Quiet, Live, SessionInv, StartsEmpty
<1>. QED
  BY <1>6, <1>10, <1>11, <1>12 DEF SessionInv

NothingYet == StartsEmpty /\ recs = {} /\ Tables = {} /\ job.pc # "clean"

(* Nothing yet, so nothing out of order.                                   *)
LEMMA EmptyIsSession == TypeOK /\ NothingYet => SessionInv
BY SessionEmpty DEF NothingYet

(* An empty store is opened.                                               *)
LEMMA OpenInSession ==
    ASSUME TypeInv, TypeOK', SessionInv, LoadManifest \/ FinishOpen
    PROVE  SessionInv'
<1>1. recs = {} /\ Saved = {} /\ Tables = {} /\ job.pc = "idle"
  BY DEF LoadManifest, FinishOpen, SessionInv, StartsEmpty, TypeInv, Quiet, TypeOK, Live
<1>2. recs' = {} /\ dman' = dman /\ job'.pc # "clean" /\ phase' \in {"replay", "running"}
  BY <1>1 DEF LoadManifest, FinishOpen, Log!Open, walVars, diskVars
<1>3. Tables' = {} /\ Saved' = {}
  <2>1. CASE LoadManifest
    <3>1. Range(man') = Range(dman)
      BY <2>1, FiniteRange, SortedTables DEF LoadManifest, TypeInv, TypeOK, AreTables
    <3>. QED
      BY <1>1, <1>2, <3>1 DEF Tables, Saved
  <2>2. CASE FinishOpen
    BY <1>1, <2>2 DEF FinishOpen, diskVars, tableVars, Tables, Saved
  <2>. QED
    BY <2>1, <2>2
<1>4. lastSeqno' = 0
  <2>1. lastSeqno = 0
    BY DEF LoadManifest, FinishOpen, SessionInv, StartsEmpty
  <2>2. CASE LoadManifest
    BY <2>1, <2>2 DEF LoadManifest, walVars
  <2>3. CASE FinishOpen
    <3>1. PICK w \in Watermark(man) : Log!Open(w)
      BY <2>3 DEF FinishOpen
    <3>2. w = 0
      BY <1>1 DEF Watermark, Greatest, Tables
    <3>. QED
      BY <1>1, <3>1, <3>2 DEF Log!Open
  <2>. QED
    BY <2>2, <2>3
<1>5. StartsEmpty'
  BY <1>2, <1>3, <1>4 DEF StartsEmpty
<1>6. NothingYet'
  BY <1>2, <1>3, <1>5 DEF NothingYet
<1>. QED
  BY <1>6, EmptyIsSession, PTL

(* Every step of the first session keeps it so.                            *)
LEMMA SessionGoesOn ==
    ASSUME FirstSession', AllInv, TypeOK', SessionInv, [Next]_vars
    PROVE  SessionInv'
<1>1. TypeInv /\ OrderInv /\ TablesInv /\ StoreInv
  BY DEF AllInv
<1>2. /\ crashes' # crashes + 1 /\ closes' # closes + 1 /\ failures' # failures + 1
      /\ phase \in {"down", "replay", "running"}
  BY <1>1 DEF FirstSession, TypeInv, TypeOK, SessionInv, StartsEmpty
<1>3. CASE Open
  <2>1. ~ReplayOne
    BY <1>1 DEF ReplayOne, SessionInv, StartsEmpty, TypeInv, TypeOK
  <2>. QED
    BY <1>1, <1>3, <2>1, OpenInSession DEF Open
<1>4. CASE Write
  <2>1. CASE BeginWrite \/ BlockWriter \/ WakeWriter \/ RefuseWrite \/ ReturnFromWrite
    <3>1. /\ UNCHANGED <<recs, lastSeqno, activeSeg, dman, man, active, imms, phase, job>>
          /\ writer.pc # "logged" /\ writer'.pc # "logged"
      BY <2>1 DEF BeginWrite, BlockWriter, WakeWriter, RefuseWrite, ReturnFromWrite, Idle,
         walVars, diskVars, tableVars, memVars
    <3>. QED
      BY <3>1, SessionUntouched DEF UnderWay
  <2>2. CASE \E o \in Mutation : LogWrite(o)
    BY <1>1, <2>2, LogWriteInSession
  <2>. QED
    BY <1>1, <1>4, <2>1, <2>2, ApplyWriteInSession, RotateInSession DEF Write
<1>5. CASE Flush
  <2>1. ~FlushWriteFails /\ ~FlushSaveFails
    BY <1>2 DEF FlushWriteFails, FlushSaveFails
  <2>2. CASE FlushWrite
    <3>1. /\ UNCHANGED <<recs, lastSeqno, activeSeg, dman, man, active, imms, phase, writer>>
          /\ job.pc = "idle" /\ job'.pc = "flush"
      BY <2>2 DEF FlushWrite, walVars, tableVars, memVars
    <3>. QED
      BY <3>1, SessionUntouched DEF UnderWay
  <2>. QED
    BY <1>1, <1>5, <2>1, <2>2, FlushPublishInSession, FlushCleanInSession DEF Flush
<1>6. CASE Compaction
  <2>1. ~CompactSaveFails
    BY <1>2 DEF CompactSaveFails
  <2>2. CASE Compact \/ CompactCancel \/ CompactDelete
    <3>1. /\ UNCHANGED <<recs, lastSeqno, activeSeg, dman, man, active, imms, phase, writer>>
          /\ job.pc # "clean" /\ job'.pc # "clean"
      BY <2>2 DEF Compact, CompactWrite, CompactCancel, CompactDelete, NoJob,
         walVars, tableVars, memVars
    <3>. QED
      BY <3>1, SessionUntouched DEF UnderWay
  <2>. QED
    BY <1>1, <1>6, <2>1, <2>2, CompactPublishInSession DEF Compaction
<1>7. CASE Stop
  BY <1>2, <1>7 DEF Stop, CloseGracefully, CloseFast, Drained, CloseLog, Exit, Crash,
     CrashInRotate, CrashInCleanup, OrderInv
<1>8. CASE UNCHANGED vars
  BY <1>8, SessionUntouched DEF UnderWay, vars, walVars, diskVars, tableVars, memVars
<1>. QED
  BY <1>3, <1>4, <1>5, <1>6, <1>7, <1>8 DEF Next

(* It starts with an empty store.                                          *)
LEMMA SessionBegins == Init => SessionInv
<1>. SUFFICES ASSUME Init PROVE SessionInv
  OBVIOUS
<1>1. /\ phase = "down" /\ recs = {} /\ lastSeqno = 0 /\ Saved = {} /\ Tables = {}
      /\ job.pc = "idle"
  BY EmptyRange DEF Init, Log!Init, NoJob, Saved, Tables
<1>2. TypeOK
  BY InitTyped DEF TypeInv
<1>. QED
  BY <1>1, <1>2, EmptyIsSession DEF NothingYet, StartsEmpty

(* In it the manifest is in order, and the log is newer than the tables    *)
(* whenever a compaction may run.                                          *)
LEMMA SessionIsSafe == SessionInv => SafeToCompact
BY DEF SessionInv, MemoryIsNewer, SegmentsMatch, SafeToCompact, LogIsNewer, Recent

(* What has failed, been closed or crashed has done so for good.           *)
LEMMA SessionsEnd == TypeOK /\ [Next]_vars /\ FirstSession' => FirstSession
<1>. SUFFICES ASSUME TypeOK, [Next]_vars, FirstSession' PROVE FirstSession
  OBVIOUS
<1>1. /\ {crashes, closes, failures} \subseteq Nat
      /\ crashes' = 0 /\ closes' = 0 /\ failures' = 0
  BY DEF TypeOK, FirstSession
<1>2. CASE Open \/ Write
  BY <1>1, <1>2 DEF Open, LoadManifest, ReplayOne, FinishOpen, Write, BeginWrite,
     BlockWriter, WakeWriter, RefuseWrite, LogWrite, ApplyWrite, ReturnFromWrite, Rotate,
     boundVars, FirstSession
<1>3. CASE Flush \/ Compaction
  BY <1>1, <1>3 DEF Flush, FlushWrite, FlushWriteFails, FlushPublish, FlushSaveFails,
     FlushClean, Compaction, Compact, CompactWrite, CompactCancel, CompactPublish,
     CompactSaveFails, CompactDelete, boundVars, FirstSession
<1>4. CASE Stop
  BY <1>1, <1>4 DEF Stop, CloseGracefully, CloseFast, Drained, CloseLog, Exit, Crash,
     CrashInRotate, CrashInCleanup, boundVars, FirstSession
<1>5. CASE UNCHANGED vars
  BY <1>1, <1>5 DEF vars, boundVars, FirstSession
<1>. QED
  BY <1>2, <1>3, <1>4, <1>5 DEF Next

-----------------------------------------------------------------------------
(* The invariant of the engine: types, the order of memtables, the tables  *)
(* on disk, and the store.                                                 *)
Inv == AllInv /\ (FirstSession => SessionInv)

(* The invariant holds at first.                                           *)
LEMMA InvAtFirst == Init => Inv
BY AllAtFirst, SessionBegins DEF Inv

(* In any state a compaction is safe: by the invariant in the first        *)
(* session, by the condition after it.                                     *)
LEMMA InvIsSafe == Inv /\ CompactsSafely => SafeToCompact
BY SessionIsSafe DEF Inv, CompactsSafely

(* And every step keeps it.                                                *)
LEMMA InvKept == Inv /\ CompactsSafely /\ [Next]_vars => Inv'
<1>. SUFFICES ASSUME Inv, CompactsSafely, [Next]_vars PROVE Inv'
  OBVIOUS
<1>1. AllInv'
  BY InvIsSafe, OthersKept, StepStores DEF AllInv, Inv
<1>2. ASSUME FirstSession' PROVE SessionInv'
  <2>1. TypeOK /\ TypeOK'
    BY <1>1 DEF AllInv, Inv, TypeInv
  <2>. QED
    BY <1>2, <2>1, SessionsEnd, SessionGoesOn DEF Inv
<1>. QED
  BY <1>1, <1>2 DEF Inv

(* The condition gives the whole invariant; in the first session it is no  *)
(* condition at all.                                                       *)
THEOREM StoreIsSafe == Spec /\ []CompactsSafely => []SafeInv
<1>1. Inv => SafeInv
  BY DEF Inv, AllInv, SafeInv
<1>. QED
  BY InvAtFirst, InvKept, <1>1, PTL DEF Spec

(* A get sees exactly what a restart would recover, through every flush,   *)
(* compaction, cleanup, failure, close, crash and replay: always in the    *)
(* first session, and after it as long as no compaction works on an        *)
(* unordered manifest or drops a delete marker that the log still needs.   *)
THEOREM GetsWhatIsDurable == Spec /\ []CompactsSafely => []ReadsAreDurable
<1>1. Inv => ReadsAreDurable
  BY ViewsAgree DEF Inv, AllInv, OrderInv
<1>. QED
  BY InvAtFirst, InvKept, <1>1, PTL DEF Spec

(* And nothing but the append of a record changes what a restart would     *)
(* recover.                                                                *)
THEOREM OnlyWritesChange == Spec /\ []CompactsSafely => OnlyWritesChangeTheStore
<1>1. Inv /\ Inv' /\ CompactsSafely /\ [Next]_vars
         => [DurableView' # DurableView =>
                writer.pc = "admitted" /\ writer'.pc = "logged"]_vars
  <2>. SUFFICES ASSUME Inv, Inv', CompactsSafely, [Next]_vars, DurableView' # DurableView
                PROVE  writer.pc = "admitted" /\ writer'.pc = "logged"
    OBVIOUS
  <2>1. PICK o \in Mutation : LogWrite(o)
    BY InvIsSafe, StoreKeptButByWrites DEF Inv
  <2>. QED
    BY <2>1 DEF LogWrite
<1>. QED
  BY InvAtFirst, InvKept, <1>1, PTL DEF Spec, OnlyWritesChangeTheStore

(* If compactions also keep a delete marker that is the very last write,   *)
(* the engine implements the key-value store, and its seqNo counter counts *)
(* the writes.                                                             *)
THEOREM EngineIsKvStore ==
    Spec /\ []CompactsSafely /\ []KeepsLastWrite => ImplementsKvStore
<1>1. Init => CounterInv
  BY DEF Init, Log!Init, CounterInv, Counts
<1>2. Inv /\ CounterInv /\ CompactsSafely /\ KeepsLastWrite /\ [Next]_vars => CounterInv'
  BY InvIsSafe, StepCounts DEF Inv
<1>3. Inv /\ Inv' /\ CounterInv /\ CompactsSafely /\ KeepsLastWrite /\ [Next]_vars
         => [Store!Next]_<<DurableView, lastSeqno>>
  BY InvIsSafe, StepCounts, StepWrites DEF Inv
<1>. QED
  BY InvAtFirst, InvKept, StoreAtFirst, <1>1, <1>2, <1>3, PTL
     DEF Spec, ImplementsKvStore, Store!Spec

-----------------------------------------------------------------------------
(* Without compactions, as in the run Engine_crash: no id is low enough    *)
(* for one to start.                                                       *)
Idless == nextId >= 1 /\ dnextId >= 1 /\ job.pc # "compact"

(* Ids start at 1 and only grow.                                           *)
LEMMA IdsStartAtOne ==
    ASSUME MaxCompactId = 0, TypeOK, TypeOK', Idless, [Next]_vars
    PROVE  Idless'
<1>1. CASE LoadManifest
  BY <1>1 DEF LoadManifest, Greatest, Idless, TypeOK
<1>2. CASE FlushPublish \/ FlushSaveFails
  <2>1. PICK t \in job.out : nextId' = Max({nextId, t.id + 1})
    BY <1>2 DEF FlushPublish, FlushSaveFails
  <2>2. nextId \in Nat /\ t.id + 1 \in Nat
    BY <2>1 DEF TypeOK, IsTable
  <2>3. nextId' >= nextId
    BY <2>1, <2>2, GreaterOfTwo
  <2>. QED
    BY <1>2, <2>2, <2>3 DEF FlushPublish, FlushSaveFails, NoJob, GiveUp, Idless, TypeOK, diskVars
<1>3. CASE Compaction
  BY <1>3 DEF Compaction, Compact, CompactWrite, CompactCancel, CompactPublish,
     CompactSaveFails, CompactDelete, Idless, NoJob, TypeOK, tableVars
<1>4. CASE ReplayOne \/ FinishOpen \/ Write
  BY <1>4 DEF ReplayOne, FinishOpen, Write, BeginWrite, BlockWriter, WakeWriter,
     RefuseWrite, LogWrite, ApplyWrite, ReturnFromWrite, Rotate, Idless, diskVars, tableVars
<1>5. CASE FlushWrite \/ FlushWriteFails \/ FlushClean
  BY <1>5 DEF FlushWrite, FlushWriteFails, FlushClean, Idless, NoJob, diskVars, tableVars
<1>6. CASE Stop
  BY <1>6 DEF Stop, CloseGracefully, CloseFast, Drained, CloseLog, Exit, Crash,
     CrashInRotate, CrashInCleanup, ForgetMemory, Idless, NoJob, diskVars, tableVars
<1>7. CASE UNCHANGED vars
  BY <1>7 DEF vars, diskVars, tableVars, Idless
<1>. QED
  BY <1>1, <1>2, <1>3, <1>4, <1>5, <1>6, <1>7 DEF Next, Open, Flush

(* As long as nothing is compacted, no condition is needed, whatever       *)
(* fails, crashes or is flushed twice.                                     *)
THEOREM KvStoreWithoutCompaction == MaxCompactId = 0 => (Spec => ImplementsKvStore)
<1>. SUFFICES ASSUME MaxCompactId = 0 PROVE Spec => ImplementsKvStore
  OBVIOUS
<1>1. Init => Idless
  BY DEF Init, Idless, NoJob
<1>2. TypeOK /\ TypeOK' /\ Idless /\ [Next]_vars => Idless'
  BY IdsStartAtOne
<1>3. Idless => CompactsSafely /\ KeepsLastWrite
  BY DEF Idless, CompactsSafely, SafeToCompact, KeepsLastWrite
<1>. QED
  BY TypeCorrect, EngineIsKvStore, <1>1, <1>2, <1>3, PTL DEF Spec
=============================================================================
