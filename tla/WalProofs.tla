------------------------------- MODULE WalProofs -------------------------------
(***************************************************************************)
(* Proofs about Wal, for any clients, pages and tuples and a log of any    *)
(* length, whenever the process crashes and however often recovery does:   *)
(* the numbers of a log's records grow, and with one writer per page at a  *)
(* time the log rebuilds every answered operation.                         *)
(***************************************************************************)
EXTENDS Wal, SequenceTheorems, WellFoundedInduction, TLAPS

Records == file \o buffer

(* Operations and the phases of the process.                               *)
Orderly ==
  /\ \A c \in Client : step[c] = "idle" <=> op[c] = Idle
  /\ phase # "running" => buffer = <<>> /\ \A c \in Client : op[c] = Idle
  /\ phase \in {"running", "closed"} => unsure = {} /\ ~torn

(* What concerns the heap's pages is sets of tuples.                       *)
HeapRecord == [lsn : Nat \ {0}, page : Page, image : SUBSET Tuple]

Plain ==
  /\ \A c \in Client : op[c] # Idle => owner[op[c][1]] = "heap"
  /\ copy \in [Client -> SUBSET Tuple]
  /\ \A p \in HeapPage : store[p] \in SUBSET Tuple /\ durable[p] \in SUBSET Tuple
  /\ file \in Seq(HeapRecord) /\ buffer \in Seq(HeapRecord)

(* Numbers grow along the log, and the next one is larger.                 *)
Increasing(L) == \A i, j \in DOMAIN L : i < j => L[i].lsn < L[j].lsn
Below(L, n) == \A i \in DOMAIN L : L[i].lsn < n

Numbered ==
  /\ Increasing(Records)
  /\ phase \notin {"down", "closed"} => Below(Records, next_lsn)

Base == TypeOK /\ Orderly /\ Plain /\ Numbered

-------------------------------------------------------------------------------
(* Sequences of records. *)
LEMMA Concatenation ==
  ASSUME NEW s \in Seq(Record), NEW t \in Seq(Record)
  PROVE  /\ s \o t \in Seq(Record)
         /\ DOMAIN s = 1 .. Len(s) /\ DOMAIN t = 1 .. Len(t)
         /\ Len(s) \in Nat /\ Len(t) \in Nat
         /\ Len(s \o t) = Len(s) + Len(t)
         /\ DOMAIN (s \o t) = 1 .. Len(s) + Len(t)
         /\ \A i \in DOMAIN s : (s \o t)[i] = s[i] /\ i \in DOMAIN (s \o t)
         /\ \A i \in DOMAIN t : /\ (s \o t)[Len(s) + i] = t[i]
                                /\ Len(s) + i \in DOMAIN (s \o t)
         /\ \A i \in DOMAIN (s \o t) :
              \/ i \in DOMAIN s
              \/ i - Len(s) \in DOMAIN t /\ (s \o t)[i] = t[i - Len(s)] /\ i > Len(s)
<1>1. /\ s \o t \in Seq(Record)
      /\ Len(s \o t) = Len(s) + Len(t)
      /\ \A i \in 1 .. Len(s) + Len(t) :
           (s \o t)[i] = IF i <= Len(s) THEN s[i] ELSE t[i - Len(s)]
  BY ConcatProperties
<1>2. /\ DOMAIN s = 1 .. Len(s) /\ Len(s) \in Nat
      /\ DOMAIN t = 1 .. Len(t) /\ Len(t) \in Nat
      /\ DOMAIN (s \o t) = 1 .. Len(s \o t)
  BY <1>1, LenProperties
<1> HIDE DEF Record
<1> QED
  BY <1>1, <1>2

(* The first n of them. *)
LEMMA Prefix ==
  ASSUME NEW t \in Seq(Record), NEW n \in 0 .. Len(t)
  PROVE  /\ SubSeq(t, 1, n) \in Seq(Record)
         /\ DOMAIN SubSeq(t, 1, n) = 1 .. n /\ Len(SubSeq(t, 1, n)) = n
         /\ DOMAIN t = 1 .. Len(t) /\ Len(t) \in Nat
         /\ \A i \in 1 .. n : SubSeq(t, 1, n)[i] = t[i]
<1>1. DOMAIN t = 1 .. Len(t) /\ Len(t) \in Nat /\ \A i \in 1 .. Len(t) : t[i] \in Record
  BY LenProperties, ElementOfSeq
<1>2. /\ SubSeq(t, 1, n) \in Seq(Record)
      /\ Len(SubSeq(t, 1, n)) = IF 1 <= n THEN n - 1 + 1 ELSE 0
      /\ \A i \in 1 .. n - 1 + 1 : SubSeq(t, 1, n)[i] = t[1 + i - 1]
  BY <1>1, SubSeqProperties
<1>3. DOMAIN SubSeq(t, 1, n) = 1 .. Len(SubSeq(t, 1, n))
  BY <1>2, LenProperties
<1> HIDE DEF Record
<1> QED
  BY <1>1, <1>2, <1>3

(* Nothing behind the last. *)
LEMMA NothingBehind ==
  ASSUME NEW s \in Seq(Record)
  PROVE  /\ s \o <<>> = s /\ <<>> \in Seq(Record) /\ Len(<<>>) = 0
         /\ SubSeq(s, 1, Len(s)) = s
BY ConcatEmptySeq, EmptySeq, SubSeqFull

(* A log that is cut off behind some record. *)
LEMMA CutOff ==
  ASSUME NEW s \in Seq(Record), NEW t \in Seq(Record), NEW n \in 0 .. Len(t),
         Increasing(s \o t)
  PROVE  Increasing(s \o SubSeq(t, 1, n)) /\ Increasing(s)
<1> DEFINE u == SubSeq(t, 1, n)
<1>1. /\ u \in Seq(Record) /\ DOMAIN u = 1 .. n /\ Len(u) = n
      /\ \A i \in 1 .. n : u[i] = t[i]
      /\ DOMAIN t = 1 .. Len(t) /\ Len(t) \in Nat
  BY Prefix
<1> HIDE DEF u
<1>2. \A i \in DOMAIN (s \o u) : i \in DOMAIN (s \o t) /\ (s \o u)[i] = (s \o t)[i]
  <2>1. /\ DOMAIN (s \o u) = 1 .. Len(s) + Len(u)
        /\ DOMAIN (s \o t) = 1 .. Len(s) + Len(t)
        /\ Len(s) \in Nat
    BY <1>1, Concatenation
  <2>2. \A i \in 1 .. Len(s) + n :
          /\ (s \o u)[i] = IF i <= Len(s) THEN s[i] ELSE u[i - Len(s)]
          /\ (s \o t)[i] = IF i <= Len(s) THEN s[i] ELSE t[i - Len(s)]
    BY <1>1, <2>1, ConcatProperties
  <2> HIDE DEF Record
  <2> QED
    BY <1>1, <2>1, <2>2
<1>3. Increasing(s \o u)
  BY <1>2 DEF Increasing
<1>4. \A i \in DOMAIN s : i \in DOMAIN (s \o t) /\ (s \o t)[i] = s[i]
  BY Concatenation
<1>5. Increasing(s)
  BY <1>4 DEF Increasing
<1> QED
  BY <1>3, <1>5 DEF u

(* A record added, with a number larger than all. *)
LEMMA Added ==
  ASSUME NEW s \in Seq(Record), NEW t \in Seq(Record), NEW r \in Record,
         Increasing(s \o t), Below(s \o t, r.lsn)
  PROVE  /\ s \o Append(t, r) = Append(s \o t, r)
         /\ Increasing(s \o Append(t, r)) /\ Below(s \o Append(t, r), r.lsn + 1)
<1>1. s \o t \in Seq(Record)
  BY Concatenation
<1>2. s \o Append(t, r) = Append(s \o t, r)
  BY <1>1
<1> DEFINE L == s \o t
<1> HIDE DEF L
<1>3. L \in Seq(Record) /\ Increasing(L) /\ Below(L, r.lsn)
  BY <1>1 DEF L
<1>4. \A i \in DOMAIN L : L[i] \in Record
  BY <1>3
<1>5. Increasing(Append(L, r)) /\ Below(Append(L, r), r.lsn + 1)
  BY <1>3, <1>4 DEF Increasing, Below, Record
<1> QED
  BY <1>2, <1>5 DEF L

(* NextLsn is larger than the numbers in the file.                         *)
LEMMA NextLsnIsLarger ==
  ASSUME NEW L \in Seq(Record), Increasing(L)
  PROVE  NextLsn(L) \in Nat \ {0} /\ Below(L, NextLsn(L))
<1> DEFINE S == {0} \cup {L[i].lsn : i \in DOMAIN L}
<1>1. DOMAIN L = 1 .. Len(L) /\ Len(L) \in Nat /\ \A i \in DOMAIN L : L[i].lsn \in Nat
  <2>1. DOMAIN L = 1 .. Len(L) /\ Len(L) \in Nat /\ \A i \in DOMAIN L : L[i] \in Record
    BY LenProperties, ElementOfSeq
  <2> QED
    BY <2>1 DEF Record
<1>2. \E x \in S : \A y \in S : x >= y
  <2>1. CASE Len(L) = 0
    BY <1>1, <2>1
  <2>2. CASE Len(L) # 0
    <3>1. Len(L) \in DOMAIN L
      BY <1>1, <2>2
    <3>2. \A i \in DOMAIN L : L[Len(L)].lsn >= L[i].lsn
      BY <1>1, <3>1 DEF Increasing
    <3>3. L[Len(L)].lsn \in S /\ \A y \in S : L[Len(L)].lsn >= y
      BY <1>1, <3>1, <3>2
    <3> QED
      BY <3>3
  <2> QED
    BY <2>1, <2>2
<1>3. Max(S) \in S /\ \A y \in S : Max(S) >= y
  BY <1>2 DEF Max
<1>4. Max(S) \in Nat
  BY <1>1, <1>3
<1>5. NextLsn(L) = Max(S) + 1
  BY DEF NextLsn
<1> HIDE DEF S
<1>6. \A i \in DOMAIN L : L[i].lsn \in S
  BY DEF S
<1> QED
  BY <1>1, <1>3, <1>4, <1>5, <1>6 DEF Below

-------------------------------------------------------------------------------
LEMMA BaseInit == Init => Base
<1> SUFFICES ASSUME Init PROVE Base
  OBVIOUS
<1>1. TypeOK
  <2>1. {} \in Content /\ <<>> \in Seq(Record) /\ 0 \in 0 .. Len(<<>>)
    BY DEF Content
  <2>2. /\ op \in [Client -> Page \X Tuple \cup {Idle}]
        /\ store \in [Page -> Content] /\ durable \in [Page -> Content]
        /\ copy \in [Client -> Content]
        /\ committed \in [Page -> SUBSET Tuple]
    BY <2>1 DEF Init
  <2>3. /\ file \in Seq(Record) /\ buffer \in Seq(Record)
        /\ redo \in 0 .. Len(file)
    BY <2>1 DEF Init
  <2>4. /\ step \in [Client -> {"idle", "changed", "copied", "appended"}]
        /\ owner \in [Page -> {"heap", "other"}]
        /\ unsure \subseteq Page \X Tuple
    BY DEF Init
  <2>5. /\ next_lsn \in Nat \ {0}
        /\ phase \in {"down", "opened", "redo", "flushed", "running", "closed"}
    BY DEF Init
  <2>6. torn = FALSE
    BY DEF Init
  <2>7. torn \in BOOLEAN /\ ~torn
    BY <2>6
  <2> QED
    BY <2>2, <2>3, <2>4, <2>5, <2>7 DEF TypeOK
<1>2. Orderly
  BY DEF Init, Orderly
<1>3. Records = <<>>
  BY DEF Init, Records
<1>4. Numbered
  BY <1>3 DEF Numbered, Increasing, Below
<1>5. Plain
  BY DEF Init, Plain, HeapPage
<1> QED
  BY <1>1, <1>2, <1>4, <1>5 DEF Base

(* The steps that leave the log alone.                                     *)
QuietStep ==
  \/ \E c \in Client, p \in Page, t \in Tuple : Change(c, p, t)
  \/ \E c \in Client : CopyImage(c)
  \/ \E p \in Page : Save(p) \/ Reassign(p)
  \/ RecoverStarts \/ Redo \/ FlushAllPages \/ RecoverFails
  \/ UNCHANGED vars

LEMMA NextRecord ==
  ASSUME Base, Redo
  PROVE  /\ redo + 1 \in 1 .. Len(file) /\ redo + 1 \in DOMAIN file
         /\ file[redo + 1].page \in Page
         /\ file[redo + 1].image \in Content
         /\ file[redo + 1].image \in SUBSET Tuple
<1>1. redo + 1 \in 1 .. Len(file) /\ file \in Seq(HeapRecord)
  BY DEF Base, Plain, TypeOK, Redo
<1>2. file[redo + 1] \in HeapRecord
  BY <1>1
<1>3. /\ file[redo + 1].page \in Page
      /\ file[redo + 1].image \in SUBSET Tuple
  BY <1>2 DEF HeapRecord
<1> QED
  BY <1>1, <1>3 DEF Content

LEMMA ContentOfHeapPage ==
  ASSUME Base, NEW p \in Page, owner[p] = "heap"
  PROVE  store[p] \in SUBSET Tuple
BY DEF Base, Plain, HeapPage

LEMMA TypeQuiet == ASSUME Base, QuietStep PROVE TypeOK' /\ Plain'
<1>0. TypeOK /\ Orderly /\ Plain
  BY DEF Base
<1>1. ASSUME NEW c \in Client, NEW p \in Page, NEW t \in Tuple, Change(c, p, t)
      PROVE  TypeOK' /\ Plain'
  <2> DEFINE new == IF t \in store[p] THEN store[p] \ {t} ELSE store[p] \cup {t}
  <2>1. owner[p] = "heap" /\ store[p] \in SUBSET Tuple
    BY <1>1, ContentOfHeapPage DEF Change
  <2>2. new \in SUBSET Tuple /\ new \in Content
    BY <2>1 DEF Content
  <2>3. store' = [store EXCEPT ![p] = new]
    BY <1>1 DEF Change
  <2> HIDE DEF new
  <2>4. TypeOK'
    BY <1>0, <1>1, <2>2, <2>3 DEF TypeOK, Change, log, answers
  <2>5. Plain'
    BY <1>0, <1>1, <2>1, <2>2, <2>3 DEF TypeOK, Plain, HeapPage, Change, log, Idle
  <2> QED
    BY <2>4, <2>5
<1>2. ASSUME NEW c \in Client, CopyImage(c) PROVE TypeOK' /\ Plain'
  <2>1. op[c] \in Page \X Tuple /\ owner[op[c][1]] = "heap"
    BY <1>0, <1>2 DEF TypeOK, Orderly, Plain, CopyImage
  <2>2. store[op[c][1]] \in SUBSET Tuple /\ store[op[c][1]] \in Content
    BY <2>1, ContentOfHeapPage DEF Content
  <2>3. TypeOK'
    BY <1>0, <1>2, <2>2 DEF TypeOK, CopyImage, log, answers
  <2>4. Plain'
    BY <1>0, <1>2, <2>2 DEF Plain, HeapPage, CopyImage, log
  <2> QED
    BY <2>3, <2>4
<1>3. ASSUME NEW p \in Page, Save(p) PROVE TypeOK' /\ Plain'
  BY <1>0, <1>3 DEF TypeOK, Plain, HeapPage, Save, log, clients, answers
<1>4. ASSUME NEW p \in Page, Reassign(p) PROVE TypeOK' /\ Plain'
  <2>1. \A c \in Client : op[c] # Idle => op[c][1] # p
    BY <1>4 DEF Reassign, InFlight
  <2>2. TypeOK'
    BY <1>0, <1>4 DEF TypeOK, Reassign, log, clients, answers, Content
  <2>3. Plain'
    BY <1>0, <1>4, <2>1 DEF TypeOK, Plain, HeapPage, Reassign, log, clients
  <2> QED
    BY <2>2, <2>3
<1>5. ASSUME RecoverStarts PROVE TypeOK' /\ Plain'
  BY <1>0, <1>5 DEF TypeOK, Plain, HeapPage, RecoverStarts, log, clients, answers
<1>6. ASSUME Redo PROVE TypeOK' /\ Plain'
  <2>1. TypeOK'
    BY <1>0, <1>6, NextRecord DEF TypeOK, Redo, log, clients, answers
  <2>2. Plain'
    BY <1>0, <1>6, NextRecord DEF TypeOK, Plain, HeapPage, Redo, log, clients
  <2> QED
    BY <2>1, <2>2
<1>7. ASSUME FlushAllPages PROVE TypeOK' /\ Plain'
  BY <1>0, <1>7 DEF TypeOK, Plain, HeapPage, FlushAllPages, log, clients, answers
<1>8. ASSUME RecoverFails PROVE TypeOK' /\ Plain'
  BY <1>0, <1>8 DEF TypeOK, Plain, HeapPage, RecoverFails, log, clients, answers
<1>9. ASSUME UNCHANGED vars PROVE TypeOK' /\ Plain'
  BY <1>0, <1>9 DEF TypeOK, Plain, HeapPage, vars, log, clients, answers
<1> QED
  BY <1>1, <1>2, <1>3, <1>4, <1>5, <1>6, <1>7, <1>8, <1>9 DEF QuietStep

LEMMA OrderlyQuiet == ASSUME Base, QuietStep PROVE Orderly'
<1>0. TypeOK /\ Orderly
  BY DEF Base
<1>1. ASSUME NEW c \in Client, NEW p \in Page, NEW t \in Tuple, Change(c, p, t)
      PROVE  Orderly'
  BY <1>0, <1>1 DEF Orderly, TypeOK, Change, log, answers, Idle
<1>2. ASSUME NEW c \in Client, CopyImage(c) PROVE Orderly'
  BY <1>0, <1>2 DEF Orderly, TypeOK, CopyImage, log, answers
<1>3. ASSUME NEW p \in Page, Save(p) \/ Reassign(p) PROVE Orderly'
  BY <1>0, <1>3 DEF Orderly, Save, Reassign, log, clients, answers
<1>4. CASE RecoverStarts \/ Redo \/ FlushAllPages \/ RecoverFails \/ UNCHANGED vars
  BY <1>0, <1>4 DEF Orderly, RecoverStarts, Redo, FlushAllPages, RecoverFails,
                    vars, log, clients, answers
<1> QED
  BY <1>1, <1>2, <1>3, <1>4 DEF QuietStep

LEMMA NumberedQuiet == ASSUME Base, QuietStep PROVE Numbered'
<1>1. file' = file /\ buffer' = buffer /\ next_lsn' = next_lsn
  BY DEF QuietStep, Change, CopyImage, Save, Reassign,
       RecoverStarts, Redo, FlushAllPages, RecoverFails, vars, log
<1>2. phase' \notin {"down", "closed"} => phase \notin {"down", "closed"}
  BY DEF QuietStep, Change, CopyImage, Save, Reassign,
       RecoverStarts, Redo, FlushAllPages, RecoverFails, vars
<1> QED
  BY <1>1, <1>2 DEF Base, Numbered, Records

LEMMA BaseAppend == ASSUME Base, NEW c \in Client, AppendLog(c) PROVE Base'
<1> DEFINE r == [lsn |-> next_lsn, page |-> op[c][1], image |-> copy[c]]
<1>0. TypeOK /\ Orderly /\ Plain /\ Numbered
  BY DEF Base
<1>1. op[c] \in Page \X Tuple /\ copy[c] \in SUBSET Tuple
  BY <1>0 DEF TypeOK, Orderly, Plain, AppendLog
<1>2. r \in Record /\ r \in HeapRecord /\ r.lsn = next_lsn
  BY <1>0, <1>1 DEF TypeOK, Record, HeapRecord, Content
<1> HIDE DEF r
<1>3. /\ buffer' = Append(buffer, r) /\ file' = file /\ next_lsn' = next_lsn + 1
      /\ phase = "running" /\ phase' = phase
  BY DEF AppendLog, r
<1>4. file \in Seq(Record) /\ buffer \in Seq(Record) /\ next_lsn \in Nat \ {0}
  BY <1>0 DEF TypeOK
<1>5. TypeOK'
  <2>1. buffer' \in Seq(Record)
    BY <1>2, <1>3, <1>4
  <2>2. next_lsn' \in Nat \ {0}
    BY <1>3, <1>4
  <2> QED
    BY <1>0, <2>1, <2>2 DEF TypeOK, AppendLog, answers
<1>6. Orderly'
  BY <1>0 DEF Orderly, TypeOK, AppendLog, answers
<1>7. Plain'
  <2>1. buffer' \in Seq(HeapRecord)
    BY <1>0, <1>2, <1>3 DEF Plain
  <2> QED
    BY <1>0, <2>1 DEF Plain, HeapPage, AppendLog
<1>8. Numbered'
  <2>1. Increasing(file \o buffer) /\ Below(file \o buffer, r.lsn)
    BY <1>0, <1>2, <1>3 DEF Numbered, Records
  <2>2. /\ Increasing(file \o Append(buffer, r))
        /\ Below(file \o Append(buffer, r), next_lsn + 1)
    BY <1>2, <1>4, <2>1, Added
  <2> QED
    BY <1>3, <2>2 DEF Numbered, Records
<1> QED
  BY <1>5, <1>6, <1>7, <1>8 DEF Base

(* What a flush or a crash makes of the log: the file gets all of the      *)
(* buffer, or the first n records of it.                                   *)
LEMMA LogGrows ==
  ASSUME Base, NEW n \in 0 .. Len(buffer),
         file' = file \o SubSeq(buffer, 1, n), buffer' = <<>>,
         next_lsn' = next_lsn,
         phase' \notin {"down", "closed"} => phase \notin {"down", "closed"}
                                             /\ n = Len(buffer)
  PROVE  /\ file' \in Seq(Record) /\ buffer' \in Seq(Record)
         /\ file' \in Seq(HeapRecord) /\ buffer' \in Seq(HeapRecord)
         /\ Numbered'
<1> DEFINE u == SubSeq(buffer, 1, n)
<1>0. /\ file \in Seq(Record) /\ buffer \in Seq(Record)
      /\ file \in Seq(HeapRecord) /\ buffer \in Seq(HeapRecord)
      /\ Increasing(file \o buffer)
      /\ phase \notin {"down", "closed"} => Below(file \o buffer, next_lsn)
  BY DEF Base, TypeOK, Plain, Numbered, Records
<1>1. u \in Seq(Record)
  BY <1>0, Prefix
<1>2. u \in Seq(HeapRecord)
  <2>1. \A i \in 1 .. n : buffer[i] \in HeapRecord
    BY <1>0
  <2> QED
    BY <2>1, SubSeqProperties
<1>3. file \o u \in Seq(Record) /\ file \o u \in Seq(HeapRecord)
  BY <1>0, <1>1, <1>2, ConcatProperties
<1>4. Increasing(file \o u)
  BY <1>0, CutOff
<1>5. n = Len(buffer) => u = buffer
  BY <1>0, NothingBehind
<1> HIDE DEF u
<1>6. file' = file \o u /\ buffer' = <<>>
  BY DEF u
<1>7. file' \o buffer' = file \o u
  BY <1>3, <1>6, NothingBehind
<1>8. Numbered'
  BY <1>0, <1>4, <1>5, <1>7 DEF Numbered, Records
<1>9. <<>> \in Seq(Record) /\ <<>> \in Seq(HeapRecord)
  OBVIOUS
<1> QED
  BY <1>3, <1>6, <1>8, <1>9

(* WriteBuffer, when the log ends with a whole record.                     *)
LEMMA AllWritten ==
  ASSUME Base, phase = "running", WriteBuffer
  PROVE  /\ Len(buffer) \in 0 .. Len(buffer)
         /\ file' = file \o buffer /\ buffer' = <<>>
         /\ file' = file \o SubSeq(buffer, 1, Len(buffer))
BY NothingBehind DEF Base, TypeOK, WriteBuffer

LEMMA BaseFlush == ASSUME Base, NEW c \in Client, FlushLog(c) PROVE Base'
<1>0. TypeOK /\ Orderly /\ Plain /\ phase = "running"
  BY DEF Base, FlushLog
<1>1. /\ Len(buffer) \in 0 .. Len(buffer)
      /\ file' = file \o SubSeq(buffer, 1, Len(buffer)) /\ buffer' = <<>>
      /\ next_lsn' = next_lsn /\ phase' = phase
  BY <1>0, AllWritten DEF FlushLog
<1>2. /\ file' \in Seq(Record) /\ buffer' \in Seq(Record)
      /\ file' \in Seq(HeapRecord) /\ buffer' \in Seq(HeapRecord)
      /\ Numbered'
  BY <1>0, <1>1, LogGrows
<1>3. redo' \in 0 .. Len(file')
  <2>1. /\ file \in Seq(Record) /\ buffer \in Seq(Record) /\ file' = file \o buffer
        /\ redo \in 0 .. Len(file) /\ redo' = redo
    BY <1>0, AllWritten DEF TypeOK, FlushLog
  <2>2. Len(file') = Len(file) + Len(buffer) /\ Len(file) \in Nat /\ Len(buffer) \in Nat
    BY <2>1, Concatenation
  <2> QED
    BY <2>1, <2>2
<1>4. op[c] \in Page \X Tuple
  BY <1>0 DEF TypeOK, Orderly, FlushLog
<1>5. committed' \in [Page -> SUBSET Tuple]
  BY <1>0, <1>4 DEF TypeOK, FlushLog
<1>6. /\ op' = [op EXCEPT ![c] = Idle]
      /\ copy' = [copy EXCEPT ![c] = {}] /\ step' = [step EXCEPT ![c] = "idle"]
      /\ store' = store /\ durable' = durable /\ torn' = torn
      /\ owner' = owner /\ unsure' = unsure
  BY DEF FlushLog
<1>7. TypeOK'
  BY <1>0, <1>1, <1>2, <1>3, <1>5, <1>6 DEF TypeOK, Content
<1>8. Orderly'
  BY <1>0, <1>1, <1>6 DEF TypeOK, Orderly
<1>9. Plain'
  BY <1>0, <1>2, <1>6 DEF TypeOK, Plain, HeapPage
<1> QED
  BY <1>2, <1>7, <1>8, <1>9 DEF Base

LEMMA BaseCrash == ASSUME Base, Crash PROVE Base'
<1>0. TypeOK /\ Orderly /\ Plain
  BY DEF Base
<1>1. PICK n \in 0 .. Len(buffer) :
        /\ file' = file \o SubSeq(buffer, 1, n)
        /\ torn' \in {torn, torn \/ n < Len(buffer)}
  BY DEF Crash
<1>2. /\ buffer' = <<>> /\ store' = durable /\ phase' = "down" /\ redo' = 0
      /\ step' = [c \in Client |-> "idle"] /\ op' = [c \in Client |-> Idle]
      /\ copy' = [c \in Client |-> {}] /\ unsure' = unsure \cup InFlight
      /\ durable' = durable /\ next_lsn' = next_lsn /\ owner' = owner
      /\ committed' = committed
  BY DEF Crash
<1>3. /\ file' \in Seq(Record) /\ buffer' \in Seq(Record)
      /\ file' \in Seq(HeapRecord) /\ buffer' \in Seq(HeapRecord)
      /\ Numbered'
  BY <1>1, <1>2, LogGrows
<1>4. InFlight \subseteq Page \X Tuple
  BY <1>0 DEF TypeOK, InFlight
<1>5. torn' \in BOOLEAN
  <2>1. torn \in BOOLEAN
    BY <1>0 DEF TypeOK
  <2> QED
    BY <1>1, <2>1
<1>6. TypeOK'
  <2>1. 0 \in 0 .. Len(file')
    BY <1>3
  <2>2. /\ store' \in [Page -> Content] /\ durable' \in [Page -> Content]
        /\ next_lsn' \in Nat \ {0} /\ owner' \in [Page -> {"heap", "other"}]
        /\ committed' \in [Page -> SUBSET Tuple] /\ unsure' \subseteq Page \X Tuple
    BY <1>0, <1>2, <1>4 DEF TypeOK
  <2>3. /\ step' \in [Client -> {"idle", "changed", "copied", "appended"}]
        /\ op' \in [Client -> Page \X Tuple \cup {Idle}]
        /\ copy' \in [Client -> Content]
    BY <1>2 DEF Content
  <2> QED
    BY <1>2, <1>3, <1>5, <2>1, <2>2, <2>3 DEF TypeOK
<1>7. Orderly'
  BY <1>2 DEF Orderly
<1>8. Plain'
  BY <1>0, <1>2, <1>3 DEF Plain, HeapPage
<1> QED
  BY <1>3, <1>6, <1>7, <1>8 DEF Base

LEMMA BaseClose == ASSUME Base, Close PROVE Base'
<1>0. TypeOK /\ Orderly /\ Plain /\ phase = "running"
  BY DEF Base, Close
<1>1. /\ Len(buffer) \in 0 .. Len(buffer)
      /\ file' = file \o SubSeq(buffer, 1, Len(buffer)) /\ buffer' = <<>>
      /\ next_lsn' = next_lsn /\ phase' = "closed"
  BY <1>0, AllWritten DEF Close
<1>2. /\ file' \in Seq(Record) /\ buffer' \in Seq(Record)
      /\ file' \in Seq(HeapRecord) /\ buffer' \in Seq(HeapRecord)
      /\ Numbered'
  BY <1>0, <1>1, LogGrows
<1>3. redo' \in 0 .. Len(file')
  <2>1. /\ file \in Seq(Record) /\ buffer \in Seq(Record) /\ file' = file \o buffer
        /\ redo \in 0 .. Len(file) /\ redo' = redo
    BY <1>0, AllWritten DEF TypeOK, Close
  <2>2. Len(file') = Len(file) + Len(buffer) /\ Len(file) \in Nat /\ Len(buffer) \in Nat
    BY <2>1, Concatenation
  <2> QED
    BY <2>1, <2>2
<1>4. \A c \in Client : op[c] = Idle
  BY DEF Close, InFlight
<1>5. TypeOK'
  BY <1>0, <1>1, <1>2, <1>3 DEF TypeOK, Close, clients, answers
<1>6. Orderly'
  BY <1>0, <1>1, <1>4 DEF Orderly, Close, clients, answers
<1>7. Plain'
  BY <1>0, <1>2 DEF Plain, HeapPage, Close, clients
<1> QED
  BY <1>2, <1>5, <1>6, <1>7 DEF Base

LEMMA BaseOpen == ASSUME Base, Open PROVE Base'
<1>0. TypeOK /\ Orderly /\ Plain /\ Numbered /\ phase # "running"
  BY DEF Base, Open
<1>1. buffer = <<>> /\ Records = file /\ file \in Seq(Record)
  BY <1>0, NothingBehind DEF Orderly, TypeOK, Records
<1>2. NextLsn(file) \in Nat \ {0} /\ Below(file, NextLsn(file))
  BY <1>0, <1>1, NextLsnIsLarger DEF Numbered
<1>3. TypeOK'
  BY <1>0, <1>2 DEF TypeOK, Orderly, Open, clients, answers
<1>4. Orderly'
  BY <1>0 DEF Orderly, Open, clients, answers
<1>5. Plain'
  BY <1>0 DEF Plain, HeapPage, Open, clients
<1>6. Records' = Records /\ next_lsn' = NextLsn(file)
  BY DEF Open, Records
<1>7. Numbered'
  BY <1>0, <1>1, <1>2, <1>6 DEF Numbered
<1> QED
  BY <1>3, <1>4, <1>5, <1>7 DEF Base

LEMMA BaseTruncate == ASSUME Base, TruncateWal PROVE Base'
<1>0. TypeOK /\ Orderly /\ Plain /\ phase = "flushed"
  BY DEF Base, TruncateWal
<1>1. /\ file' = <<>> /\ buffer' = <<>> /\ torn' = FALSE /\ redo' = 0
      /\ store' = store /\ durable' = durable /\ owner' = owner
      /\ step' = step /\ op' = op /\ copy' = copy
  BY <1>0 DEF Orderly, TruncateWal, clients
<1>2. /\ <<>> \in Seq(Record) /\ <<>> \in Seq(HeapRecord) /\ 0 \in 0 .. Len(<<>>)
      /\ <<>> \o <<>> = <<>>
  OBVIOUS
<1>3. /\ next_lsn' \in Nat \ {0} /\ phase' \in {"running", "opened"}
      /\ committed' \in [Page -> SUBSET Tuple] /\ unsure' \subseteq Page \X Tuple
      /\ phase' = "running" => unsure' = {}
  <2>1. CASE /\ phase' = "running" /\ next_lsn' = 1 /\ unsure' = {}
             /\ committed' = [p \in Page |->
                                {t \in Tuple : IF <<p, t>> \in unsure
                                               THEN t \in store[p]
                                               ELSE t \in committed[p]}]
    <3>1. committed' \in [Page -> SUBSET Tuple]
      BY <2>1
    <3> QED
      BY <2>1, <3>1
  <2>2. CASE phase' = "opened" /\ UNCHANGED <<next_lsn, committed, unsure>>
    BY <1>0, <2>2 DEF TypeOK
  <2> QED
    BY <2>1, <2>2 DEF TruncateWal, answers
<1>4. torn' \in BOOLEAN /\ ~torn'
  BY <1>1
<1>5. TypeOK'
  BY <1>0, <1>1, <1>2, <1>3, <1>4 DEF TypeOK
<1>6. Orderly'
  BY <1>0, <1>1, <1>3, <1>4 DEF Orderly
<1>7. Plain'
  BY <1>0, <1>1, <1>2 DEF Plain, HeapPage
<1>8. Numbered'
  BY <1>1, <1>2 DEF Numbered, Records, Increasing, Below
<1> QED
  BY <1>5, <1>6, <1>7, <1>8 DEF Base

LEMMA BaseStep == Base /\ [Next]_vars => Base'
<1> SUFFICES ASSUME Base, [Next]_vars PROVE Base'
  OBVIOUS
<1>1. CASE QuietStep
  BY <1>1, TypeQuiet, OrderlyQuiet, NumberedQuiet DEF Base
<1>2. CASE ~ QuietStep
  BY <1>2, BaseAppend, BaseFlush, BaseCrash, BaseClose, BaseOpen, BaseTruncate
     DEF Next, QuietStep
<1> QED
  BY <1>1, <1>2

LEMMA BaseHolds == Spec => []Base
BY BaseInit, BaseStep, PTL DEF Spec

-------------------------------------------------------------------------------
(* One writer per page. *)

(* Record i is the newest of page p in the log L; L has none of page p.    *)
Newest(L, p, i) ==
  /\ i \in DOMAIN L /\ L[i].page = p
  /\ \A j \in DOMAIN L : L[j].page = p => j <= i

Unlogged(L, p) == \A i \in DOMAIN L : L[i].page # p

(* The contents of each page that agree with the answers.                  *)
Unanswered == InFlight \cup unsure

Answered ==
  [p \in Page |->
     {s \in SUBSET Tuple :
        \A t \in Tuple : <<p, t>> \notin Unanswered => (t \in s <=> t \in committed[p])}]

OneWriter ==
  \A c, d \in Client :
    op[c] # Idle /\ op[d] # Idle /\ op[c][1] = op[d][1] => c = d

(* What a crash now would leave: the newest record of a page in the file,  *)
(* the page itself when there is none, or a record not flushed yet.        *)
Survives ==
  /\ \A p \in HeapPage : Unlogged(file, p) => durable[p] \in Answered[p]
  /\ \A p \in HeapPage, i \in DOMAIN file :
       Newest(file, p, i) => file[i].image \in Answered[p]
  /\ \A i \in DOMAIN buffer : buffer[i].page \in HeapPage =>
       buffer[i].image \in Answered[buffer[i].page]

(* How far each operation has come: into the page, the copy, the log.      *)
Underway ==
  /\ phase \in {"running", "closed"} =>
       \A p \in HeapPage : store[p] \in Answered[p]
  /\ \A c \in Client : op[c] # Idle =>
       /\ op[c][2] \in store[op[c][1]] <=> op[c][2] \notin committed[op[c][1]]
       /\ step[c] \in {"copied", "appended"} => copy[c] = store[op[c][1]]
       /\ step[c] = "appended" =>
            /\ ~ Unlogged(Records, op[c][1])
            /\ \A i \in DOMAIN Records :
                 Newest(Records, op[c][1], i) =>
                   Records[i].image = store[op[c][1]]

(* How far recovery has come: the pages hold their newest records among    *)
(* those replayed.                                                         *)
Replayed ==
  /\ phase \notin {"running", "closed"} =>
       \A p \in HeapPage : Unlogged(file, p) => store[p] \in Answered[p]
  /\ phase = "redo" =>
       \A i \in 1 .. redo :
         (\A j \in 1 .. redo : file[j].page = file[i].page => j <= i) =>
           store[file[i].page] = file[i].image
  /\ phase = "flushed" =>
       /\ durable = store
       /\ \A p \in Page, i \in DOMAIN file :
            Newest(file, p, i) => store[p] = file[i].image

IInv == Base /\ OneWriter /\ Survives /\ Underway /\ Replayed

(* The newest record there is.                                             *)
LEMMA NewestExists ==
  ASSUME NEW L \in Seq(Record), NEW p, ~ Unlogged(L, p)
  PROVE  \E i \in DOMAIN L : Newest(L, p, i)
<1> DEFINE S == {Len(L) - i : i \in {j \in DOMAIN L : L[j].page = p}}
<1>1. DOMAIN L = 1 .. Len(L) /\ Len(L) \in Nat
  BY LenProperties
<1>2. S \in SUBSET Nat /\ S # {}
  BY <1>1 DEF Unlogged
<1>3. PICK x \in S : \A y \in S : ~ (<<y, x>> \in OpToRel(<, Nat))
  BY <1>2, NatLessThanWellFounded, WFMin
<1>4. PICK i \in DOMAIN L : L[i].page = p /\ x = Len(L) - i
  BY <1>3
<1>5. ASSUME NEW j \in DOMAIN L, L[j].page = p PROVE j <= i
  <2>1. Len(L) - j \in S /\ Len(L) - j \in Nat /\ x \in Nat
    BY <1>1, <1>2, <1>4, <1>5
  <2>2. ~ (<<Len(L) - j, x>> \in OpToRel(<, Nat))
    BY <1>3, <2>1, Zenon
  <2>3. <<Len(L) - j, x>> \in OpToRel(<, Nat) <=> Len(L) - j < x
    BY <2>1 DEF OpToRel
  <2>4. ~ (Len(L) - j < x)
    BY <2>2, <2>3, Zenon
  <2> HIDE DEF S
  <2> QED
    BY <1>1, <1>4, <2>1, <2>4
<1> QED
  BY <1>4, <1>5 DEF Newest

LEMMA NewestOfTwo ==
  ASSUME NEW s \in Seq(Record), NEW t \in Seq(Record), NEW p
  PROVE  \A i \in DOMAIN (s \o t) : Newest(s \o t, p, i) =>
           \/ i \in DOMAIN s /\ Newest(s, p, i) /\ (s \o t)[i] = s[i]
           \/ \E j \in DOMAIN t : t[j].page = p /\ (s \o t)[i] = t[j]
<1> SUFFICES ASSUME NEW i \in DOMAIN (s \o t), Newest(s \o t, p, i)
             PROVE  \/ i \in DOMAIN s /\ Newest(s, p, i) /\ (s \o t)[i] = s[i]
                    \/ \E j \in DOMAIN t : t[j].page = p /\ (s \o t)[i] = t[j]
  OBVIOUS
<1>1. /\ \A j \in DOMAIN s : (s \o t)[j] = s[j] /\ j \in DOMAIN (s \o t)
      /\ \/ i \in DOMAIN s
         \/ i - Len(s) \in DOMAIN t /\ (s \o t)[i] = t[i - Len(s)]
  BY Concatenation
<1>2. CASE i \in DOMAIN s
  BY <1>1, <1>2 DEF Newest
<1>3. CASE i - Len(s) \in DOMAIN t /\ (s \o t)[i] = t[i - Len(s)]
  BY <1>3 DEF Newest
<1> QED
  BY <1>1, <1>2, <1>3

LEMMA UnloggedInBoth ==
  ASSUME NEW s \in Seq(Record), NEW t \in Seq(Record), NEW p
  PROVE  Unlogged(s \o t, p) => Unlogged(s, p)
<1>1. \A j \in DOMAIN s : (s \o t)[j] = s[j] /\ j \in DOMAIN (s \o t)
  BY Concatenation
<1> QED
  BY <1>1 DEF Unlogged

(* What agreed with the answers of a page still does when there are no new *)
(* answers.                                                                *)
LEMMA StillAnswered ==
  ASSUME NEW p \in Page, committed'[p] = committed[p],
         \A t \in Tuple : <<p, t>> \in Unanswered => <<p, t>> \in Unanswered'
  PROVE  Answered[p] \subseteq Answered'[p]
BY DEF Answered

LEMMA InitIInv == Init => IInv
<1> SUFFICES ASSUME Init PROVE IInv
  OBVIOUS
<1>1. Base
  BY BaseInit
<1>2. \A p \in Page : {} \in Answered[p]
  BY DEF Init, Answered
<1>3. OneWriter
  BY DEF Init, OneWriter
<1>4. Survives
  BY <1>2 DEF Init, Survives, HeapPage
<1>5. Underway
  BY <1>2 DEF Init, Underway, HeapPage
<1>6. Replayed
  BY DEF Init, Replayed
<1> QED
  BY <1>1, <1>3, <1>4, <1>5, <1>6 DEF IInv

LEMMA ChangeKeeps ==
  ASSUME IInv, ~ Shared, NEW c \in Client, NEW p \in Page, NEW t \in Tuple,
         Change(c, p, t)
  PROVE  IInv'
<1> DEFINE new == IF t \in store[p] THEN store[p] \ {t} ELSE store[p] \cup {t}
<1>0. Base /\ OneWriter /\ Survives /\ Underway /\ Replayed /\ TypeOK /\ Orderly
  BY DEF IInv, Base
<1>1. /\ phase = "running" /\ op[c] = Idle /\ owner[p] = "heap"
      /\ store' = [store EXCEPT ![p] = new]
      /\ step' = [step EXCEPT ![c] = "changed"] /\ op' = [op EXCEPT ![c] = <<p, t>>]
      /\ durable' = durable /\ file' = file /\ buffer' = buffer /\ phase' = phase
      /\ copy' = copy /\ owner' = owner /\ committed' = committed /\ unsure' = unsure
      /\ redo' = redo
  BY <1>0 DEF Change, Orderly, log, answers
<1>2. \A d \in Client : op[d] # Idle => op[d][1] # p
  BY DEF Change, InFlight
<1>3. unsure = {} /\ <<p, t>> \notin InFlight /\ p \in HeapPage
  BY <1>0, <1>1 DEF Orderly, Change, HeapPage
<1>4. store[p] \in Answered[p] /\ store[p] \in SUBSET Tuple
  BY <1>0, <1>1, <1>3 DEF Underway, Answered
<1>5. t \in store[p] <=> t \notin new
  OBVIOUS
<1>6. t \in store[p] <=> t \in committed[p]
  BY <1>3, <1>4 DEF Answered, Unanswered
<1>7. \A rid \in Unanswered : rid \in Unanswered'
  <2>1. \A d \in Client : op[d] # Idle => op'[d] = op[d]
    BY <1>0, <1>1 DEF TypeOK
  <2> QED
    BY <1>1, <2>1 DEF Unanswered, InFlight
<1>8. <<p, t>> \in Unanswered'
  BY <1>0, <1>1 DEF Unanswered, InFlight, TypeOK, Idle
<1>9. \A q \in Page : Answered[q] \subseteq Answered'[q]
  BY <1>1, <1>7, StillAnswered
<1>10. new \in Answered'[p]
  <2>1. new \in SUBSET Tuple /\ \A u \in Tuple \ {t} : u \in new <=> u \in store[p]
    BY <1>4
  <2>2. \A u \in Tuple : <<p, u>> \notin Unanswered' => (u \in new <=> u \in committed[p])
    BY <1>4, <1>7, <1>8, <2>1 DEF Answered
  <2> HIDE DEF new
  <2> QED
    BY <1>1, <2>1, <2>2 DEF Answered
<1> HIDE DEF new
<1>11. Base'
  BY <1>0, BaseStep DEF Next
<1>12. HeapPage' = HeapPage /\ Records' = Records
  BY <1>1 DEF HeapPage, Records
<1>13. OneWriter'
  BY <1>0, <1>1, <1>2 DEF OneWriter, TypeOK, Idle
<1>14. Survives'
  BY <1>0, <1>1, <1>9, <1>12 DEF Survives, HeapPage
<1>15. Underway'
  <2>1. \A q \in HeapPage : store'[q] \in Answered'[q]
    BY <1>0, <1>1, <1>9, <1>10 DEF Underway, HeapPage, TypeOK
  <2>2. ASSUME NEW d \in Client, d # c, op'[d] # Idle
        PROVE  /\ op'[d] = op[d] /\ step'[d] = step[d] /\ op[d] # Idle
               /\ store'[op[d][1]] = store[op[d][1]]
    BY <1>0, <1>1, <1>2, <2>2 DEF TypeOK
  <2>3. op'[c] = <<p, t>> /\ step'[c] = "changed" /\ store'[p] = new
    BY <1>0, <1>1 DEF TypeOK
  <2>4. t \in store'[p] <=> t \notin committed'[p]
    BY <1>1, <1>5, <1>6, <2>3
  <2> QED
    BY <1>0, <1>1, <1>12, <2>1, <2>2, <2>3, <2>4 DEF Underway
<1>16. Replayed'
  BY <1>1 DEF Replayed
<1> QED
  BY <1>11, <1>13, <1>14, <1>15, <1>16 DEF IInv

LEMMA CopyImageKeeps ==
  ASSUME IInv, NEW c \in Client, CopyImage(c) PROVE IInv'
<1>0. Base /\ OneWriter /\ Survives /\ Underway /\ Replayed /\ TypeOK
  BY DEF IInv, Base
<1>1. /\ phase = "running" /\ step[c] = "changed"
      /\ copy' = [copy EXCEPT ![c] = store[op[c][1]]]
      /\ step' = [step EXCEPT ![c] = "copied"]
      /\ store' = store /\ op' = op
      /\ durable' = durable /\ file' = file /\ buffer' = buffer /\ phase' = phase
      /\ owner' = owner /\ committed' = committed /\ unsure' = unsure
      /\ redo' = redo
  BY DEF CopyImage, log, answers
<1>2. Answered' = Answered /\ HeapPage' = HeapPage /\ Records' = Records
  BY <1>1 DEF Answered, Unanswered, InFlight, HeapPage, Records
<1>3. Base'
  BY <1>0, BaseStep DEF Next
<1>4. OneWriter' /\ Survives' /\ Replayed'
  BY <1>0, <1>1, <1>2 DEF OneWriter, Survives, Replayed
<1>5. Underway'
  BY <1>0, <1>1, <1>2 DEF Underway, TypeOK
<1> QED
  BY <1>3, <1>4, <1>5 DEF IInv

LEMMA SaveKeeps ==
  ASSUME IInv, NEW p \in Page, Save(p) PROVE IInv'
<1>0. Base /\ OneWriter /\ Survives /\ Underway /\ Replayed /\ TypeOK
  BY DEF IInv, Base
<1>1. /\ phase \in {"redo", "running"}
      /\ durable' = [durable EXCEPT ![p] = store[p]]
      /\ copy' = copy /\ step' = step /\ store' = store /\ op' = op
      /\ file' = file /\ buffer' = buffer /\ phase' = phase
      /\ owner' = owner /\ committed' = committed /\ unsure' = unsure
      /\ redo' = redo
  BY DEF Save, log, clients, answers
<1>2. Answered' = Answered /\ HeapPage' = HeapPage /\ Records' = Records
  BY <1>1 DEF Answered, Unanswered, InFlight, HeapPage, Records
<1>3. Base'
  BY <1>0, BaseStep DEF Next
<1>4. OneWriter' /\ Underway' /\ Replayed'
  BY <1>0, <1>1, <1>2 DEF OneWriter, Underway, Replayed
<1>5. p \in HeapPage /\ Unlogged(file, p) => store[p] \in Answered[p]
  BY <1>0, <1>1 DEF Underway, Replayed
<1>6. Survives'
  BY <1>0, <1>1, <1>2, <1>5 DEF Survives, HeapPage, TypeOK
<1> QED
  BY <1>3, <1>4, <1>6 DEF IInv

LEMMA ReassignKeeps ==
  ASSUME IInv, NEW p \in Page, Reassign(p) PROVE IInv'
<1>0. Base /\ OneWriter /\ Survives /\ Underway /\ Replayed /\ TypeOK
  BY DEF IInv, Base
<1>1. /\ phase = "running"
      /\ owner' = [owner EXCEPT ![p] = "other"]
      /\ store' = [store EXCEPT ![p] = {Foreign}]
      /\ durable' = [durable EXCEPT ![p] = {Foreign}]
      /\ copy' = copy /\ step' = step /\ op' = op
      /\ file' = file /\ buffer' = buffer /\ phase' = phase
      /\ committed' = committed /\ unsure' = unsure /\ redo' = redo
  BY DEF Reassign, log, clients, answers
<1>2. Answered' = Answered /\ Records' = Records
  BY <1>1 DEF Answered, Unanswered, InFlight, Records
<1>3. HeapPage' = HeapPage \ {p}
  BY <1>0, <1>1 DEF HeapPage, TypeOK
<1>4. \A d \in Client : op[d] # Idle => op[d][1] # p
  BY DEF Reassign, InFlight
<1>5. \A q \in Page \ {p} : store'[q] = store[q] /\ durable'[q] = durable[q]
  BY <1>0, <1>1 DEF TypeOK
<1>6. Base'
  BY <1>0, BaseStep DEF Next
<1>7. OneWriter' /\ Replayed'
  BY <1>0, <1>1 DEF OneWriter, Replayed
<1>8. Survives'
  BY <1>0, <1>1, <1>2, <1>3, <1>5 DEF Survives, HeapPage
<1>9. Underway'
  <2>1. \A d \in Client : op[d] # Idle => op[d][1] \in Page \ {p}
    BY <1>0, <1>4 DEF TypeOK
  <2>2. \A q \in HeapPage' : store'[q] \in Answered'[q]
    BY <1>0, <1>1, <1>2, <1>3, <1>5 DEF Underway, HeapPage
  <2>3. \A d \in Client : op[d] # Idle => store'[op[d][1]] = store[op[d][1]]
    BY <1>5, <2>1
  <2> QED
    BY <1>0, <1>1, <1>2, <2>2, <2>3 DEF Underway
<1> QED
  BY <1>6, <1>7, <1>8, <1>9 DEF IInv

(* Recovery. *)
LEMMA RecoverStartsKeeps == ASSUME IInv, RecoverStarts PROVE IInv'
<1>0. Base /\ OneWriter /\ Survives /\ Underway /\ Replayed
  BY DEF IInv
<1>1. /\ phase = "opened" /\ phase' = "redo" /\ redo' = 0
      /\ store' = store /\ durable' = durable
      /\ copy' = copy /\ step' = step /\ op' = op /\ file' = file
      /\ buffer' = buffer /\ owner' = owner /\ committed' = committed
      /\ unsure' = unsure
  BY DEF RecoverStarts, log, clients, answers
<1>2. Answered' = Answered /\ HeapPage' = HeapPage /\ Records' = Records
  BY <1>1 DEF Answered, Unanswered, InFlight, HeapPage, Records
<1>3. Base'
  BY <1>0, BaseStep DEF Next
<1>4. OneWriter' /\ Survives' /\ Underway' /\ Replayed'
  BY <1>0, <1>1, <1>2 DEF OneWriter, Survives, Underway, Replayed
<1> QED
  BY <1>3, <1>4 DEF IInv

LEMMA RedoKeeps == ASSUME IInv, Redo PROVE IInv'
<1>0. Base /\ OneWriter /\ Survives /\ Underway /\ Replayed /\ TypeOK /\ Orderly
  BY DEF IInv, Base
<1> DEFINE n == redo + 1
           q == file[n].page
<1>1. /\ phase = "redo" /\ phase' = phase /\ redo' = n
      /\ store' = [store EXCEPT ![q] = file[n].image] /\ durable' = durable
      /\ copy' = copy /\ step' = step /\ op' = op /\ file' = file
      /\ buffer' = buffer /\ owner' = owner /\ committed' = committed
      /\ unsure' = unsure
  BY DEF Redo, log, clients, answers
<1>2. Answered' = Answered /\ HeapPage' = HeapPage /\ Records' = Records
  BY <1>1 DEF Answered, Unanswered, InFlight, HeapPage, Records
<1>3. /\ n \in DOMAIN file /\ q \in Page /\ redo \in Nat
      /\ DOMAIN file = 1 .. Len(file)
  BY <1>0, NextRecord, LenProperties DEF TypeOK
<1>4. /\ \A p \in Page \ {q} : store'[p] = store[p]
      /\ store'[q] = file[n].image
  BY <1>0, <1>1, <1>3 DEF TypeOK
<1>5. Base'
  BY <1>0, BaseStep DEF Next
<1>6. \A d \in Client : op[d] = Idle
  BY <1>0, <1>1 DEF Orderly
<1>7. OneWriter' /\ Survives' /\ Underway'
  BY <1>0, <1>1, <1>2, <1>6 DEF OneWriter, Survives, Underway
<1>8. \A p \in HeapPage : Unlogged(file, p) => store'[p] \in Answered[p]
  BY <1>0, <1>1, <1>3, <1>4 DEF Replayed, Unlogged, HeapPage
<1>9. ASSUME NEW i \in 1 .. n,
             \A j \in 1 .. n : file[j].page = file[i].page => j <= i
      PROVE  store'[file[i].page] = file[i].image
  <2>1. CASE i = n
    BY <1>4, <2>1
  <2>2. CASE i # n
    <3>1. i \in 1 .. redo /\ n > i /\ n \in 1 .. n
      BY <1>3, <2>2
    <3>2. file[i].page # q
      BY <1>3, <1>9, <3>1
    <3>3. store[file[i].page] = file[i].image
      BY <1>0, <1>1, <1>3, <1>9, <3>1 DEF Replayed
    <3>4. file[i].page \in Page
      <4>1. file \in Seq(Record) /\ i \in 1 .. Len(file)
        BY <1>0, <1>3, <3>1 DEF TypeOK
      <4>2. file[i] \in Record
        BY <4>1
      <4> QED
        BY <4>2 DEF Record
    <3> QED
      BY <1>4, <3>2, <3>3, <3>4
  <2> QED
    BY <2>1, <2>2
<1>10. Replayed'
  BY <1>1, <1>2, <1>8, <1>9 DEF Replayed
<1> QED
  BY <1>5, <1>7, <1>10 DEF IInv

LEMMA FlushAllPagesKeeps == ASSUME IInv, FlushAllPages PROVE IInv'
<1>0. Base /\ OneWriter /\ Survives /\ Underway /\ Replayed /\ TypeOK /\ Orderly
  BY DEF IInv, Base
<1>1. /\ phase = "redo" /\ redo = Len(file)
      /\ phase' = "flushed" /\ redo' = redo
      /\ store' = store /\ durable' = store
      /\ copy' = copy /\ step' = step /\ op' = op /\ file' = file
      /\ buffer' = buffer /\ owner' = owner /\ committed' = committed
      /\ unsure' = unsure
  BY DEF FlushAllPages, log, clients, answers
<1>2. Answered' = Answered /\ HeapPage' = HeapPage /\ Records' = Records
  BY <1>1 DEF Answered, Unanswered, InFlight, HeapPage, Records
<1>3. Base'
  BY <1>0, BaseStep DEF Next
<1>4. \A p \in HeapPage : Unlogged(file, p) => store[p] \in Answered[p]
  BY <1>0, <1>1 DEF Replayed
<1>5. \A d \in Client : op[d] = Idle
  BY <1>0, <1>1 DEF Orderly
<1>6. OneWriter' /\ Survives' /\ Underway'
  BY <1>0, <1>1, <1>2, <1>4, <1>5 DEF OneWriter, Survives, Underway
<1>7. DOMAIN file = 1 .. redo
  BY <1>0, <1>1, LenProperties DEF TypeOK
<1>8. \A p \in Page, i \in DOMAIN file :
        Newest(file, p, i) => store[p] = file[i].image
  BY <1>0, <1>1, <1>7 DEF Replayed, Newest
<1>9. Replayed'
  BY <1>1, <1>2, <1>4, <1>8 DEF Replayed
<1> QED
  BY <1>3, <1>6, <1>9 DEF IInv

LEMMA RecoverFailsKeeps == ASSUME IInv, RecoverFails PROVE IInv'
<1>0. Base /\ OneWriter /\ Survives /\ Underway /\ Replayed
  BY DEF IInv
<1>1. /\ phase \in {"redo", "flushed"} /\ phase' = "opened" /\ redo' = 0
      /\ store' = store /\ durable' = durable
      /\ copy' = copy /\ step' = step /\ op' = op /\ file' = file
      /\ buffer' = buffer /\ owner' = owner /\ committed' = committed
      /\ unsure' = unsure
  BY DEF RecoverFails, log, clients, answers
<1>2. Answered' = Answered /\ HeapPage' = HeapPage /\ Records' = Records
  BY <1>1 DEF Answered, Unanswered, InFlight, HeapPage, Records
<1>3. Base'
  BY <1>0, BaseStep DEF Next
<1>4. OneWriter' /\ Survives' /\ Underway' /\ Replayed'
  BY <1>0, <1>1, <1>2 DEF OneWriter, Survives, Underway, Replayed
<1> QED
  BY <1>3, <1>4 DEF IInv

LEMMA TruncateKeeps == ASSUME IInv, TruncateWal PROVE IInv'
<1>0. Base /\ OneWriter /\ Survives /\ Underway /\ Replayed /\ TypeOK /\ Orderly
  BY DEF IInv, Base
<1>1. /\ phase = "flushed" /\ file' = <<>> /\ redo' = 0
      /\ store' = store /\ durable' = durable
      /\ copy' = copy /\ step' = step /\ op' = op
      /\ buffer' = <<>> /\ buffer = <<>> /\ owner' = owner
      /\ \A d \in Client : op[d] = Idle
  BY <1>0 DEF TruncateWal, Orderly, clients
<1>2. HeapPage' = HeapPage
  BY <1>1 DEF HeapPage
<1>3. Base'
  BY <1>0, BaseStep DEF Next
<1>4. durable = store /\ \A p \in HeapPage : store[p] \in Answered[p]
  <2>1. ASSUME NEW p \in HeapPage PROVE store[p] \in Answered[p]
    <3>1. CASE Unlogged(file, p)
      BY <1>0, <1>1, <3>1 DEF Replayed
    <3>2. CASE ~ Unlogged(file, p)
      <4>1. PICK i \in DOMAIN file : Newest(file, p, i)
        BY <1>0, <3>2, NewestExists DEF TypeOK
      <4>2. file[i].image \in Answered[p] /\ store[p] = file[i].image
        BY <1>0, <1>1, <4>1 DEF Survives, Replayed, HeapPage
      <4> QED
        BY <4>2
    <3> QED
      BY <3>1, <3>2
  <2> QED
    BY <1>0, <1>1, <2>1 DEF Replayed
<1>5. /\ phase' \in {"running", "opened"}
      /\ \A p \in HeapPage : store[p] \in Answered'[p]
  <2>1. CASE /\ phase' = "running" /\ unsure' = {}
             /\ committed' = [p \in Page |->
                                {t \in Tuple : IF <<p, t>> \in unsure
                                               THEN t \in store[p]
                                               ELSE t \in committed[p]}]
    <3>1. ASSUME NEW p \in HeapPage PROVE store[p] \in Answered'[p]
      <4>1. /\ p \in Page /\ store[p] \in SUBSET Tuple
            /\ \A t \in Tuple : <<p, t>> \notin Unanswered =>
                                  (t \in store[p] <=> t \in committed[p])
        BY <1>4 DEF Answered, HeapPage
      <4>2. Unanswered = unsure
        BY <1>1 DEF Unanswered, InFlight
      <4>3. \A t \in Tuple : t \in store[p] <=> t \in committed'[p]
        BY <2>1, <4>1, <4>2
      <4> QED
        BY <4>1, <4>3 DEF Answered
    <3> QED
      BY <2>1, <3>1
  <2>2. CASE phase' = "opened" /\ committed' = committed /\ unsure' = unsure
    <3>1. Answered' = Answered
      BY <1>1, <2>2 DEF Answered, Unanswered, InFlight
    <3> QED
      BY <1>4, <2>2, <3>1
  <2> QED
    BY <2>1, <2>2 DEF TruncateWal, answers
<1>6. OneWriter' /\ Survives' /\ Underway'
  BY <1>1, <1>2, <1>4, <1>5 DEF OneWriter, Survives, Underway
<1>7. Replayed'
  BY <1>1, <1>2, <1>5 DEF Replayed
<1> QED
  BY <1>3, <1>6, <1>7 DEF IInv

(* The log. *)
LEMMA AppendKeeps ==
  ASSUME IInv, ~ Shared, NEW c \in Client, AppendLog(c) PROVE IInv'
<1> DEFINE p == op[c][1]
           r == [lsn |-> next_lsn, page |-> p, image |-> copy[c]]
<1>0. Base /\ OneWriter /\ Survives /\ Underway /\ Replayed /\ TypeOK /\ Orderly /\ Plain
  BY DEF IInv, Base
<1>1. /\ phase = "running" /\ step[c] = "copied" /\ step' = [step EXCEPT ![c] = "appended"]
      /\ buffer' = Append(buffer, r) /\ file' = file
      /\ store' = store /\ durable' = durable /\ op' = op /\ copy' = copy
      /\ phase' = phase /\ redo' = redo /\ owner' = owner
      /\ committed' = committed /\ unsure' = unsure
  BY DEF AppendLog, answers
<1>2. Answered' = Answered /\ HeapPage' = HeapPage
  BY <1>1 DEF Answered, Unanswered, InFlight, HeapPage
<1>3. /\ op[c] # Idle /\ op[c] \in Page \X Tuple /\ p \in HeapPage
      /\ copy[c] = store[p]
  BY <1>0, <1>1 DEF TypeOK, Orderly, Plain, Underway, HeapPage
<1>4. r \in Record /\ r.page = p /\ r.image = store[p]
  BY <1>0, <1>3 DEF TypeOK, Record
<1> HIDE DEF r, p
<1>5. Base'
  BY <1>0, BaseStep DEF Next
<1>6. OneWriter' /\ Replayed'
  BY <1>0, <1>1, <1>2 DEF OneWriter, Replayed
<1>7. file \in Seq(Record) /\ buffer \in Seq(Record) /\ Records \in Seq(Record)
  BY <1>0, Concatenation DEF TypeOK, Records
<1>8. Survives'
  <2>1. store[p] \in Answered[p]
    BY <1>0, <1>1, <1>3 DEF Underway
  <2>2. \A i \in DOMAIN buffer' :
          \/ i \in DOMAIN buffer /\ buffer'[i] = buffer[i]
          \/ buffer'[i] = r
    BY <1>1, <1>7
  <2> QED
    BY <1>0, <1>1, <1>2, <1>4, <2>1, <2>2 DEF Survives
<1>9. /\ Records' = Append(Records, r)
      /\ \A i \in DOMAIN Records : i \in DOMAIN Records' /\ Records'[i] = Records[i]
      /\ \A i \in DOMAIN Records' :
           i \in DOMAIN Records \/ i = Len(Records) + 1
      /\ \A i \in DOMAIN Records : i < Len(Records) + 1
      /\ Len(Records) + 1 \in DOMAIN Records' /\ Records'[Len(Records) + 1] = r
  <2>1. Records' = Append(Records, r)
    BY <1>1, <1>7 DEF Records
  <2> QED
    BY <1>4, <1>7, <2>1
<1>10. Underway'
  <2>1. /\ ~ Unlogged(Records', p)
        /\ \A i \in DOMAIN Records' :
             Newest(Records', p, i) => Records'[i].image = store[p]
    BY <1>4, <1>9 DEF Unlogged, Newest
  <2>2. ASSUME NEW d \in Client, d # c, op[d] # Idle
        PROVE  /\ ~ Unlogged(Records, op[d][1]) => ~ Unlogged(Records', op[d][1])
               /\ \A i \in DOMAIN Records' : Newest(Records', op[d][1], i) =>
                    /\ i \in DOMAIN Records /\ Newest(Records, op[d][1], i)
                    /\ Records'[i] = Records[i]
    <3>1. op[d][1] # p
      BY <1>0, <1>3, <2>2 DEF OneWriter, p
    <3> QED
      BY <1>4, <1>9, <3>1 DEF Unlogged, Newest
  <2>3. \A d \in Client : step'[d] = IF d = c THEN "appended" ELSE step[d]
    BY <1>0, <1>1 DEF TypeOK
  <2> QED
    BY <1>0, <1>1, <1>2, <1>3, <2>1, <2>2, <2>3 DEF Underway, p
<1> QED
  BY <1>5, <1>6, <1>8, <1>10 DEF IInv

(* What the file holds of a heap page once it has got some of the buffer.  *)
LEMMA FileGrows ==
  ASSUME IInv, NEW p \in HeapPage, NEW n \in 0 .. Len(buffer),
         file' = file \o SubSeq(buffer, 1, n)
  PROVE  /\ Unlogged(file', p) => durable[p] \in Answered[p]
         /\ \A i \in DOMAIN file' :
              Newest(file', p, i) => file'[i].image \in Answered[p]
<1> DEFINE u == SubSeq(buffer, 1, n)
<1>0. Survives /\ file \in Seq(Record) /\ buffer \in Seq(Record)
  BY DEF IInv, Base, TypeOK
<1>1. /\ u \in Seq(Record) /\ DOMAIN u = 1 .. n
      /\ \A i \in 1 .. n : u[i] = buffer[i] /\ i \in DOMAIN buffer
  BY <1>0, Prefix
<1> HIDE DEF u
<1>2. file' = file \o u
  BY DEF u
<1>3. Unlogged(file', p) => durable[p] \in Answered[p]
  <2>1. Unlogged(file \o u, p) => Unlogged(file, p)
    BY <1>0, <1>1, UnloggedInBoth
  <2>2. Unlogged(file, p) => durable[p] \in Answered[p]
    BY <1>0 DEF Survives
  <2> QED
    BY <1>2, <2>1, <2>2 DEF Unlogged
<1>4. ASSUME NEW i \in DOMAIN file', Newest(file', p, i)
      PROVE  file'[i].image \in Answered[p]
  <2>1. i \in DOMAIN (file \o u) /\ Newest(file \o u, p, i)
    BY <1>2, <1>4 DEF Newest
  <2>2. \/ i \in DOMAIN file /\ Newest(file, p, i) /\ (file \o u)[i] = file[i]
        \/ \E j \in DOMAIN u : u[j].page = p /\ (file \o u)[i] = u[j]
    <3>1. file \in Seq(Record) /\ u \in Seq(Record)
      BY <1>0, <1>1
    <3> QED
      BY <2>1, <3>1, NewestOfTwo
  <2>3. file'[i] = (file \o u)[i]
    BY <1>2
  <2>4. CASE i \in DOMAIN file /\ Newest(file, p, i) /\ (file \o u)[i] = file[i]
    BY <1>0, <2>3, <2>4 DEF Survives
  <2>5. CASE \E j \in DOMAIN u : u[j].page = p /\ (file \o u)[i] = u[j]
    <3>1. PICK j \in DOMAIN u : u[j].page = p /\ (file \o u)[i] = u[j]
      BY <2>5
    <3>2. j \in DOMAIN buffer /\ u[j] = buffer[j]
      BY <1>1, <3>1
    <3> QED
      BY <1>0, <2>3, <3>1, <3>2 DEF Survives
  <2> QED
    BY <2>2, <2>4, <2>5
<1> QED
  BY <1>3, <1>4

LEMMA FlushKeeps == ASSUME IInv, NEW c \in Client, FlushLog(c) PROVE IInv'
<1> DEFINE p == op[c][1]
           t == op[c][2]
<1>0. Base /\ OneWriter /\ Survives /\ Underway /\ Replayed /\ TypeOK /\ Orderly /\ Plain
  BY DEF IInv, Base
<1>1. /\ phase = "running" /\ step[c] = "appended"
      /\ step' = [step EXCEPT ![c] = "idle"] /\ op' = [op EXCEPT ![c] = Idle]
      /\ copy' = [copy EXCEPT ![c] = {}]
      /\ store' = store /\ durable' = durable
      /\ phase' = phase /\ redo' = redo /\ owner' = owner /\ unsure' = unsure
      /\ committed' = [committed EXCEPT ![p] = IF t \in @ THEN @ \ {t} ELSE @ \cup {t}]
  BY DEF FlushLog
<1>2. /\ Len(buffer) \in 0 .. Len(buffer)
      /\ file' = file \o buffer /\ buffer' = <<>>
      /\ file' = file \o SubSeq(buffer, 1, Len(buffer))
  BY <1>0, <1>1, AllWritten DEF FlushLog
<1>3. /\ op[c] # Idle /\ op[c] = <<p, t>> /\ p \in Page /\ t \in Tuple
      /\ p \in HeapPage /\ HeapPage \subseteq Page
  BY <1>0, <1>1 DEF TypeOK, Orderly, Plain, HeapPage
<1>4. HeapPage' = HeapPage
  BY <1>1 DEF HeapPage
<1>5. Records' = Records /\ file' = Records
  <2>1. file \o buffer \in Seq(Record)
    BY <1>0, Concatenation DEF TypeOK
  <2> QED
    BY <1>2, <2>1, NothingBehind DEF Records
<1>6. \A d \in Client \ {c} : /\ op'[d] = op[d] /\ step'[d] = step[d]
                              /\ copy'[d] = copy[d]
                              /\ op[d] # Idle => op[d][1] # p /\ op[d][1] \in Page
  BY <1>0, <1>1, <1>3 DEF TypeOK, OneWriter
<1>7. ASSUME NEW rid \in Unanswered, rid # <<p, t>> PROVE rid \in Unanswered'
  <2>1. CASE rid \in unsure
    BY <1>1, <2>1 DEF Unanswered
  <2>2. CASE rid \in InFlight
    <3>1. PICK d \in Client : op[d] = rid /\ rid # Idle
      BY <2>2 DEF InFlight
    <3>2. d # c
      BY <1>3, <1>7, <3>1
    <3>3. op'[d] = rid
      BY <1>6, <3>1, <3>2
    <3> QED
      BY <3>1, <3>3 DEF Unanswered, InFlight
  <2> QED
    BY <2>1, <2>2 DEF Unanswered
<1>8. \A q \in Page \ {p} : committed'[q] = committed[q]
  BY <1>0, <1>1 DEF TypeOK
<1>9. \A q \in Page \ {p} : Answered[q] \subseteq Answered'[q]
  BY <1>7, <1>8, StillAnswered
<1>10. store[p] \in Answered'[p]
  <2>1. /\ store[p] \in SUBSET Tuple
        /\ \A u \in Tuple : <<p, u>> \notin Unanswered => (u \in store[p] <=> u \in committed[p])
    BY <1>0, <1>1, <1>3 DEF Underway, Answered
  <2>2. t \in store[p] <=> t \notin committed[p]
    BY <1>0, <1>3 DEF Underway
  <2>3. /\ t \in committed'[p] <=> t \notin committed[p]
        /\ \A u \in Tuple \ {t} : u \in committed'[p] <=> u \in committed[p]
    BY <1>0, <1>1, <1>3 DEF TypeOK
  <2>4. \A u \in Tuple : <<p, u>> \notin Unanswered' => (u \in store[p] <=> u \in committed'[p])
    BY <1>7, <2>1, <2>2, <2>3
  <2> QED
    BY <1>3, <2>1, <2>4 DEF Answered
<1>11. Base'
  BY <1>0, BaseStep DEF Next
<1>12. OneWriter'
  BY <1>0, <1>1, <1>6 DEF OneWriter, TypeOK
<1>13. Survives'
  <2>1. ASSUME NEW q \in HeapPage
        PROVE  /\ Unlogged(file', q) => durable'[q] \in Answered'[q]
               /\ \A i \in DOMAIN file' :
                    Newest(file', q, i) => file'[i].image \in Answered'[q]
    <3>1. CASE q = p
      <4>1. ~ Unlogged(file', p) /\ \A i \in DOMAIN file' :
                    Newest(file', p, i) => file'[i].image = store[p]
        BY <1>0, <1>1, <1>3, <1>5 DEF Underway
      <4> QED
        BY <1>10, <3>1, <4>1
    <3>2. CASE q # p
      <4>1. /\ Unlogged(file', q) => durable[q] \in Answered[q]
            /\ \A i \in DOMAIN file' :
                 Newest(file', q, i) => file'[i].image \in Answered[q]
        BY <1>2, FileGrows
      <4> QED
        BY <1>1, <1>3, <1>9, <3>2, <4>1
    <3> QED
      BY <3>1, <3>2
  <2> QED
    BY <1>2, <1>4, <2>1 DEF Survives
<1>14. Underway'
  <2>1. \A q \in HeapPage : store[q] \in Answered'[q]
    BY <1>0, <1>1, <1>3, <1>9, <1>10 DEF Underway
  <2>2. op'[c] = Idle
    BY <1>0, <1>1 DEF TypeOK
  <2>3. \A d \in Client \ {c} : op[d] # Idle => committed'[op[d][1]] = committed[op[d][1]]
    BY <1>6, <1>8
  <2> HIDE DEF p, t
  <2> QED
    BY <1>0, <1>1, <1>4, <1>5, <1>6, <2>1, <2>2, <2>3 DEF Underway
<1>15. Replayed'
  BY <1>1 DEF Replayed
<1> QED
  BY <1>11, <1>12, <1>13, <1>14, <1>15 DEF IInv

(* The ends of the process. *)
LEMMA CrashKeeps == ASSUME IInv, Crash PROVE IInv'
<1>0. Base /\ OneWriter /\ Survives /\ Underway /\ Replayed
  BY DEF IInv
<1>1. PICK n \in 0 .. Len(buffer) : file' = file \o SubSeq(buffer, 1, n)
  BY DEF Crash
<1>2. /\ buffer' = <<>> /\ store' = durable /\ phase' = "down" /\ redo' = 0
      /\ op' = [c \in Client |-> Idle] /\ unsure' = unsure \cup InFlight
      /\ durable' = durable /\ owner' = owner /\ committed' = committed
  BY DEF Crash
<1>3. Answered' = Answered
  <2>1. InFlight' = {}
    BY <1>2 DEF InFlight
  <2>2. Unanswered' = Unanswered
    BY <1>2, <2>1 DEF Unanswered
  <2> QED
    BY <1>2, <2>2 DEF Answered
<1>4. HeapPage' = HeapPage
  BY <1>2 DEF HeapPage
<1>5. \A p \in HeapPage :
        /\ Unlogged(file', p) => durable[p] \in Answered[p]
        /\ \A i \in DOMAIN file' :
             Newest(file', p, i) => file'[i].image \in Answered[p]
  BY <1>1, FileGrows
<1>6. Base'
  BY <1>0, BaseStep DEF Next
<1>7. OneWriter' /\ Underway'
  BY <1>2 DEF OneWriter, Underway
<1>8. Survives' /\ Replayed'
  BY <1>2, <1>3, <1>4, <1>5 DEF Survives, Replayed
<1> QED
  BY <1>6, <1>7, <1>8 DEF IInv

LEMMA CloseKeeps == ASSUME IInv, Close PROVE IInv'
<1>0. Base /\ OneWriter /\ Survives /\ Underway /\ Replayed
  BY DEF IInv
<1>1. /\ phase = "running" /\ phase' = "closed" /\ durable' = store
      /\ store' = store /\ op' = op /\ owner' = owner /\ step' = step
      /\ copy' = copy /\ committed' = committed /\ unsure' = unsure
      /\ \A d \in Client : op[d] = Idle
  BY DEF Close, InFlight, clients, answers
<1>2. /\ Len(buffer) \in 0 .. Len(buffer) /\ buffer' = <<>>
      /\ file' = file \o SubSeq(buffer, 1, Len(buffer))
  BY <1>0, <1>1, AllWritten DEF Close
<1>3. Answered' = Answered /\ HeapPage' = HeapPage
  BY <1>1 DEF Answered, Unanswered, InFlight, HeapPage
<1>4. \A p \in HeapPage :
        /\ store[p] \in Answered[p]
        /\ \A i \in DOMAIN file' :
             Newest(file', p, i) => file'[i].image \in Answered[p]
  BY <1>0, <1>1, <1>2, FileGrows DEF Underway
<1>5. Base'
  BY <1>0, BaseStep DEF Next
<1>6. OneWriter' /\ Underway' /\ Survives' /\ Replayed'
  BY <1>1, <1>2, <1>3, <1>4 DEF OneWriter, Underway, Survives, Replayed
<1> QED
  BY <1>5, <1>6 DEF IInv

LEMMA OpenKeeps == ASSUME IInv, Open PROVE IInv'
<1>0. Base /\ OneWriter /\ Survives /\ Underway /\ Replayed
  BY DEF IInv
<1>1. /\ phase \in {"down", "closed"}
      /\ phase' = IF phase = "closed" THEN "running" ELSE "opened"
      /\ store' = store /\ durable' = durable /\ file' = file
      /\ copy' = copy /\ step' = step /\ op' = op /\ redo' = redo
      /\ buffer' = buffer /\ owner' = owner /\ committed' = committed
      /\ unsure' = unsure
  BY DEF Open, clients, answers
<1>2. Answered' = Answered /\ HeapPage' = HeapPage /\ Records' = Records
  BY <1>1 DEF Answered, Unanswered, InFlight, HeapPage, Records
<1>3. Base'
  BY <1>0, BaseStep DEF Next
<1>4. OneWriter' /\ Survives' /\ Underway' /\ Replayed'
  BY <1>0, <1>1, <1>2 DEF OneWriter, Survives, Underway, Replayed
<1> QED
  BY <1>3, <1>4 DEF IInv

LEMMA StutterKeeps == ASSUME IInv, UNCHANGED vars PROVE IInv'
<1>0. Base /\ OneWriter /\ Survives /\ Underway /\ Replayed
  BY DEF IInv
<1>1. /\ store' = store /\ durable' = durable /\ file' = file
      /\ copy' = copy /\ step' = step /\ op' = op /\ redo' = redo
      /\ buffer' = buffer /\ owner' = owner /\ committed' = committed
      /\ unsure' = unsure /\ phase' = phase
  BY DEF vars, log, clients, answers
<1>2. Answered' = Answered /\ HeapPage' = HeapPage /\ Records' = Records
  BY <1>1 DEF Answered, Unanswered, InFlight, HeapPage, Records
<1>3. Base'
  BY <1>0, BaseStep
<1>4. OneWriter' /\ Survives' /\ Underway' /\ Replayed'
  BY <1>0, <1>1, <1>2 DEF OneWriter, Survives, Underway, Replayed
<1> QED
  BY <1>3, <1>4 DEF IInv

LEMMA IInvStep == ~ Shared /\ IInv /\ [Next]_vars => IInv'
BY ChangeKeeps, CopyImageKeeps, AppendKeeps, FlushKeeps, SaveKeeps,
   ReassignKeeps, CrashKeeps, CloseKeeps, OpenKeeps, RecoverStartsKeeps,
   RedoKeeps, FlushAllPagesKeeps, TruncateKeeps, RecoverFailsKeeps,
   StutterKeeps DEF Next

LEMMA IInvHolds == ASSUME ~ Shared PROVE Spec => []IInv
<1>1. IInv /\ [Next]_vars => IInv'
  BY IInvStep
<1> QED
  BY InitIInv, <1>1, PTL DEF Spec

-------------------------------------------------------------------------------
(* What the invariant says of the properties. *)

(* A content that agrees with the answers in the invariant's words does in *)
(* the property's.                                                         *)
LEMMA AnsweredAgrees ==
  ASSUME NEW p \in Page, NEW s \in Answered[p] PROVE Agrees(p, s)
<1>1. /\ s \in SUBSET Tuple
      /\ \A t \in Tuple : <<p, t>> \notin InFlight \cup unsure =>
                           (t \in s <=> t \in committed[p])
  BY DEF Answered, Unanswered
<1>2. s # {Foreign}
  BY <1>1, WalConstants
<1> QED
  BY <1>1, <1>2 DEF Agrees

LEMMA NewestIsRebuilt ==
  ASSUME Base, NEW p \in Page
  PROVE  \/ Unlogged(file, p) /\ Rebuilt(p) = durable[p]
         \/ \E i \in DOMAIN file : Newest(file, p, i) /\ Rebuilt(p) = file[i].image
<1>1. CASE Unlogged(file, p)
  <2>1. Images(p) = {}
    BY <1>1 DEF Unlogged, Images
  <2> QED
    BY <1>1, <2>1 DEF Rebuilt
<1>2. CASE ~ Unlogged(file, p)
  <2>1. PICK i \in DOMAIN file : Newest(file, p, i)
    BY <1>2, NewestExists DEF Base, TypeOK
  <2>2. i \in Images(p) /\ \A j \in Images(p) : j <= i
    BY <2>1 DEF Newest, Images
  <2> DEFINE k == CHOOSE i0 \in Images(p) : \A j \in Images(p) : j <= i0
  <2>3. k \in Images(p) /\ \A j \in Images(p) : j <= k
    BY <2>2
  <2>4. k \in DOMAIN file /\ Newest(file, p, k)
    BY <2>3 DEF Newest, Images
  <2>5. Rebuilt(p) = file[k].image
    BY <2>2 DEF Rebuilt
  <2> QED
    BY <2>4, <2>5
<1> QED
  BY <1>1, <1>2

LEMMA BaseIncreases == Base => LsnsIncrease
BY DEF Base, Orderly, Numbered, Increasing, Below, Records, LsnsIncrease

LEMMA IInvSurvives == IInv => AnsweredOperationsSurvive
BY AnsweredAgrees DEF IInv, Underway, AnsweredOperationsSurvive, HeapPage

LEMMA IInvRebuilds == IInv => LogRebuildsPages
<1> SUFFICES ASSUME IInv, NEW p \in HeapPage PROVE Agrees(p, Rebuilt(p))
  BY DEF LogRebuildsPages
<1>1. Base /\ Survives /\ p \in Page
  BY DEF IInv, HeapPage
<1>2. Rebuilt(p) \in Answered[p]
  BY <1>1, NewestIsRebuilt DEF Survives
<1> QED
  BY <1>1, <1>2, AnsweredAgrees

-------------------------------------------------------------------------------
(* The numbers of log records grow along the log, and the next one is      *)
(* larger than all of them: through flushes of AppendBuffer, crashes that  *)
(* leave part of it, the scan of the constructor and the truncation after  *)
(* a recovery.  Any clients may be at any pages.                           *)
THEOREM LsnsAlwaysIncrease == Spec => []LsnsIncrease
BY BaseHolds, BaseIncreases, PTL

(* The database file with the log replayed over it holds every operation a *)
(* heap caller has been told of, at every moment, recovery's own steps     *)
(* included, so a crash then is survived; as long as two operations are    *)
(* not at one page between its change and the flush of its after-image.    *)
THEOREM LogAlwaysRebuildsPages ==
  ASSUME ~ Shared PROVE Spec => []LogRebuildsPages
BY IInvHolds, IInvRebuilds, PTL

(* Whenever the database runs, after any crashes, crashes in Recover and   *)
(* recoveries that gave up, its heap pages show every operation that was   *)
(* answered and none that was not begun; on the same condition.            *)
THEOREM AnsweredOperationsAlwaysSurvive ==
  ASSUME ~ Shared PROVE Spec => []AnsweredOperationsSurvive
BY IInvHolds, IInvSurvives, PTL
===============================================================================
