---------------------------------- MODULE Wal ----------------------------------
(***************************************************************************)
(* storage/wal/wal_manager.cxx and the way TableHeap logs: a redo log of   *)
(* whole pages, over a store of pages that a crash resets to its file.     *)
(*                                                                         *)
(* A heap operation changes a page under the page's latch and then, in     *)
(* TableHeap::AppendPageAfterImageLogOrDie, copies the page under its read *)
(* latch, appends the copy to the log and flushes the log.  No latch is    *)
(* held from one of these to the next, so each is an action, and only the  *)
(* last makes the change one the caller has been told of.                  *)
(*                                                                         *)
(* The pages behave as module PageStore says: store is what their readers  *)
(* see, durable the file; the pool may save a page at any time.  A page    *)
(* holds a set of tuples, and an operation adds or removes one.            *)
(***************************************************************************)
EXTENDS Naturals, Sequences, FiniteSetsExt

CONSTANTS
  Client,                   \* threads that call the heap
  Page,                     \* pages, heap pages at first
  Tuple,                    \* what a page can hold a set of
  Foreign,                  \* what a page that is no heap page holds
  MaxLog,                   \* bound on the records of a log
  Shared                    \* may two operations be at one page at a time

ASSUME WalConstants ==
  /\ MaxLog \in Nat
  /\ Foreign \notin Tuple
  /\ Shared \in BOOLEAN

Content == (SUBSET Tuple) \cup {{Foreign}}
Idle == <<>>               \* no operation
Record == [lsn : Nat \ {0}, page : Page, image : Content]

VARIABLES
  store,      \* what readers of each page see
  durable,    \* what the database file holds of each page
  file,       \* the complete records of the log file, in order
  torn,       \* does the log file end inside a record
  buffer,     \* records appended and not flushed
  next_lsn,   \* next_lsn_
  phase,      \* of the process: down, opened, redo, flushed, running, closed
  redo,       \* in recovery, how many records have been replayed
  step,       \* of each client: idle, changed, copied, appended
  op,         \* the page and tuple each client works on
  copy,       \* the after-image each client has taken
  owner,      \* of each page: the heap, or another
  committed,  \* the tuples of each page, by the answers clients have got
  unsure      \* operations a crash has cut short

log == <<file, torn, buffer, next_lsn>>
clients == <<step, op, copy>>
answers == <<committed, unsure>>
vars == <<store, durable, log, phase, redo, clients, owner, answers>>

(* Type correctness; a log that clients append to ends with a whole        *)
(* record.                                                                 *)
TypeOK ==
  /\ store \in [Page -> Content]
  /\ durable \in [Page -> Content]
  /\ file \in Seq(Record) /\ buffer \in Seq(Record)
  /\ torn \in BOOLEAN
  /\ next_lsn \in Nat \ {0}
  /\ phase \in {"down", "opened", "redo", "flushed", "running", "closed"}
  /\ redo \in 0 .. Len(file)
  /\ step \in [Client -> {"idle", "changed", "copied", "appended"}]
  /\ op \in [Client -> Page \X Tuple \cup {Idle}]
  /\ copy \in [Client -> Content]
  /\ owner \in [Page -> {"heap", "other"}]
  /\ committed \in [Page -> SUBSET Tuple]
  /\ unsure \subseteq Page \X Tuple
  /\ phase = "running" => ~torn

Init ==
  /\ store = [p \in Page |-> {}]
  /\ durable = [p \in Page |-> {}]
  /\ file = <<>> /\ torn = FALSE /\ buffer = <<>>
  /\ next_lsn = 1
  /\ phase = "running"
  /\ redo = 0
  /\ step = [c \in Client |-> "idle"]
  /\ op = [c \in Client |-> Idle]
  /\ copy = [c \in Client |-> {}]
  /\ owner = [p \in Page |-> "heap"]
  /\ committed = [p \in Page |-> {}]
  /\ unsure = {}

InFlight == {op[c] : c \in Client} \ {Idle}

-------------------------------------------------------------------------------
(* A heap operation. *)

(* TablePage::InsertTuple or MarkDelTuple, under the page's write latch.   *)
Change(c, p, t) ==
  /\ phase = "running" /\ step[c] = "idle"
  /\ owner[p] = "heap"
  /\ <<p, t>> \notin InFlight
  /\ Shared \/ \A rid \in InFlight : rid[1] # p
  /\ store' = [store EXCEPT ![p] = IF t \in @ THEN @ \ {t} ELSE @ \cup {t}]
  /\ step' = [step EXCEPT ![c] = "changed"]
  /\ op' = [op EXCEPT ![c] = <<p, t>>]
  /\ UNCHANGED <<durable, log, phase, redo, copy, owner, answers>>

CopyImage(c) ==
  /\ phase = "running" /\ step[c] = "changed"
  /\ copy' = [copy EXCEPT ![c] = store[op[c][1]]]
  /\ step' = [step EXCEPT ![c] = "copied"]
  /\ UNCHANGED <<store, durable, log, phase, redo, op, owner, answers>>

AppendLog(c) ==
  /\ phase = "running" /\ step[c] = "copied"
  /\ Len(file) + Len(buffer) < MaxLog
  /\ buffer' = Append(buffer, [lsn |-> next_lsn, page |-> op[c][1],
                               image |-> copy[c]])
  /\ next_lsn' = next_lsn + 1
  /\ step' = [step EXCEPT ![c] = "appended"]
  /\ UNCHANGED <<store, durable, file, torn, phase, redo, op, copy, owner,
                 answers>>

WriteBuffer_Lazy == UNCHANGED <<file, buffer>>

(* Records written after a torn one are out of reach of every scan.        *)
WriteBuffer == /\ file' = IF torn THEN file ELSE file \o buffer
               /\ buffer' = <<>>

(* The flush writes what every client has appended; the operation returns. *)
FlushLog(c) ==
  /\ phase = "running" /\ step[c] = "appended"
  /\ WriteBuffer
  /\ step' = [step EXCEPT ![c] = "idle"]
  /\ op' = [op EXCEPT ![c] = Idle]
  /\ copy' = [copy EXCEPT ![c] = {}]
  /\ LET p == op[c][1]
         t == op[c][2]
     IN  committed' = [committed EXCEPT ![p] = IF t \in @ THEN @ \ {t}
                                                ELSE @ \cup {t}]
  /\ UNCHANGED <<store, durable, torn, next_lsn, phase, redo, owner, unsure>>

-------------------------------------------------------------------------------
(* The pool and the catalog. *)

(* An eviction, FlushPage or FlushAllPages saves a page. *)
Save(p) ==
  /\ phase \in {"redo", "running"}
  /\ durable' = [durable EXCEPT ![p] = store[p]]
  /\ UNCHANGED <<store, log, phase, redo, clients, owner, answers>>

(* DropTable frees a page of the heap; the next allocation gives it to an  *)
(* index or to the catalog, which fill and save it without logging it.     *)
Reassign(p) ==
  /\ phase = "running"
  /\ owner[p] = "heap"
  /\ \A rid \in InFlight : rid[1] # p
  /\ owner' = [owner EXCEPT ![p] = "other"]
  /\ store' = [store EXCEPT ![p] = {Foreign}]
  /\ durable' = [durable EXCEPT ![p] = {Foreign}]
  /\ UNCHANGED <<log, phase, redo, clients, answers>>

-------------------------------------------------------------------------------
(* Crashes, restarts and recovery. *)

(* The process ends: killed, or by HandleWalFailureOrDie when the log      *)
(* cannot be written.  Of the records not flushed the file has got some,   *)
(* the last of them perhaps in part.                                       *)
Crash ==
  /\ phase \notin {"down", "closed"}
  /\ \E n \in 0 .. Len(buffer) :
       /\ file' = file \o SubSeq(buffer, 1, n)
       /\ torn' \in {torn, torn \/ n < Len(buffer)}
  /\ buffer' = <<>>
  /\ store' = durable
  /\ phase' = "down"
  /\ redo' = 0
  /\ step' = [c \in Client |-> "idle"]
  /\ op' = [c \in Client |-> Idle]
  /\ copy' = [c \in Client |-> {}]
  /\ unsure' = unsure \cup InFlight
  /\ UNCHANGED <<durable, next_lsn, owner, committed>>

(* The user saves all pages and ends the process in order. *)
Close ==
  /\ phase = "running"
  /\ InFlight = {}
  /\ durable' = store
  /\ WriteBuffer
  /\ phase' = "closed"
  /\ UNCHANGED <<store, torn, next_lsn, redo, clients, owner, answers>>

NextLsn_FromOne(records) == 1

NextLsn(records) ==
  Max({0} \cup {records[i].lsn : i \in DOMAIN records}) + 1

(* The constructor.  Recovery is asked for after a crash only. *)
Open ==
  /\ phase \in {"down", "closed"}
  /\ next_lsn' = NextLsn(file)
  /\ phase' = IF phase = "closed" THEN "running" ELSE "opened"
  /\ UNCHANGED <<store, durable, file, torn, buffer, redo, clients, owner,
                 answers>>

(* Recover replays the records, whatever the file holds of their pages,    *)
(* saves all pages and empties the log.                                    *)
RecoverStarts ==
  /\ phase = "opened"
  /\ phase' = "redo"
  /\ redo' = 0
  /\ UNCHANGED <<store, durable, log, clients, owner, answers>>

Redo ==
  /\ phase = "redo" /\ redo < Len(file)
  /\ store' = [store EXCEPT ![file[redo + 1].page] = file[redo + 1].image]
  /\ redo' = redo + 1
  /\ UNCHANGED <<durable, log, phase, clients, owner, answers>>

FlushAllPages_Nothing ==
  /\ phase = "redo" /\ redo = Len(file)
  /\ phase' = "flushed"
  /\ UNCHANGED <<store, durable, log, redo, clients, owner, answers>>

FlushAllPages ==
  /\ phase = "redo" /\ redo = Len(file)
  /\ durable' = store
  /\ phase' = "flushed"
  /\ UNCHANGED <<store, log, redo, clients, owner, answers>>

TruncateWal_KeepsTail ==
  /\ phase = "flushed"
  /\ file' = <<>>
  /\ redo' = 0
  /\ phase' = "running"
  /\ UNCHANGED <<store, durable, torn, buffer, next_lsn, clients, owner,
                 answers>>

(* Truncation with the log then reopened, or not. *)
TruncateWal ==
  /\ phase = "flushed"
  /\ file' = <<>> /\ torn' = FALSE
  /\ redo' = 0
  /\ \/ /\ phase' = "running"
        /\ next_lsn' = 1
        /\ committed' = [p \in Page |->
                           {t \in Tuple : IF <<p, t>> \in unsure
                                          THEN t \in store[p]
                                          ELSE t \in committed[p]}]
        /\ unsure' = {}
     \/ /\ phase' = "opened"
        /\ UNCHANGED <<next_lsn, answers>>
  /\ UNCHANGED <<store, durable, buffer, clients, owner>>

(* A page that cannot be fetched or saved, or a log that cannot be         *)
(* truncated, makes Recover return; its caller may try again.              *)
RecoverFails ==
  /\ phase \in {"redo", "flushed"}
  /\ phase' = "opened"
  /\ redo' = 0
  /\ UNCHANGED <<store, durable, log, clients, owner, answers>>

Next ==
  \/ \E c \in Client, p \in Page, t \in Tuple : Change(c, p, t)
  \/ \E c \in Client : CopyImage(c) \/ AppendLog(c) \/ FlushLog(c)
  \/ \E p \in Page : Save(p) \/ Reassign(p)
  \/ Crash \/ Close \/ Open
  \/ RecoverStarts \/ Redo \/ FlushAllPages \/ TruncateWal \/ RecoverFails

Spec == Init /\ [][Next]_vars

-------------------------------------------------------------------------------
(* Properties. *)

HeapPage == {p \in Page : owner[p] = "heap"}

(* Content c of page p is what clients have been told, except where an     *)
(* operation is under way or was cut short.                                *)
Agrees(p, c) ==
  /\ c # {Foreign}
  /\ \A t \in Tuple :
       <<p, t>> \notin InFlight \cup unsure => (t \in c <=> t \in committed[p])

(* A running system shows every answered operation and no other, after any *)
(* crashes, also crashes of recoveries and recoveries that gave up.        *)
AnsweredOperationsSurvive ==
  phase = "running" => \A p \in HeapPage : Agrees(p, store[p])

(* At every moment a crash would be survived: the file with the log        *)
(* replayed over it holds every answered operation.                        *)
Images(p) == {i \in DOMAIN file : file[i].page = p}

Rebuilt(p) ==
  IF Images(p) = {}
  THEN durable[p]
  ELSE file[CHOOSE i \in Images(p) : \A j \in Images(p) : j <= i].image

LogRebuildsPages == \A p \in HeapPage : Agrees(p, Rebuilt(p))

(* No two records of a log have the same number, and later ones have       *)
(* larger ones, also across restarts without recovery.                     *)
LsnsIncrease ==
  LET records == file \o buffer
  IN  /\ TypeOK
      /\ \A i, j \in DOMAIN records : i < j => records[i].lsn < records[j].lsn
      /\ phase = "running" =>
           \A i \in DOMAIN records : records[i].lsn < next_lsn
===============================================================================
