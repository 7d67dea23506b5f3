----------------------------- MODULE LruKReplacer -----------------------------
(***************************************************************************)
(* buffer/replacer/lru_k_replacer.cxx: the LRU-K page replacer.            *)
(*                                                                         *)
(* Every operation holds latch_ from its first line to its last, so each   *)
(* is one action.  UINT64_MAX, the distance of a frame with fewer than K   *)
(* accesses, is Infinity; MaxTimestamp bounds current_timestamp_.          *)
(***************************************************************************)
EXTENDS Naturals, FiniteSets, Sequences

CONSTANTS
  PoolSize,                 \* pool_size_, the number of frames
  K,                        \* k_, how many accesses a frame's history keeps
  MaxTimestamp              \* bound on the number of recorded accesses

ASSUME ReplacerConstants ==
  /\ PoolSize \in Nat
  /\ K \in Nat \ {0}
  /\ MaxTimestamp \in Nat

VARIABLES
  history,                  \* frames_[f].history: the last K access times
  evictable,                \* the frames whose evictable flag is set
  evictable_size,           \* the separately maintained count of them
  current_timestamp,        \* the global access clock
  victim,                   \* what the last Victim answered
  accesses                  \* auxiliary: every access since f was last taken

lruVars == <<history, evictable, evictable_size, current_timestamp, victim,
             accesses>>

Frame == 0 .. PoolSize - 1
NoFrame == PoolSize         \* numeric_limits<frame_id_t>::max()
Infinity == MaxTimestamp + 1

LruInit ==
  /\ history = [f \in Frame |-> <<>>]
  /\ evictable = {}
  /\ evictable_size = 0
  /\ current_timestamp = 0
  /\ victim = NoFrame
  /\ accesses = [f \in Frame |-> <<>>]

-------------------------------------------------------------------------------
Remember_DropsNewest(h, t) == IF Len(h) = K THEN h ELSE Append(h, t)

(* The deque keeps the K latest of the accesses pushed at its back. *)
Remember(h, t) ==
  LET longer == Append(h, t)
  IN  IF Len(longer) > K THEN Tail(longer) ELSE longer

RecordAccess(f) ==
  /\ current_timestamp < MaxTimestamp
  /\ current_timestamp' = current_timestamp + 1
  /\ history' = [history EXCEPT ![f] = Remember(@, current_timestamp + 1)]
  /\ accesses' = [accesses EXCEPT ![f] = Append(@, current_timestamp + 1)]
  /\ UNCHANGED <<evictable, evictable_size, victim>>

SetEvictable_CountsRepeats(f, isEvictable) ==
  /\ evictable' = IF isEvictable THEN evictable \cup {f} ELSE evictable \ {f}
  /\ evictable_size' = IF isEvictable THEN evictable_size + 1
                                     ELSE evictable_size - 1
  /\ UNCHANGED <<history, current_timestamp, victim, accesses>>

(* A call that does not change the flag leaves the count alone. *)
SetEvictable(f, isEvictable) ==
  /\ isEvictable # (f \in evictable)
  /\ \/ /\ isEvictable
        /\ evictable' = evictable \cup {f}
        /\ evictable_size' = evictable_size + 1
     \/ /\ ~isEvictable
        /\ evictable' = evictable \ {f}
        /\ evictable_size' = evictable_size - 1
  /\ UNCHANGED <<history, current_timestamp, victim, accesses>>

Forget_KeepsCount(f) ==
  /\ evictable' = evictable \ {f}
  /\ history' = [history EXCEPT ![f] = <<>>]
  /\ accesses' = [accesses EXCEPT ![f] = <<>>]
  /\ UNCHANGED <<evictable_size, current_timestamp>>

(* Both ways a frame leaves the replacer: its history is forgotten. *)
Forget(f) ==
  /\ evictable' = evictable \ {f}
  /\ evictable_size' = evictable_size - 1
  /\ history' = [history EXCEPT ![f] = <<>>]
  /\ accesses' = [accesses EXCEPT ![f] = <<>>]
  /\ UNCHANGED current_timestamp

FirstAccess(f) == IF history[f] = <<>> THEN 0 ELSE Head(history[f])

Distance(f) ==
  IF Len(history[f]) < K THEN Infinity ELSE current_timestamp - FirstAccess(f)

(* Whether frame f displaces the best candidate found so far. *)
Displaces(f, best) ==
  \/ best = NoFrame
  \/ Distance(f) > Distance(best)
  \/ /\ Distance(f) = Infinity
     /\ Distance(best) = Infinity
     /\ FirstAccess(f) < FirstAccess(best)

Candidate_IgnoresPins ==
  LET best[n \in 0 .. PoolSize] ==
        IF n = 0 THEN NoFrame
        ELSE IF Displaces(n - 1, best[n - 1]) THEN n - 1 ELSE best[n - 1]
  IN  best

(* The loop over the frames in order of their ids: the best candidate      *)
(* after the first n.                                                      *)
Candidate ==
  LET best[n \in 0 .. PoolSize] ==
        IF n = 0 THEN NoFrame
        ELSE IF n - 1 \in evictable /\ Displaces(n - 1, best[n - 1])
             THEN n - 1 ELSE best[n - 1]
  IN  best

PickVictimInternal == Candidate[PoolSize]

Victim(f) ==
  /\ evictable_size # 0
  /\ f = PickVictimInternal
  /\ f # NoFrame
  /\ Forget(f)
  /\ victim' = f

VictimFails ==
  /\ evictable_size = 0 \/ PickVictimInternal = NoFrame
  /\ victim' = NoFrame
  /\ UNCHANGED <<history, evictable, evictable_size, current_timestamp, accesses>>

RemoveFrame(f) ==
  /\ f \in evictable
  /\ Forget(f)
  /\ UNCHANGED victim

LruNext ==
  \/ \E f \in Frame :
       \/ RecordAccess(f)
       \/ \E isEvictable \in BOOLEAN : SetEvictable(f, isEvictable)
       \/ Victim(f)
       \/ RemoveFrame(f)
  \/ VictimFails

LruSpec == LruInit /\ [][LruNext]_lruVars

(* The count and the policy are not visible to the abstract replacer. *)
AnyReplacer == INSTANCE Replacer

-------------------------------------------------------------------------------
(* The state is well typed. *)
LruTypeOK ==
  /\ history \in [Frame -> Seq(1 .. MaxTimestamp)]
  /\ evictable \subseteq Frame
  /\ evictable_size \in 0 .. PoolSize
  /\ current_timestamp \in 0 .. MaxTimestamp
  /\ victim \in Frame \cup {NoFrame}
  /\ accesses \in [Frame -> Seq(1 .. MaxTimestamp)]

(* Victim tests evictable_size_ before it looks at any frame, so a count   *)
(* that drifts from the flags either refuses frames that are there or      *)
(* underflows: SetEvictable, Victim and Remove keep the two equal.         *)
SizeCountsEvictable == LruTypeOK /\ evictable_size = Cardinality(evictable)

(* The K-th latest access to f, from the full log and not from the deque:  *)
(* no such access is 0, before every access there is.                      *)
KthLatest(f) ==
  IF Len(accesses[f]) < K THEN 0 ELSE accesses[f][Len(accesses[f]) - K + 1]

Earliest(f) == IF accesses[f] = <<>> THEN 0 ELSE accesses[f][1]

(* The LRU-K rule (lru_k_replacer.cxx:166-171) over the whole access log:  *)
(* the victim's K-th latest access is the oldest; among the frames with    *)
(* fewer than K accesses it is the one whose first access is the oldest.   *)
IsLruKVictim(v) ==
  /\ v \in evictable
  /\ \A f \in evictable :
       /\ KthLatest(v) <= KthLatest(f)
       /\ KthLatest(f) = 0 => Earliest(v) <= Earliest(f)

(* Every frame Victim hands out is the one the LRU-K rule names, although  *)
(* the code keeps only the last K accesses and scans the frames once.      *)
VictimFollowsLruK ==
  [][\A f \in Frame : Victim(f) => IsLruKVictim(f)]_lruVars

(* The detailed replacer is a replacer: Victim takes a frame that may be   *)
(* evicted, and fails only when there is none, so that the buffer pool may *)
(* read its failure as "every frame is pinned".                            *)
ImplementsReplacer == AnyReplacer!Spec
===============================================================================
