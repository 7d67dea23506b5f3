------------------------------- MODULE Replacer -------------------------------
(***************************************************************************)
(* What the buffer pool needs from a page replacer, whatever its policy:   *)
(* a set of frames that may be evicted, and a Victim operation that takes  *)
(* one of them out of the set and fails exactly when the set is empty.     *)
(* LruKReplacer implements it; BufferPool is written against it.           *)
(***************************************************************************)

CONSTANTS
  Frame,                    \* the frame ids of the pool
  NoFrame                   \* the answer of a Victim that fails

VARIABLES
  evictable,                \* the frames the replacer may choose from
  victim                    \* what the last Victim answered

vars == <<evictable, victim>>

Init == evictable = {} /\ victim = NoFrame

(* Pinning takes a frame out of the set, unpinning puts it in. *)
SetEvictable(f, isEvictable) ==
  /\ evictable' = IF isEvictable THEN evictable \cup {f} ELSE evictable \ {f}
  /\ UNCHANGED victim

(* Some evictable frame is chosen and leaves the set. *)
Victim(f) ==
  /\ f \in evictable
  /\ evictable' = evictable \ {f}
  /\ victim' = f

VictimFails ==
  /\ evictable = {}
  /\ victim' = NoFrame
  /\ UNCHANGED evictable

Next ==
  \/ \E f \in Frame, isEvictable \in BOOLEAN : SetEvictable(f, isEvictable)
  \/ \E f \in Frame : Victim(f)
  \/ VictimFails

Spec == Init /\ [][Next]_vars
===============================================================================
