------------------------ MODULE TreeAndReplacerProofs -------------------------
(***************************************************************************)
(* Proofs about the two data structures in memory whose operations hold    *)
(* one latch from their first line to their last.                          *)
(*                                                                         *)
(* The LRU-K replacer, for any number of frames and accesses and any K:    *)
(* its count is the number of set flags, Victim names the frame the LRU-K  *)
(* rule names over the whole access log, and the replacer is what module   *)
(* Replacer promises the buffer pool.                                      *)
(*                                                                         *)
(* The B+ tree, for any keys and any sizes of its pages, as long as they   *)
(* are too few for a third level (TwoLevels): lookups, scans, separators,  *)
(* links and header agree, the tree is what module Index promises, and a   *)
(* scan that is open while keys are inserted passes none by.               *)
(***************************************************************************)
EXTENDS IndexScan, LruKReplacer, FiniteSetTheorems, SequenceTheorems,
        WellFoundedInduction, TLAPS

(* Induction over the natural numbers, for sets of them.                   *)
LEMMA AllNumbers ==
  ASSUME NEW S, 0 \in S, \A n \in Nat : n \in S => n + 1 \in S
  PROVE  Nat \subseteq S
<1> SUFFICES ASSUME Nat \ S # {} PROVE FALSE
  OBVIOUS
<1>1. PICK x \in Nat \ S : \A y \in Nat \ S : ~ (<<y, x>> \in OpToRel(<, Nat))
  <2>1. Nat \ S \in SUBSET Nat
    OBVIOUS
  <2> QED
    BY <2>1, NatLessThanWellFounded, WFMin
<1>2. x # 0 /\ x - 1 \in Nat
  OBVIOUS
<1>3. CASE x - 1 \in S
  BY <1>2, <1>3
<1>4. CASE x - 1 \notin S
  <2>1. x - 1 \in Nat \ S /\ x - 1 < x
    BY <1>2, <1>4
  <2>2. <<x - 1, x>> \in OpToRel(<, Nat)
    BY <1>1, <2>1 DEF OpToRel
  <2> QED
    BY <1>1, <2>1, <2>2
<1> QED
  BY <1>3, <1>4

-------------------------------------------------------------------------------
(* The replacer. *)

(* The deque of a frame is the end of its log.                             *)
Kept(f) ==
  /\ Len(history[f]) = IF Len(accesses[f]) < K THEN Len(accesses[f]) ELSE K
  /\ \A i \in 1 .. Len(history[f]) :
       history[f][i] = accesses[f][Len(accesses[f]) - Len(history[f]) + i]

Past(f) == \A i \in 1 .. Len(accesses[f]) : accesses[f][i] <= current_timestamp

(* The inductive invariant.                                                *)
LruInv == SizeCountsEvictable /\ \A f \in Frame : Kept(f) /\ Past(f)

-------------------------------------------------------------------------------
(* The loop of PickVictimInternal, one frame a round.                      *)
LEMMA CandidateRounds ==
  /\ Candidate[0] = NoFrame
  /\ \A n \in 1 .. PoolSize :
       Candidate[n] = IF n - 1 \in evictable /\ Displaces(n - 1, Candidate[n - 1])
                      THEN n - 1 ELSE Candidate[n - 1]
<1> DEFINE R(g, m) ==
             [n \in 0 .. m |->
                IF n = 0 THEN NoFrame
                ELSE IF n - 1 \in evictable /\ Displaces(n - 1, g[n - 1])
                     THEN n - 1 ELSE g[n - 1]]
           S == {m \in Nat : \E g : g = R(g, m)}
<1>1. 0 \in S
  <2>1. [n \in 0 .. 0 |-> NoFrame] = R([n \in 0 .. 0 |-> NoFrame], 0)
    OBVIOUS
  <2> QED
    BY <2>1
<1>2. ASSUME NEW m \in Nat, m \in S PROVE m + 1 \in S
  <2>1. PICK g : g = R(g, m)
    BY <1>2
  <2> DEFINE h == [n \in 0 .. m + 1 |->
                     IF n <= m THEN g[n]
                     ELSE IF m \in evictable /\ Displaces(m, g[m])
                          THEN m ELSE g[m]]
  <2>2. ASSUME NEW n \in 0 .. m + 1
        PROVE  h[n] = R(h, m + 1)[n]
    <3>1. CASE n = 0
      BY <2>1, <3>1
    <3>2. CASE n \in 1 .. m
      <4>1. h[n] = g[n] /\ h[n - 1] = g[n - 1]
        BY <3>2
      <4>2. g[n] = R(g, m)[n]
        BY <2>1
      <4> QED
        BY <3>2, <4>1, <4>2
    <3>3. CASE n = m + 1
      <4>1. h[n - 1] = g[m] /\ n - 1 = m
        BY <3>3
      <4> QED
        BY <3>3, <4>1
    <3> QED
      BY <3>1, <3>2, <3>3
  <2>3. h = R(h, m + 1)
    BY <2>2
  <2> HIDE DEF h
  <2> QED
    BY <2>3
<1>3. PoolSize \in S
  <2> HIDE DEF S
  <2> QED
    BY <1>1, <1>2, AllNumbers, ReplacerConstants
<1>4. Candidate = R(Candidate, PoolSize)
  <2>1. Candidate = CHOOSE g : g = R(g, PoolSize)
    BY DEF Candidate
  <2>2. \E g : g = R(g, PoolSize)
    BY <1>3
  <2> HIDE DEF R
  <2> QED
    BY <2>1, <2>2
<1> QED
  BY <1>4, ReplacerConstants

-------------------------------------------------------------------------------
(* The victim. *)

(* Sequences of times.                                                     *)
LEMMA Times ==
  ASSUME NEW s \in Seq(1 .. MaxTimestamp)
  PROVE  /\ Len(s) \in Nat
         /\ \A i \in 1 .. Len(s) : s[i] \in 1 .. MaxTimestamp
         /\ s = <<>> <=> Len(s) = 0
         /\ s # <<>> => Head(s) = s[1]
<1>1. Len(s) \in Nat /\ \A i \in 1 .. Len(s) : s[i] \in 1 .. MaxTimestamp
  BY LenProperties, ElementOfSeq
<1>2. s = <<>> <=> Len(s) = 0
  BY EmptySeq
<1>3. s # <<>> => Head(s) = s[1]
  BY HeadTailProperties
<1> QED
  BY <1>1, <1>2, <1>3

(* What the replacer knows of a frame's past.                              *)
LEMMA Knowledge ==
  ASSUME LruInv, NEW f \in Frame
  PROVE  /\ Distance(f) \in Nat /\ Distance(f) <= Infinity
         /\ FirstAccess(f) \in Nat
         /\ Distance(f) = Infinity <=> Len(accesses[f]) < K
         /\ Len(accesses[f]) < K =>
              KthLatest(f) = 0 /\ FirstAccess(f) = Earliest(f)
         /\ Len(accesses[f]) >= K =>
              /\ KthLatest(f) \in Nat \ {0} /\ KthLatest(f) = FirstAccess(f)
              /\ Distance(f) = current_timestamp - KthLatest(f)
<1>1. /\ history[f] \in Seq(1 .. MaxTimestamp)
      /\ accesses[f] \in Seq(1 .. MaxTimestamp)
      /\ current_timestamp \in 0 .. MaxTimestamp
      /\ Kept(f) /\ Past(f)
  BY DEF LruInv, SizeCountsEvictable, LruTypeOK
<1>2. /\ K \in Nat \ {0} /\ MaxTimestamp \in Nat
      /\ Infinity = MaxTimestamp + 1
  BY ReplacerConstants DEF Infinity
<1>3. /\ Len(history[f]) \in Nat /\ Len(accesses[f]) \in Nat
      /\ \A i \in 1 .. Len(history[f]) : history[f][i] \in 1 .. MaxTimestamp
      /\ \A i \in 1 .. Len(accesses[f]) : accesses[f][i] \in 1 .. MaxTimestamp
      /\ history[f] = <<>> <=> Len(history[f]) = 0
      /\ accesses[f] = <<>> <=> Len(accesses[f]) = 0
      /\ history[f] # <<>> => Head(history[f]) = history[f][1]
  BY <1>1, Times
<1>4. CASE Len(accesses[f]) < K
  BY <1>1, <1>2, <1>3, <1>4 DEF Kept, Distance, FirstAccess, KthLatest, Earliest
<1>5. CASE Len(accesses[f]) >= K
  <2>1. /\ Len(history[f]) = K /\ 1 \in 1 .. K
        /\ history[f][1] = accesses[f][Len(accesses[f]) - K + 1]
        /\ Len(accesses[f]) - K + 1 \in 1 .. Len(accesses[f])
    <3>1. Len(history[f]) = K /\ 1 \in 1 .. K
      BY <1>1, <1>2, <1>3, <1>5 DEF Kept
    <3>2. history[f][1] = accesses[f][Len(accesses[f]) - Len(history[f]) + 1]
      BY <1>1, <3>1 DEF Kept
    <3> QED
      BY <1>2, <1>3, <1>5, <3>1, <3>2
  <2>2. history[f][1] <= current_timestamp
    BY <1>1, <2>1 DEF Past
  <2>3. FirstAccess(f) = history[f][1] /\ KthLatest(f) = history[f][1]
    BY <1>2, <1>3, <1>5, <2>1 DEF FirstAccess, KthLatest
  <2>4. Distance(f) = current_timestamp - history[f][1]
    BY <1>2, <2>1, <2>3 DEF Distance
  <2>5. history[f][1] \in 1 .. MaxTimestamp
    BY <1>3, <2>1
  <2> QED
    BY <1>1, <1>2, <1>3, <1>5, <2>2, <2>3, <2>4, <2>5, SMTT(20)
<1> QED
  BY <1>3, <1>2, <1>4, <1>5

(* No frame of F is a better victim than b.                                *)
Best(b, F) ==
  /\ b \in F
  /\ \A f \in F : /\ Distance(f) <= Distance(b)
                  /\ Distance(f) = Infinity => FirstAccess(b) <= FirstAccess(f)

LEMMA CandidateIsBest ==
  ASSUME LruInv, NEW n \in 0 .. PoolSize
  PROVE  LET F == {f \in evictable : f < n}
         IN  IF F = {} THEN Candidate[n] = NoFrame ELSE Best(Candidate[n], F)
<1> DEFINE F(m) == {f \in evictable : f < m}
           Right(m) == IF F(m) = {} THEN Candidate[m] = NoFrame
                                    ELSE Best(Candidate[m], F(m))
           S == {m \in Nat : m <= PoolSize => Right(m)}
<1>1. evictable \subseteq Frame /\ Frame = 0 .. PoolSize - 1 /\ PoolSize \in Nat
  BY ReplacerConstants DEF LruInv, SizeCountsEvictable, LruTypeOK, Frame
<1>2. 0 \in S
  <2>1. F(0) = {}
    <3>1. \A f \in evictable : ~ (f < 0)
      BY <1>1
    <3> QED
      BY <3>1
  <2> QED
    BY <2>1, CandidateRounds
<1>3. ASSUME NEW m \in Nat, m \in S PROVE m + 1 \in S
  <2> SUFFICES ASSUME m + 1 <= PoolSize PROVE Right(m + 1)
    OBVIOUS
  <2> DEFINE b == Candidate[m]
  <2>1. Right(m)
    BY <1>1, <1>3
  <2>2. Candidate[m + 1] = IF m \in evictable /\ Displaces(m, b) THEN m ELSE b
    BY <1>1, CandidateRounds
  <2>3. F(m + 1) = IF m \in evictable THEN F(m) \cup {m} ELSE F(m)
    <3>1. \A f \in evictable : f < m + 1 <=> f < m \/ f = m
      BY <1>1
    <3> QED
      BY <3>1
  <2>4. \A f \in F(m) \cup {m} :
          /\ Distance(f) \in Nat /\ Distance(f) <= Infinity
          /\ FirstAccess(f) \in Nat
    BY <1>1, Knowledge
  <2>5. NoFrame \notin F(m) /\ m \in Frame /\ Infinity \in Nat
    BY <1>1, ReplacerConstants DEF NoFrame, Infinity
  <2>6. CASE m \notin evictable
    BY <2>1, <2>2, <2>3, <2>6
  <2>7. CASE m \in evictable /\ F(m) = {}
    <3>1. Candidate[m + 1] = m /\ F(m + 1) = {m}
      BY <2>1, <2>2, <2>3, <2>7 DEF Displaces
    <3> HIDE DEF F
    <3> QED
      BY <2>4, <3>1 DEF Best
  <2>8. CASE m \in evictable /\ F(m) # {}
    <3>1. Best(b, F(m)) /\ b \in F(m) /\ b # NoFrame
      BY <2>1, <2>5, <2>8 DEF Best
    <3>2. F(m + 1) = F(m) \cup {m}
      BY <2>3, <2>8
    <3> HIDE DEF F
    <3>3. CASE Displaces(m, b)
      <4>1. Candidate[m + 1] = m
        BY <2>2, <2>8, <3>3
      <4>2. \/ Distance(m) > Distance(b)
            \/ /\ Distance(m) = Infinity /\ Distance(b) = Infinity
               /\ FirstAccess(m) < FirstAccess(b)
        BY <3>1, <3>3 DEF Displaces
      <4> HIDE DEF b
      <4>3. Best(m, F(m) \cup {m})
        BY <2>4, <2>5, <3>1, <4>2 DEF Best
      <4> QED
        BY <3>2, <4>1, <4>3
    <3>4. CASE ~ Displaces(m, b)
      <4>1. Candidate[m + 1] = b
        BY <2>2, <3>4
      <4>2. /\ ~ (Distance(m) > Distance(b))
            /\ ~ (/\ Distance(m) = Infinity /\ Distance(b) = Infinity
                  /\ FirstAccess(m) < FirstAccess(b))
        BY <3>4 DEF Displaces
      <4> HIDE DEF b
      <4>3. Best(b, F(m) \cup {m})
        BY <2>4, <2>5, <3>1, <4>2 DEF Best
      <4> QED
        BY <3>2, <4>1, <4>3
    <3> QED
      BY <3>3, <3>4
  <2> QED
    BY <2>6, <2>7, <2>8
<1>4. n \in Nat /\ n <= PoolSize
  BY <1>1
<1> HIDE DEF S
<1>5. n \in S
  BY <1>2, <1>3, <1>4, AllNumbers
<1>6. Right(n)
  BY <1>4, <1>5 DEF S
<1> QED
  BY <1>6

(* The loop finds the best of the evictable frames, if there is one.       *)
LEMMA VictimIsBest ==
  ASSUME LruInv
  PROVE  IF evictable = {} THEN PickVictimInternal = NoFrame
                           ELSE Best(PickVictimInternal, evictable)
<1>1. PoolSize \in 0 .. PoolSize
  BY ReplacerConstants
<1>2. {f \in evictable : f < PoolSize} = evictable
  <2>1. evictable \subseteq 0 .. PoolSize - 1 /\ PoolSize \in Nat
    BY ReplacerConstants DEF LruInv, SizeCountsEvictable, LruTypeOK, Frame
  <2>2. \A f \in evictable : f < PoolSize
    BY <2>1
  <2> QED
    BY <2>2
<1> QED
  BY <1>1, <1>2, CandidateIsBest DEF PickVictimInternal

LEMMA BestIsLruK ==
  ASSUME LruInv, NEW v, Best(v, evictable) PROVE IsLruKVictim(v)
<1>1. v \in evictable /\ evictable \subseteq Frame
  BY DEF Best, LruInv, SizeCountsEvictable, LruTypeOK
<1>2. ASSUME NEW f \in evictable
      PROVE  KthLatest(v) <= KthLatest(f)
             /\ (KthLatest(f) = 0 => Earliest(v) <= Earliest(f))
  <2>1. /\ Distance(f) <= Distance(v)
        /\ Distance(f) = Infinity => FirstAccess(v) <= FirstAccess(f)
    BY <1>2 DEF Best
  <2>2. /\ Infinity \in Nat /\ K \in Nat /\ current_timestamp \in Nat
        /\ Len(accesses[f]) \in Nat /\ Len(accesses[v]) \in Nat
    BY <1>1, ReplacerConstants DEF LruInv, SizeCountsEvictable, LruTypeOK, Infinity
  <2>3. CASE Len(accesses[f]) < K
    BY <1>1, <2>1, <2>2, <2>3, Knowledge
  <2>4. CASE Len(accesses[f]) >= K /\ Len(accesses[v]) < K
    BY <1>1, <2>2, <2>4, Knowledge
  <2>5. CASE Len(accesses[f]) >= K /\ Len(accesses[v]) >= K
    BY <1>1, <2>1, <2>2, <2>5, Knowledge
  <2> QED
    BY <2>2, <2>3, <2>4, <2>5
<1> QED
  BY <1>1, <1>2 DEF IsLruKVictim

-------------------------------------------------------------------------------
(* The steps of the replacer. *)

LEMMA InitLruInv == LruInit => LruInv
<1> SUFFICES ASSUME LruInit PROVE LruInv
  OBVIOUS
<1>1. Cardinality({}) = 0 /\ K \in Nat \ {0} /\ PoolSize \in Nat
  BY FS_EmptySet, ReplacerConstants
<1>2. SizeCountsEvictable
  BY <1>1, ReplacerConstants DEF LruInit, SizeCountsEvictable, LruTypeOK
<1>3. ASSUME NEW f \in Frame PROVE Kept(f) /\ Past(f)
  <2>1. history[f] = <<>> /\ accesses[f] = <<>> /\ Len(<<>>) = 0
    BY <1>3 DEF LruInit
  <2> QED
    BY <1>1, <2>1 DEF Kept, Past
<1> QED
  BY <1>2, <1>3 DEF LruInv

(* What a count of frames can be.                                          *)
LEMMA Counting ==
  ASSUME NEW E \in SUBSET Frame, NEW f \in Frame
  PROVE  /\ Cardinality(E) \in 0 .. PoolSize
         /\ Cardinality(E \cup {f}) =
              IF f \in E THEN Cardinality(E) ELSE Cardinality(E) + 1
         /\ Cardinality(E \ {f}) =
              IF f \in E THEN Cardinality(E) - 1 ELSE Cardinality(E)
<1>1. IsFiniteSet(Frame) /\ Cardinality(Frame) = PoolSize /\ PoolSize \in Nat
  BY FS_Interval, ReplacerConstants DEF Frame
<1>2. IsFiniteSet(E) /\ Cardinality(E) <= PoolSize
  BY <1>1, FS_Subset
<1>3. Cardinality(E) \in Nat
  BY <1>2, FS_CardinalityType
<1>4. Cardinality(E \cup {f}) =
        IF f \in E THEN Cardinality(E) ELSE Cardinality(E) + 1
  BY <1>2, FS_AddElement
<1>5. Cardinality(E \ {f}) =
        IF f \in E THEN Cardinality(E) - 1 ELSE Cardinality(E)
  BY <1>2, FS_RemoveElement
<1> QED
  BY <1>1, <1>2, <1>3, <1>4, <1>5

LEMMA Pushed ==
  ASSUME NEW s \in Seq(1 .. MaxTimestamp), NEW t \in 1 .. MaxTimestamp
  PROVE  /\ Append(s, t) \in Seq(1 .. MaxTimestamp)
         /\ Len(Append(s, t)) = Len(s) + 1
         /\ \A i \in 1 .. Len(s) : Append(s, t)[i] = s[i]
         /\ Append(s, t)[Len(s) + 1] = t
         /\ Append(s, t) # <<>>
         /\ Tail(Append(s, t)) \in Seq(1 .. MaxTimestamp)
         /\ Len(Tail(Append(s, t))) = Len(s)
         /\ \A i \in 1 .. Len(s) : Tail(Append(s, t))[i] = Append(s, t)[i + 1]
<1> DEFINE a == Append(s, t)
<1>1. Len(s) \in Nat
  BY Times
<1>2. a \in Seq(1 .. MaxTimestamp) /\ Len(a) = Len(s) + 1 /\ a # <<>>
  BY <1>1, AppendProperties
<1>3. /\ \A i \in 1 .. Len(s) : a[i] = s[i]
      /\ a[Len(s) + 1] = t
  BY <1>1, AppendProperties
<1> HIDE DEF a
<1>4. /\ Tail(a) \in Seq(1 .. MaxTimestamp)
      /\ Len(Tail(a)) = Len(a) - 1
      /\ \A i \in 1 .. Len(Tail(a)) : Tail(a)[i] = a[i + 1]
  BY <1>2, HeadTailProperties
<1>5. Len(Tail(a)) = Len(s)
  BY <1>1, <1>2, <1>4
<1>6. \A i \in 1 .. Len(s) : Tail(a)[i] = a[i + 1]
  BY <1>4, <1>5
<1> QED
  BY <1>2, <1>3, <1>4, <1>5, <1>6 DEF a

LEMMA RecordKeeps ==
  ASSUME LruInv, NEW g \in Frame, RecordAccess(g) PROVE LruInv'
<1> DEFINE t == current_timestamp + 1
<1>1. /\ t \in 1 .. MaxTimestamp /\ current_timestamp' = t
      /\ current_timestamp \in Nat
      /\ evictable' = evictable /\ evictable_size' = evictable_size
      /\ victim' = victim
  BY ReplacerConstants DEF RecordAccess, LruInv, SizeCountsEvictable, LruTypeOK
<1>2. ASSUME NEW f \in Frame
      PROVE  /\ history[f] \in Seq(1 .. MaxTimestamp)
             /\ accesses[f] \in Seq(1 .. MaxTimestamp)
             /\ Kept(f) /\ Past(f)
             /\ history'[f] = IF f = g THEN Remember(history[f], t) ELSE history[f]
             /\ accesses'[f] = IF f = g THEN Append(accesses[f], t) ELSE accesses[f]
  BY DEF RecordAccess, LruInv, SizeCountsEvictable, LruTypeOK
<1> HIDE DEF t
<1>3. K \in Nat \ {0}
  BY ReplacerConstants
<1>4. /\ Remember(history[g], t) \in Seq(1 .. MaxTimestamp)
      /\ Append(accesses[g], t) \in Seq(1 .. MaxTimestamp)
  BY <1>1, <1>2, Pushed DEF Remember
<1>5. SizeCountsEvictable'
  <2>1. /\ history' \in [Frame -> Seq(1 .. MaxTimestamp)]
        /\ accesses' \in [Frame -> Seq(1 .. MaxTimestamp)]
    BY <1>1, <1>4 DEF RecordAccess, LruInv, SizeCountsEvictable, LruTypeOK, t
  <2> QED
    BY <1>1, <2>1 DEF LruInv, SizeCountsEvictable, LruTypeOK
<1>6. ASSUME NEW f \in Frame PROVE Kept(f)' /\ Past(f)'
  <2> DEFINE h == history[f]
             a == accesses[f]
             b == Append(a, t)
             p == Append(h, t)
  <2>1. CASE f # g
    <3>1. history'[f] = history[f] /\ accesses'[f] = accesses[f]
      BY <1>2, <2>1
    <3>2. Kept(f)'
      BY <1>2, <3>1 DEF Kept
    <3>3. ASSUME NEW i \in 1 .. Len(accesses[f])
          PROVE  accesses[f][i] <= current_timestamp'
      <4>1. accesses[f][i] \in 1 .. MaxTimestamp
        BY <1>2, Times
      <4>2. accesses[f][i] <= current_timestamp
        BY <1>2 DEF Past
      <4> QED
        BY <1>1, <4>1, <4>2 DEF t
    <3> QED
      BY <3>1, <3>2, <3>3 DEF Past
  <2>2. CASE f = g
    <3>1. /\ h \in Seq(1 .. MaxTimestamp) /\ a \in Seq(1 .. MaxTimestamp)
          /\ Len(h) \in Nat /\ Len(a) \in Nat
      BY <1>2, Times
    <3>2. /\ Len(b) = Len(a) + 1 /\ b[Len(a) + 1] = t
          /\ \A i \in 1 .. Len(a) : b[i] = a[i]
      BY <1>1, <3>1, Pushed
    <3>3. /\ Len(p) = Len(h) + 1 /\ p[Len(h) + 1] = t
          /\ \A i \in 1 .. Len(h) : p[i] = h[i]
          /\ Len(Tail(p)) = Len(h)
          /\ \A i \in 1 .. Len(h) : Tail(p)[i] = p[i + 1]
      BY <1>1, <3>1, Pushed
    <3>4. /\ accesses'[f] = b
          /\ history'[f] = IF Len(h) + 1 > K THEN Tail(p) ELSE p
      BY <1>2, <2>2, <3>3 DEF Remember
    <3>5. /\ Len(h) = IF Len(a) < K THEN Len(a) ELSE K
          /\ \A i \in 1 .. Len(h) : h[i] = a[Len(a) - Len(h) + i]
          /\ \A i \in 1 .. Len(a) : a[i] <= current_timestamp
      BY <1>2 DEF Kept, Past
    <3> HIDE DEF h, a, b, p
    <3>6. Past(f)'
      <4>1. \A i \in 1 .. Len(b) : b[i] <= t
        <5> SUFFICES ASSUME NEW i \in 1 .. Len(b) PROVE b[i] <= t
          OBVIOUS
        <5>1. CASE i = Len(a) + 1
          BY <1>1, <3>2, <5>1
        <5>2. CASE i \in 1 .. Len(a)
          <6>1. a[i] \in 1 .. MaxTimestamp
            BY <3>1, <5>2, Times
          <6> QED
            BY <1>1, <3>2, <3>5, <5>2, <6>1 DEF t
        <5> QED
          BY <3>1, <3>2, <5>1, <5>2
      <4> QED
        BY <1>1, <3>4, <4>1 DEF Past
    <3>7. Kept(f)'
      <4>1. CASE Len(a) < K
        <5>1. Len(h) = Len(a) /\ \A i \in 1 .. Len(h) : h[i] = a[i]
          BY <3>1, <3>5, <4>1
        <5>2. history'[f] = p /\ Len(p) = Len(b) /\ ~ (Len(b) > K)
          BY <1>3, <3>1, <3>2, <3>3, <3>4, <4>1, <5>1
        <5>3. \A i \in 1 .. Len(p) : p[i] = b[i]
          BY <3>1, <3>2, <3>3, <5>1
        <5>4. /\ Len(p) = IF Len(b) < K THEN Len(b) ELSE K
              /\ \A i \in 1 .. Len(p) : Len(b) - Len(p) + i = i
          BY <1>3, <3>1, <3>2, <5>2
        <5> QED
          BY <3>4, <5>2, <5>3, <5>4 DEF Kept
      <4>2. CASE ~ (Len(a) < K)
        <5>1. Len(h) = K /\ history'[f] = Tail(p) /\ Len(Tail(p)) = K
          BY <1>3, <3>1, <3>3, <3>4, <3>5, <4>2
        <5>2. ASSUME NEW i \in 1 .. K PROVE Tail(p)[i] = b[Len(b) - K + i]
          <6>1. Tail(p)[i] = p[i + 1]
            BY <3>3, <5>1, <5>2
          <6>2. CASE i = K
            <7>1. i + 1 = Len(h) + 1 /\ Len(b) - K + i = Len(a) + 1
              BY <1>3, <3>1, <3>2, <5>1, <6>2
            <7> QED
              BY <3>2, <3>3, <6>1, <7>1
          <6>3. CASE i < K
            <7>1. /\ i + 1 \in 1 .. Len(h)
                  /\ Len(b) - K + i \in 1 .. Len(a)
                  /\ Len(b) - K + i = Len(a) - Len(h) + (i + 1)
              BY <1>3, <3>1, <3>2, <4>2, <5>1, <5>2, <6>3
            <7> QED
              BY <3>2, <3>3, <3>5, <6>1, <7>1
          <6> QED
            <7>1. i = K \/ i < K
              BY <1>3, <5>2
            <7> QED
              BY <6>2, <6>3, <7>1
        <5>3. ~ (Len(b) < K)
          BY <1>3, <3>1, <3>2, <4>2
        <5> QED
          BY <3>4, <5>1, <5>2, <5>3 DEF Kept
      <4> QED
        BY <4>1, <4>2
    <3> QED
      BY <3>6, <3>7
  <2> QED
    BY <2>1, <2>2
<1> QED
  BY <1>5, <1>6 DEF LruInv

LEMMA SetEvictableKeeps ==
  ASSUME LruInv, NEW f \in Frame, NEW isEvictable \in BOOLEAN,
         SetEvictable(f, isEvictable)
  PROVE  LruInv'
<1>1. /\ evictable \subseteq Frame /\ evictable_size = Cardinality(evictable)
      /\ evictable_size \in 0 .. PoolSize
  BY DEF LruInv, SizeCountsEvictable, LruTypeOK
<1>2. /\ evictable' \subseteq Frame
      /\ evictable_size' = Cardinality(evictable')
      /\ evictable_size' \in 0 .. PoolSize
  <2>1. CASE isEvictable
    <3>1. /\ f \notin evictable /\ evictable' = evictable \cup {f}
          /\ evictable_size' = evictable_size + 1
      BY <2>1 DEF SetEvictable
    <3>2. evictable' \in SUBSET Frame
      BY <1>1, <3>1
    <3>3. Cardinality(evictable') \in 0 .. PoolSize
      BY <3>2, Counting
    <3>4. Cardinality(evictable \cup {f}) = Cardinality(evictable) + 1
      BY <1>1, <3>1, Counting
    <3> QED
      BY <1>1, <3>1, <3>2, <3>3, <3>4
  <2>2. CASE ~ isEvictable
    <3>1. /\ f \in evictable /\ evictable' = evictable \ {f}
          /\ evictable_size' = evictable_size - 1
      BY <2>2 DEF SetEvictable
    <3> QED
      BY <1>1, <3>1, Counting
  <2> QED
    BY <2>1, <2>2
<1>3. /\ history' = history /\ accesses' = accesses
      /\ current_timestamp' = current_timestamp /\ victim' = victim
  BY DEF SetEvictable
<1> QED
  BY <1>2, <1>3 DEF LruInv, SizeCountsEvictable, LruTypeOK, Kept, Past

LEMMA ForgetKeeps ==
  ASSUME LruInv, NEW g \in evictable, Forget(g), victim' \in Frame \cup {NoFrame}
  PROVE  LruInv'
<1>1. /\ evictable \subseteq Frame /\ evictable_size = Cardinality(evictable)
      /\ g \in Frame /\ evictable_size \in Nat
  BY DEF LruInv, SizeCountsEvictable, LruTypeOK
<1>2. /\ evictable' \subseteq Frame
      /\ evictable_size' = Cardinality(evictable')
      /\ evictable_size' \in 0 .. PoolSize
  <2>1. evictable' = evictable \ {g} /\ evictable_size' = evictable_size - 1
    BY DEF Forget
  <2>2. evictable \ {g} \in SUBSET Frame /\ evictable \in SUBSET Frame
    BY <1>1
  <2>3. Cardinality(evictable \ {g}) \in 0 .. PoolSize
    BY <1>1, <2>2, Counting
  <2>4. Cardinality(evictable \ {g}) = Cardinality(evictable) - 1
    BY <1>1, <2>2, Counting
  <2> QED
    BY <1>1, <2>1, <2>2, <2>3, <2>4
<1>3. <<>> \in Seq(1 .. MaxTimestamp) /\ Len(<<>>) = 0 /\ K \in Nat \ {0}
  BY ReplacerConstants
<1>4. SizeCountsEvictable'
  BY <1>2, <1>3 DEF LruInv, SizeCountsEvictable, LruTypeOK, Forget
<1>5. ASSUME NEW f \in Frame PROVE Kept(f)' /\ Past(f)'
  <2>1. current_timestamp' = current_timestamp /\ Kept(f) /\ Past(f)
    BY DEF Forget, LruInv
  <2>2. CASE f = g
    <3>1. history'[f] = <<>> /\ accesses'[f] = <<>>
      BY <1>1, <2>2 DEF Forget, LruInv, SizeCountsEvictable, LruTypeOK
    <3> QED
      BY <1>3, <3>1 DEF Kept, Past
  <2>3. CASE f # g
    <3>1. history'[f] = history[f] /\ accesses'[f] = accesses[f]
      BY <2>3 DEF Forget, LruInv, SizeCountsEvictable, LruTypeOK
    <3> QED
      BY <2>1, <3>1 DEF Kept, Past
  <2> QED
    BY <2>2, <2>3
<1> QED
  BY <1>4, <1>5 DEF LruInv

LEMMA QuietKeeps ==
  ASSUME LruInv, victim' \in Frame \cup {NoFrame},
         UNCHANGED <<history, evictable, evictable_size, current_timestamp, accesses>>
  PROVE  LruInv'
BY DEF LruInv, SizeCountsEvictable, LruTypeOK, Kept, Past

LEMMA VictimIsEvictable ==
  ASSUME LruInv, NEW f \in Frame, Victim(f) PROVE f \in evictable
BY VictimIsBest DEF Victim, Best

LEMMA LruStepKeeps == LruInv /\ [LruNext]_lruVars => LruInv'
<1> SUFFICES ASSUME LruInv, [LruNext]_lruVars PROVE LruInv'
  OBVIOUS
<1>1. ASSUME NEW f \in Frame, RecordAccess(f) PROVE LruInv'
  BY <1>1, RecordKeeps
<1>2. ASSUME NEW f \in Frame, NEW isEvictable \in BOOLEAN,
             SetEvictable(f, isEvictable)
      PROVE  LruInv'
  BY <1>2, SetEvictableKeeps
<1>3. ASSUME NEW f \in Frame, Victim(f) PROVE LruInv'
  BY <1>3, VictimIsEvictable, ForgetKeeps DEF Victim
<1>4. ASSUME NEW f \in Frame, RemoveFrame(f) PROVE LruInv'
  BY <1>4, ForgetKeeps DEF RemoveFrame, LruInv, SizeCountsEvictable, LruTypeOK
<1>5. CASE VictimFails
  BY <1>5, QuietKeeps DEF VictimFails
<1>6. CASE UNCHANGED lruVars
  BY <1>6, QuietKeeps DEF lruVars, LruInv, SizeCountsEvictable, LruTypeOK
<1> QED
  BY <1>1, <1>2, <1>3, <1>4, <1>5, <1>6 DEF LruNext

LEMMA LruInvHolds == LruSpec => []LruInv
BY InitLruInv, LruStepKeeps, PTL DEF LruSpec

-------------------------------------------------------------------------------
(* SetEvictable, Victim and Remove keep the count equal to the number of   *)
(* frames whose flag is set: Victim, which tests the count first, neither  *)
(* refuses frames that are there nor goes below zero.                      *)
THEOREM CountsEvictable == LruSpec => []SizeCountsEvictable
<1>1. LruInv => SizeCountsEvictable
  BY DEF LruInv
<1> QED
  BY <1>1, LruInvHolds, PTL

(* Every frame Victim hands out is the one the LRU-K rule names over the   *)
(* whole access log, although the deque keeps the last K accesses only and *)
(* PickVictimInternal compares each frame with one other.                  *)
THEOREM VictimIsLruK == LruSpec => VictimFollowsLruK
<1> DEFINE Follows == \A f \in Frame : Victim(f) => IsLruKVictim(f)
<1>1. LruInv => [Follows]_lruVars
  <2> SUFFICES ASSUME LruInv, NEW f \in Frame, Victim(f) PROVE IsLruKVictim(f)
    OBVIOUS
  <2>1. f \in evictable /\ f = PickVictimInternal
    BY VictimIsEvictable DEF Victim
  <2> QED
    BY <2>1, VictimIsBest, BestIsLruK
<1> QED
  BY <1>1, LruInvHolds, PTL DEF VictimFollowsLruK

(* The replacer does what the buffer pool is written against: Victim takes *)
(* some frame that may be evicted, and fails only when there is none.      *)
THEOREM Refinement == LruSpec => ImplementsReplacer
<1>1. LruInit => AnyReplacer!Init
  BY DEF LruInit, AnyReplacer!Init
<1>2. LruInv /\ [LruNext]_lruVars => [AnyReplacer!Next]_(AnyReplacer!vars)
  <2> SUFFICES ASSUME LruInv, [LruNext]_lruVars PROVE [AnyReplacer!Next]_(AnyReplacer!vars)
    OBVIOUS
  <2> USE DEF AnyReplacer!Next, AnyReplacer!vars
  <2>1. ASSUME NEW f \in Frame, RecordAccess(f) PROVE UNCHANGED AnyReplacer!vars
    BY <2>1 DEF RecordAccess
  <2>2. ASSUME NEW f \in Frame, NEW isEvictable \in BOOLEAN,
               SetEvictable(f, isEvictable)
        PROVE  AnyReplacer!SetEvictable(f, isEvictable)
    BY <2>2 DEF SetEvictable, AnyReplacer!SetEvictable
  <2>3. ASSUME NEW f \in Frame, Victim(f) PROVE AnyReplacer!Victim(f)
    BY <2>3, VictimIsEvictable DEF Victim, Forget, AnyReplacer!Victim
  <2>4. ASSUME NEW f \in Frame, RemoveFrame(f)
        PROVE  AnyReplacer!SetEvictable(f, FALSE)
    BY <2>4 DEF RemoveFrame, Forget, AnyReplacer!SetEvictable
  <2>5. ASSUME VictimFails PROVE AnyReplacer!VictimFails
    <3>1. CASE evictable_size = 0
      <4>1. evictable = {}
        <5>1. evictable \in SUBSET Frame /\ Cardinality(evictable) = 0
          BY <3>1 DEF LruInv, SizeCountsEvictable, LruTypeOK
        <5>2. IsFiniteSet(Frame)
          BY FS_Interval, ReplacerConstants DEF Frame
        <5>3. IsFiniteSet(evictable)
          BY <5>1, <5>2, FS_Subset
        <5> QED
          BY <5>1, <5>3, FS_EmptySet
      <4> QED
        BY <2>5, <4>1 DEF VictimFails, AnyReplacer!VictimFails
    <3>2. CASE PickVictimInternal = NoFrame
      <4>1. evictable \subseteq Frame /\ NoFrame \notin Frame
        BY ReplacerConstants DEF LruInv, SizeCountsEvictable, LruTypeOK, Frame, NoFrame
      <4>2. evictable = {}
        BY <3>2, <4>1, VictimIsBest DEF Best
      <4> QED
        BY <2>5, <4>2 DEF VictimFails, AnyReplacer!VictimFails
    <3> QED
      BY <2>5, <3>1, <3>2 DEF VictimFails
  <2>6. CASE UNCHANGED lruVars
    BY <2>6 DEF lruVars
  <2> QED
    BY <2>1, <2>2, <2>3, <2>4, <2>5, <2>6 DEF LruNext
<1> QED
  BY <1>1, <1>2, LruInvHolds, PTL DEF LruSpec, ImplementsReplacer, AnyReplacer!Spec

-------------------------------------------------------------------------------
(* Numbers and sequences. *)

Increasing(s) == \A i, j \in 1 .. Len(s) : i < j => s[i] < s[j]
Distinct(s) == \A i, j \in 1 .. Len(s) : s[i] = s[j] => i = j

(* A set of positions that has all before each of its own is counted by    *)
(* its last.                                                               *)
LEMMA FirstPositions ==
  ASSUME NEW n \in Nat, NEW I \in SUBSET (1 .. n),
         \A i \in I : \A j \in 1 .. i : j \in I
  PROVE  /\ Cardinality(I) \in 0 .. n
         /\ I = 1 .. Cardinality(I)
<1> DEFINE N == (Nat \ {0}) \ I
<1>1. n + 1 \in N
  OBVIOUS
<1>2. PICK x \in N : \A y \in N : ~ (<<y, x>> \in OpToRel(<, Nat))
  <2>1. N \in SUBSET Nat
    OBVIOUS
  <2> QED
    BY <1>1, <2>1, NatLessThanWellFounded, WFMin
<1>3. \A y \in N : ~ (y < x)
  <2> SUFFICES ASSUME NEW y \in N, y < x PROVE FALSE
    OBVIOUS
  <2>1. <<y, x>> \in OpToRel(<, Nat)
    BY DEF OpToRel
  <2> QED
    BY <1>2, <2>1
<1>4. x \in Nat \ {0} /\ x \notin I
  BY <1>2
<1>5. \A j \in 1 .. x - 1 : j \in I
  BY <1>3, <1>4
<1>6. \A i \in I : i <= x - 1
  <2> SUFFICES ASSUME NEW i \in I, i > x - 1 PROVE FALSE
    BY <1>4
  <2>1. i \in Nat /\ x \in 1 .. i
    BY <1>4
  <2> QED
    BY <2>1, <1>4
<1>7. I = 1 .. x - 1
  <2>1. \A i \in I : i \in 1 .. n
    OBVIOUS
  <2>2. I \subseteq 1 .. x - 1
    BY <1>6, <2>1
  <2> QED
    BY <1>5, <2>2
<1>8. x - 1 \in 0 .. n
  <2>1. x - 1 > 0 => x - 1 \in I
    BY <1>4, <1>5
  <2> QED
    BY <2>1, <1>4
<1>9. Cardinality(I) = x - 1
  BY <1>7, <1>8, FS_Interval
<1> QED
  BY <1>7, <1>8, <1>9

LEMMA InsertAtIs ==
  ASSUME NEW S, NEW s \in Seq(S), NEW i \in 1 .. Len(s) + 1, NEW e \in S
  PROVE  /\ InsertAt(s, i, e) \in Seq(S)
         /\ Len(InsertAt(s, i, e)) = Len(s) + 1
         /\ \A j \in 1 .. Len(s) + 1 :
              InsertAt(s, i, e)[j] = IF j < i THEN s[j] ELSE IF j = i THEN e ELSE s[j - 1]
         /\ ToSet(InsertAt(s, i, e)) = ToSet(s) \cup {e}
<1> DEFINE a == SubSeq(s, 1, i - 1)
           b == SubSeq(s, i, Len(s))
           r == InsertAt(s, i, e)
<1>1. Len(s) \in Nat
  OBVIOUS
<1>2. a \in Seq(S) /\ Len(a) = i - 1 /\ \A j \in 1 .. i - 1 : a[j] = s[j]
  BY <1>1, SubSeqProperties
<1>3. b \in Seq(S) /\ Len(b) = Len(s) - i + 1 /\ \A j \in 1 .. Len(s) - i + 1 : b[j] = s[i + j - 1]
  BY <1>1, SubSeqProperties
<1>4. <<e>> \in Seq(S) /\ Len(<<e>>) = 1 /\ <<e>>[1] = e
  OBVIOUS
<1> HIDE DEF a, b
<1>5. /\ a \o <<e>> \in Seq(S) /\ Len(a \o <<e>>) = i
      /\ \A j \in 1 .. i : (a \o <<e>>)[j] = IF j < i THEN s[j] ELSE e
  BY <1>2, <1>4, ConcatProperties
<1>6. r = (a \o <<e>>) \o b
  BY DEF InsertAt, a, b
<1>7. /\ r \in Seq(S) /\ Len(r) = Len(s) + 1
      /\ \A j \in 1 .. Len(s) + 1 :
            r[j] = IF j < i THEN s[j] ELSE IF j = i THEN e ELSE s[j - 1]
  BY <1>1, <1>3, <1>5, <1>6, ConcatProperties
<1> HIDE DEF r
<1>8. ToSet(r) = ToSet(s) \cup {e}
  <2>1. \A j \in 1 .. Len(s) + 1 : r[j] \in ToSet(s) \cup {e}
    BY <1>1, <1>7 DEF ToSet
  <2>2. r[i] = e /\ \A j \in 1 .. Len(s) : s[j] = IF j < i THEN r[j] ELSE r[j + 1]
    BY <1>1, <1>7
  <2>3. DOMAIN r = 1 .. Len(s) + 1 /\ DOMAIN s = 1 .. Len(s)
    BY <1>1, <1>7
  <2>4. \A j \in 1 .. Len(s) : s[j] \in ToSet(r)
    BY <2>2, <2>3, <1>1 DEF ToSet
  <2>5. e \in ToSet(r)
    BY <2>2, <2>3, <1>1 DEF ToSet
  <2> QED
    BY <2>1, <2>3, <2>4, <2>5 DEF ToSet
<1> QED
  BY <1>7, <1>8 DEF r

LEMMA InsertAtHas ==
  \A S : \A s \in Seq(S) : \A i \in 1 .. Len(s) + 1 : \A e \in S :
    /\ InsertAt(s, i, e) \in Seq(S)
    /\ Len(InsertAt(s, i, e)) = Len(s) + 1
    /\ \A j \in 1 .. Len(s) + 1 :
         InsertAt(s, i, e)[j] = IF j < i THEN s[j] ELSE IF j = i THEN e ELSE s[j - 1]
BY InsertAtIs

LEMMA RemoveAtIs ==
  ASSUME NEW S, NEW s \in Seq(S), NEW i \in 1 .. Len(s)
  PROVE  /\ RemoveAt(s, i) \in Seq(S)
         /\ Len(RemoveAt(s, i)) = Len(s) - 1
         /\ \A j \in 1 .. Len(s) - 1 :
              RemoveAt(s, i)[j] = IF j < i THEN s[j] ELSE s[j + 1]
         /\ Distinct(s) => ToSet(RemoveAt(s, i)) = ToSet(s) \ {s[i]}
<1> DEFINE a == SubSeq(s, 1, i - 1)
           b == SubSeq(s, i + 1, Len(s))
           r == RemoveAt(s, i)
<1>1. Len(s) \in Nat
  OBVIOUS
<1>2. a \in Seq(S) /\ Len(a) = i - 1 /\ \A j \in 1 .. i - 1 : a[j] = s[j]
  BY <1>1, SubSeqProperties
<1>3. b \in Seq(S) /\ Len(b) = Len(s) - i /\ \A j \in 1 .. Len(s) - i : b[j] = s[i + j]
  BY <1>1, SubSeqProperties
<1> HIDE DEF a, b
<1>6. r = a \o b
  BY DEF RemoveAt, a, b
<1>5. /\ r \in Seq(S) /\ Len(r) = (i - 1) + (Len(s) - i)
      /\ \A j \in 1 .. (i - 1) + (Len(s) - i) : r[j] = IF j <= i - 1 THEN a[j] ELSE b[j - (i - 1)]
  <2>1. /\ r \in Seq(S) /\ Len(r) = Len(a) + Len(b)
        /\ \A j \in 1 .. Len(a) + Len(b) : r[j] = IF j <= Len(a) THEN a[j] ELSE b[j - Len(a)]
    <3>1. /\ a \o b \in Seq(S) /\ Len(a \o b) = Len(a) + Len(b)
          /\ \A j \in 1 .. Len(a) + Len(b) : (a \o b)[j] = IF j <= Len(a) THEN a[j] ELSE b[j - Len(a)]
      BY <1>2, <1>3, ConcatProperties, Zenon
    <3> QED
      BY <3>1, <1>6, Zenon
  <2> QED
    BY <2>1, <1>2, <1>3
<1>7. /\ r \in Seq(S) /\ Len(r) = Len(s) - 1
      /\ \A j \in 1 .. Len(s) - 1 : r[j] = IF j < i THEN s[j] ELSE s[j + 1]
  <2>1. (i - 1) + (Len(s) - i) = Len(s) - 1
    BY <1>1
  <2>2. ASSUME NEW j \in 1 .. Len(s) - 1 PROVE r[j] = IF j < i THEN s[j] ELSE s[j + 1]
    <3>1. CASE j < i
      BY <1>1, <1>2, <1>5, <3>1
    <3>2. CASE j >= i
      <4>1. r[j] = b[j - (i - 1)] /\ j - (i - 1) \in 1 .. Len(s) - i
        BY <1>1, <1>5, <2>1, <3>2
      <4>2. i + (j - (i - 1)) = j + 1
        BY <1>1
      <4> QED
        BY <1>3, <3>2, <4>1, <4>2
    <3> QED
      BY <3>1, <3>2
  <2> QED
    BY <1>5, <2>1, <2>2
<1> HIDE DEF r
<1>8. ASSUME Distinct(s) PROVE ToSet(r) = ToSet(s) \ {s[i]}
  <2>1. DOMAIN r = 1 .. Len(s) - 1 /\ DOMAIN s = 1 .. Len(s)
    BY <1>1, <1>7
  <2>2. ASSUME NEW j \in 1 .. Len(s) - 1 PROVE r[j] \in ToSet(s) /\ r[j] # s[i]
    <3>1. PICK h \in 1 .. Len(s) : h # i /\ r[j] = s[h]
      BY <1>1, <1>7, SMTT(15)
    <3> QED
      BY <1>8, <2>1, <3>1 DEF ToSet, Distinct
  <2>3. \A j \in 1 .. Len(s) : j # i => s[j] = IF j < i THEN r[j] ELSE r[j - 1]
    BY <1>1, <1>7
  <2>4. \A j \in 1 .. Len(s) : j # i => s[j] \in ToSet(r)
    BY <2>1, <2>3, <1>1, SMTT(20) DEF ToSet
  <2> QED
    BY <2>1, <2>2, <2>4 DEF ToSet
<1> QED
  BY <1>7, <1>8 DEF r

LEMMA Members ==
  ASSUME NEW S, NEW s \in Seq(S)
  PROVE  /\ \A x : Contains(s, x) <=> x \in ToSet(s)
         /\ \A x : x \in ToSet(s) <=> \E i \in 1 .. Len(s) : s[i] = x
         /\ ToSet(s) \subseteq S
<1>1. DOMAIN s = 1 .. Len(s)
  OBVIOUS
<1> QED
  BY <1>1 DEF Contains, ToSet

LEMMA SetsOfFew ==
  /\ \A a : ToSet(<<a>>) = {a}
  /\ \A a, b : ToSet(<<a, b>>) = {a, b}
<1>1. ASSUME NEW a PROVE ToSet(<<a>>) = {a}
  <2>1. DOMAIN <<a>> = {1} /\ <<a>>[1] = a
    OBVIOUS
  <2> QED
    BY <2>1 DEF ToSet
<1>2. ASSUME NEW a, NEW b PROVE ToSet(<<a, b>>) = {a, b}
  <2>1. DOMAIN <<a, b>> = {1, 2} /\ <<a, b>>[1] = a /\ <<a, b>>[2] = b
    OBVIOUS
  <2> QED
    BY <2>1 DEF ToSet
<1> QED
  BY <1>1, <1>2

LEMMA SmallSeqs ==
  ASSUME NEW S, NEW a \in S, NEW b \in S
  PROVE  /\ <<>> \in Seq(S) /\ Len(<<>>) = 0 /\ ToSet(<<>>) = {}
         /\ <<a>> \in Seq(S) /\ Len(<<a>>) = 1 /\ <<a>>[1] = a /\ ToSet(<<a>>) = {a}
         /\ <<a, b>> \in Seq(S) /\ Len(<<a, b>>) = 2 /\ <<a, b>>[1] = a /\ <<a, b>>[2] = b
         /\ ToSet(<<a, b>>) = {a, b}
<1>1. /\ <<>> \in Seq(S) /\ Len(<<>>) = 0
      /\ <<a>> \in Seq(S) /\ Len(<<a>>) = 1 /\ <<a>>[1] = a
      /\ <<a, b>> \in Seq(S) /\ Len(<<a, b>>) = 2 /\ <<a, b>>[1] = a /\ <<a, b>>[2] = b
  OBVIOUS
<1>2. ToSet(<<>>) = {}
  BY DEF ToSet
<1> QED
  BY <1>1, <1>2, SetsOfFew

LEMMA KeysAreNumbers ==
  ASSUME BPlusTreeConstants, NEW s \in Seq(Key)
  PROVE  /\ Len(s) \in Nat /\ DOMAIN s = 1 .. Len(s)
         /\ \A j \in 1 .. Len(s) : s[j] \in Key /\ s[j] \in Nat
<1>1. Key \subseteq Nat
  BY DEF BPlusTreeConstants
<1>2. \A j \in 1 .. Len(s) : s[j] \in Key
  OBVIOUS
<1>3. Len(s) \in Nat /\ DOMAIN s = 1 .. Len(s)
  OBVIOUS
<1>4. \A j \in 1 .. Len(s) : s[j] \in Nat
  BY <1>1, <1>2
<1> QED
  BY <1>2, <1>3, <1>4

LEMMA KeyIndexIs ==
  ASSUME BPlusTreeConstants, NEW n, n.keys \in Seq(Key), Increasing(n.keys), NEW k \in Key
  PROVE  /\ KeyIndex(n, k) \in 1 .. Len(n.keys) + 1
         /\ \A j \in 1 .. KeyIndex(n, k) - 1 : n.keys[j] < k
         /\ \A j \in KeyIndex(n, k) .. Len(n.keys) : k <= n.keys[j]
         /\ k \in ToSet(n.keys) =>
              KeyIndex(n, k) <= Len(n.keys) /\ n.keys[KeyIndex(n, k)] = k
<1> DEFINE I == {i \in DOMAIN n.keys : n.keys[i] < k}
<1>1. DOMAIN n.keys = 1 .. Len(n.keys) /\ Len(n.keys) \in Nat
      /\ k \in Nat /\ \A j \in 1 .. Len(n.keys) : n.keys[j] \in Nat
  <2>1. k \in Nat
    BY DEF BPlusTreeConstants
  <2> QED
    BY <2>1, KeysAreNumbers
<1>2. ASSUME NEW i \in I, NEW j \in 1 .. i PROVE j \in I
  <2>1. i \in 1 .. Len(n.keys) /\ j \in 1 .. Len(n.keys) /\ n.keys[i] < k
    BY <1>1
  <2>2. j = i \/ n.keys[j] < n.keys[i]
    BY <2>1, <1>1 DEF Increasing
  <2> QED
    BY <2>1, <2>2, <1>1
<1>3. I \in SUBSET (1 .. Len(n.keys))
  BY <1>1
<1>4. Cardinality(I) \in 0 .. Len(n.keys) /\ I = 1 .. Cardinality(I)
  <2> HIDE DEF I
  <2> QED
    BY <1>1, <1>2, <1>3, FirstPositions
<1>5. KeyIndex(n, k) = Cardinality(I) + 1
  BY DEF KeyIndex
<1>6. \A j \in 1 .. Len(n.keys) : n.keys[j] < k <=> j \in 1 .. Cardinality(I)
  BY <1>1, <1>4
<1> HIDE DEF I
<1>7. ASSUME k \in ToSet(n.keys)
      PROVE  KeyIndex(n, k) <= Len(n.keys) /\ n.keys[KeyIndex(n, k)] = k
  <2>1. PICK i \in 1 .. Len(n.keys) : n.keys[i] = k
    BY <1>7, Members
  <2>2. i >= KeyIndex(n, k)
    BY <2>1, <1>1, <1>4, <1>5, <1>6
  <2>3. i = KeyIndex(n, k) \/ n.keys[KeyIndex(n, k)] < n.keys[i]
    BY <2>2, <1>4, <1>5, <1>1 DEF Increasing
  <2>4. ~ (n.keys[KeyIndex(n, k)] < k)
    BY <2>2, <1>1, <1>4, <1>5, <1>6
  <2> QED
    BY <2>1, <2>2, <2>3, <2>4, <1>1
<1> QED
  BY <1>1, <1>4, <1>5, <1>6, <1>7

(* Where Lookup goes on looking for a key. *)
LEMMA LookupIs ==
  ASSUME BPlusTreeConstants, NEW n, n.keys \in Seq(Key), Increasing(n.keys), NEW k \in Key
  PROVE  \E m \in 1 .. Len(n.keys) + 1 :
           /\ Lookup(n, k) = n.children[m]
           /\ \A j \in 1 .. m - 1 : n.keys[j] <= k
           /\ \A j \in m .. Len(n.keys) : k < n.keys[j]
<1> DEFINE I == {i \in DOMAIN n.keys : n.keys[i] <= k}
<1>1. DOMAIN n.keys = 1 .. Len(n.keys) /\ Len(n.keys) \in Nat
      /\ k \in Nat /\ \A j \in 1 .. Len(n.keys) : n.keys[j] \in Nat
  <2>1. k \in Nat
    BY DEF BPlusTreeConstants
  <2> QED
    BY <2>1, KeysAreNumbers
<1>2. ASSUME NEW i \in I, NEW j \in 1 .. i PROVE j \in I
  <2>1. i \in 1 .. Len(n.keys) /\ j \in 1 .. Len(n.keys) /\ n.keys[i] <= k
    BY <1>1
  <2>2. j = i \/ n.keys[j] < n.keys[i]
    BY <2>1, <1>1 DEF Increasing
  <2> QED
    BY <2>1, <2>2, <1>1
<1>3. I \in SUBSET (1 .. Len(n.keys))
  BY <1>1
<1>4. Cardinality(I) \in 0 .. Len(n.keys) /\ I = 1 .. Cardinality(I)
  <2> HIDE DEF I
  <2> QED
    BY <1>1, <1>2, <1>3, FirstPositions
<1>5. Lookup(n, k) = n.children[Cardinality(I) + 1]
  BY DEF Lookup
<1>6. \A j \in 1 .. Len(n.keys) : n.keys[j] <= k <=> j \in 1 .. Cardinality(I)
  BY <1>1, <1>4
<1> HIDE DEF I
<1> QED
  BY <1>1, <1>4, <1>5, <1>6

LEMMA InsertKeyIs ==
  ASSUME BPlusTreeConstants, NEW n \in Node, Increasing(n.keys),
         NEW k \in Key, k \notin ToSet(n.keys)
  PROVE  /\ InsertKey(n, k) = [n EXCEPT !.keys = InsertAt(n.keys, KeyIndex(n, k), k)]
         /\ InsertKey(n, k) \in Node /\ Increasing(InsertKey(n, k).keys)
         /\ Len(InsertKey(n, k).keys) = Len(n.keys) + 1
         /\ ToSet(InsertKey(n, k).keys) = ToSet(n.keys) \cup {k}
<1> DEFINE i == KeyIndex(n, k)
           s == n.keys
           r == InsertAt(s, i, k)
<1>1. s \in Seq(Key) /\ Len(s) \in Nat /\ \A j \in 1 .. Len(s) : s[j] \in Nat
  <2>1. n.keys \in Seq(Key)
    BY DEF Node
  <2> QED
    BY <2>1, KeysAreNumbers
<1>2. /\ i \in 1 .. Len(s) + 1 /\ k \in Nat
      /\ \A j \in 1 .. i - 1 : s[j] < k
      /\ \A j \in i .. Len(s) : k < s[j]
  <2>1. /\ i \in 1 .. Len(s) + 1 /\ k \in Nat
        /\ \A j \in 1 .. i - 1 : s[j] < k
        /\ \A j \in i .. Len(s) : k <= s[j]
    BY <1>1, KeyIndexIs DEF BPlusTreeConstants
  <2>2. \A j \in 1 .. Len(s) : s[j] # k
    BY <1>1, Members
  <2> HIDE DEF s, i
  <2> QED
    BY <1>1, <2>1, <2>2
<1>3. /\ r \in Seq(Key) /\ Len(r) = Len(s) + 1 /\ ToSet(r) = ToSet(s) \cup {k}
      /\ \A j \in 1 .. Len(s) + 1 : r[j] = IF j < i THEN s[j] ELSE IF j = i THEN k ELSE s[j - 1]
  <2> HIDE DEF s, i
  <2> QED
    BY <1>1, <1>2, InsertAtIs
<1>4. Increasing(r)
  <2> SUFFICES ASSUME NEW a \in 1 .. Len(r), NEW b \in 1 .. Len(r), a < b PROVE r[a] < r[b]
    BY DEF Increasing
  <2>1. \A x, y \in 1 .. Len(s) : x < y => s[x] < s[y]
    BY DEF Increasing
  <2> HIDE DEF s, i, r
  <2>2. a \in 1 .. Len(s) + 1 /\ b \in 1 .. Len(s) + 1
    BY <1>3
  <2>3. CASE b < i
    BY <2>1, <2>2, <2>3, <1>1, <1>2, <1>3
  <2>4. CASE b = i
    BY <2>2, <2>4, <1>1, <1>2, <1>3
  <2>5. CASE b > i /\ a < i
    <3>1. r[a] = s[a] /\ r[b] = s[b - 1] /\ a \in 1 .. Len(s) /\ b - 1 \in 1 .. Len(s) /\ a < b - 1
      BY <2>2, <2>5, <1>1, <1>2, <1>3
    <3> QED
      BY <3>1, <2>1
  <2>6. CASE b > i /\ a = i
    BY <2>2, <2>6, <1>1, <1>2, <1>3
  <2>7. CASE b > i /\ a > i
    <3>1. /\ r[a] = s[a - 1] /\ r[b] = s[b - 1] /\ a - 1 \in 1 .. Len(s) /\ b - 1 \in 1 .. Len(s)
          /\ a - 1 < b - 1
      BY <2>2, <2>7, <1>1, <1>2, <1>3
    <3> QED
      BY <3>1, <2>1
  <2> QED
    BY <2>2, <2>3, <2>4, <2>5, <2>6, <2>7, <1>1, <1>2
<1>5. InsertKey(n, k) = [n EXCEPT !.keys = r]
  BY DEF InsertKey
<1> HIDE DEF r
<1>6. [n EXCEPT !.keys = r] \in Node /\ [n EXCEPT !.keys = r].keys = r
  BY <1>3 DEF Node
<1> QED
  BY <1>3, <1>4, <1>5, <1>6 DEF r

LEMMA RemoveKeyIs ==
  ASSUME BPlusTreeConstants, NEW n \in Node, Increasing(n.keys),
         NEW k \in Key, k \in ToSet(n.keys)
  PROVE  /\ RemoveKey(n, k) = [n EXCEPT !.keys = RemoveAt(n.keys, KeyIndex(n, k))]
         /\ RemoveKey(n, k) \in Node /\ Increasing(RemoveKey(n, k).keys)
         /\ Len(RemoveKey(n, k).keys) = Len(n.keys) - 1
         /\ ToSet(RemoveKey(n, k).keys) = ToSet(n.keys) \ {k}
<1> DEFINE i == KeyIndex(n, k)
           s == n.keys
           r == RemoveAt(s, i)
<1>1. s \in Seq(Key) /\ Len(s) \in Nat /\ \A j \in 1 .. Len(s) : s[j] \in Nat
  <2>1. n.keys \in Seq(Key)
    BY DEF Node
  <2> QED
    BY <2>1, KeysAreNumbers
<1>2. i \in 1 .. Len(s) /\ s[i] = k
  BY <1>1, KeyIndexIs DEF BPlusTreeConstants
<1>3. Distinct(s)
  BY <1>1 DEF Increasing, Distinct
<1>4. /\ r \in Seq(Key) /\ Len(r) = Len(s) - 1 /\ ToSet(r) = ToSet(s) \ {k}
      /\ \A j \in 1 .. Len(s) - 1 : r[j] = IF j < i THEN s[j] ELSE s[j + 1]
  <2> HIDE DEF s, i
  <2> QED
    BY <1>1, <1>2, <1>3, RemoveAtIs
<1>5. Increasing(r)
  <2> SUFFICES ASSUME NEW a \in 1 .. Len(r), NEW b \in 1 .. Len(r), a < b PROVE r[a] < r[b]
    BY DEF Increasing
  <2>1. \A x, y \in 1 .. Len(s) : x < y => s[x] < s[y]
    BY DEF Increasing
  <2> HIDE DEF s, i, r
  <2>2. a \in 1 .. Len(s) - 1 /\ b \in 1 .. Len(s) - 1
    BY <1>4
  <2>3. PICK x \in 1 .. Len(s) : r[a] = s[x] /\ x = IF a < i THEN a ELSE a + 1
    BY <2>2, <1>1, <1>2, <1>4
  <2>4. PICK y \in 1 .. Len(s) : r[b] = s[y] /\ y = IF b < i THEN b ELSE b + 1
    BY <2>2, <1>1, <1>2, <1>4, SMTT(20)
  <2>5. x < y
    BY <2>2, <2>3, <2>4, <1>1, <1>2
  <2> QED
    BY <2>1, <2>3, <2>4, <2>5
<1>6. RemoveKey(n, k) = [n EXCEPT !.keys = r]
  BY DEF RemoveKey
<1> HIDE DEF r
<1>7. [n EXCEPT !.keys = r] \in Node /\ [n EXCEPT !.keys = r].keys = r
  BY <1>4 DEF Node
<1> QED
  BY <1>4, <1>5, <1>6, <1>7 DEF r

LEMMA FindChildIndexIs ==
  ASSUME NEW n, NEW S, n.children \in Seq(S), Distinct(n.children),
         NEW i \in 1 .. Len(n.children)
  PROVE  FindChildIndex(n, n.children[i]) = i
<1> DEFINE I == {j \in 1 .. Len(n.children) : n.children[j] = n.children[i]}
<1>1. I = {i}
  BY DEF Distinct
<1>2. FindChildIndex(n, n.children[i]) = IF I # {} THEN Min(I) ELSE 0
  BY DEF FindChildIndex, SelectInSeq
<1> HIDE DEF I
<1>3. Min({i}) = i
  BY DEF Min
<1> QED
  BY <1>1, <1>2, <1>3

-------------------------------------------------------------------------------
(* Trees of one and two levels. *)

Leaf(n, par, nxt) ==
  /\ n \in Node /\ n = NewLeaf(par, n.keys, nxt)
  /\ Increasing(n.keys) /\ Len(n.keys) <= LeafMax

(* Key x may be in the i-th of the leaves that keys s separate. *)
Fits(x, s, i) == /\ i > 1 => s[i - 1] <= x
                 /\ i <= Len(s) => x < s[i]

NextIn(c, i) == IF i < Len(c) THEN c[i + 1] ELSE INVALID_PAGE_ID

(* Pages c are a chain of leaves, and keys s separate what is in them.     *)
Leaves(ns, c, s, par) ==
  /\ c \in Seq(Page) /\ s \in Seq(Key) /\ Len(c) = Len(s) + 1
  /\ Distinct(c) /\ Increasing(s)
  /\ \A i \in 1 .. Len(c) :
       /\ c[i] \in DOMAIN ns /\ Leaf(ns[c[i]], par, NextIn(c, i))
       /\ \A x \in ToSet(ns[c[i]].keys) : Fits(x, s, i)

(* The root is a leaf, or one that has just been halved. *)
Empty(ns, r, k) == DOMAIN ns = {} /\ r = INVALID_PAGE_ID /\ k = Idle
Single(ns, r, k) ==
  DOMAIN ns = {r} /\ k = Idle /\ Leaves(ns, <<r>>, <<>>, INVALID_PAGE_ID)
Halved(ns, r, k) ==
  /\ DOMAIN ns = {r, k.new} /\ k = ParentTask(r, k.key, k.new)
  /\ Leaves(ns, <<r, k.new>>, <<k.key>>, INVALID_PAGE_ID)
  /\ Page \ DOMAIN ns # {}

(* The root has the leaves for children, or all but a new one. *)
Inner(ns, r, c, s) ==
  /\ r \in (DOMAIN ns) \cap Page /\ r \notin ToSet(c)
  /\ ns[r] = NewInternal(INVALID_PAGE_ID, s, c)
Full(ns, r, k, c, s) ==
  /\ Inner(ns, r, c, s) /\ DOMAIN ns = ToSet(c) \cup {r}
  /\ Leaves(ns, c, s, r) /\ Len(s) <= InternalMax
  /\ k = Idle \/ \E p \in DOMAIN ns : k = RebalanceTask(p)
Growing(ns, r, k, c, s, i) ==
  /\ Inner(ns, r, c, s) /\ DOMAIN ns = ToSet(c) \cup {r, k.new}
  /\ c \in Seq(Page) /\ s \in Seq(Key) /\ Len(c) = Len(s) + 1
  /\ Distinct(c) /\ Increasing(s) /\ Len(s) < InternalMax
  /\ i \in 1 .. Len(c) /\ k.new \in Page \ (ToSet(c) \cup {r}) /\ k.key \in Key
  /\ k = ParentTask(c[i], k.key, k.new)
  /\ Leaves(ns, InsertAt(c, i + 1, k.new), InsertAt(s, i, k.key), r)

Shape(ns, r, k) ==
  \/ Empty(ns, r, k) \/ Single(ns, r, k) \/ Halved(ns, r, k)
  \/ \E c, s : Full(ns, r, k, c, s)
  \/ \E c, s, i : Growing(ns, r, k, c, s, i)

TreeInv == header_root = root /\ Shape(nodes, root, task)

(* Few pages, so that no internal page splits; and pages that are needed   *)
(* can be had, except for rebalancing.                                     *)
TwoLevels == MaxPage <= InternalMax + 4 /\ GivesUp \subseteq {"rebalance"}

-------------------------------------------------------------------------------
(* Going down. *)

LEMMA FindLeafPageIs ==
  ASSUME NEW k, root \in PageId, DOMAIN nodes \subseteq Page,
         \A p \in DOMAIN nodes \ {root} : IsLeaf(nodes[p]),
         root \in DOMAIN nodes /\ ~ IsLeaf(nodes[root]) =>
           Lookup(nodes[root], k) \in DOMAIN nodes \ {root}
  PROVE  FindLeafPage(k) = IF root \notin DOMAIN nodes THEN INVALID_PAGE_ID
                           ELSE IF IsLeaf(nodes[root]) THEN root
                           ELSE Lookup(nodes[root], k)
<1> DEFINE Is(f) == f = [p \in PageId |->
                           IF p \notin DOMAIN nodes THEN INVALID_PAGE_ID
                           ELSE IF IsLeaf(nodes[p]) THEN p
                           ELSE f[Lookup(nodes[p], k)]]
           g == [p \in PageId |-> IF p \notin DOMAIN nodes THEN INVALID_PAGE_ID
                                  ELSE IF IsLeaf(nodes[p]) THEN p
                                  ELSE Lookup(nodes[root], k)]
           h == CHOOSE f : Is(f)
<1>1. DOMAIN nodes \subseteq PageId
  BY DEF PageId
<1>2. \A p \in PageId : g[p] = IF p \notin DOMAIN nodes THEN INVALID_PAGE_ID
                               ELSE IF IsLeaf(nodes[p]) THEN p
                               ELSE g[Lookup(nodes[p], k)]
  <2> SUFFICES ASSUME NEW p \in PageId, p \in DOMAIN nodes, ~ IsLeaf(nodes[p])
               PROVE  g[p] = g[Lookup(nodes[p], k)]
    OBVIOUS
  <2>1. p = root
    OBVIOUS
  <2> QED
    BY <1>1, <2>1
<1>3. Is(g)
  BY <1>2
<1>4. Is(h)
  BY <1>3
<1>5. FindLeafPage(k) = h[root]
  BY DEF FindLeafPage, Descend
<1> HIDE DEF h
<1>6. \A p \in PageId : h[p] = IF p \notin DOMAIN nodes THEN INVALID_PAGE_ID
                               ELSE IF IsLeaf(nodes[p]) THEN p
                               ELSE h[Lookup(nodes[p], k)]
  BY <1>4
<1> QED
  BY <1>1, <1>5, <1>6

LEMMA FindLeftMostLeafPageIs ==
  ASSUME root \in PageId, DOMAIN nodes \subseteq Page,
         \A p \in DOMAIN nodes \ {root} : IsLeaf(nodes[p]),
         root \in DOMAIN nodes /\ ~ IsLeaf(nodes[root]) =>
           nodes[root].children[1] \in DOMAIN nodes \ {root}
  PROVE  FindLeftMostLeafPage = IF root \notin DOMAIN nodes THEN INVALID_PAGE_ID
                                ELSE IF IsLeaf(nodes[root]) THEN root
                                ELSE nodes[root].children[1]
<1> DEFINE Is(f) == f = [p \in PageId |->
                           IF p \notin DOMAIN nodes THEN INVALID_PAGE_ID
                           ELSE IF IsLeaf(nodes[p]) THEN p
                           ELSE f[nodes[p].children[1]]]
           g == [p \in PageId |-> IF p \notin DOMAIN nodes THEN INVALID_PAGE_ID
                                  ELSE IF IsLeaf(nodes[p]) THEN p
                                  ELSE nodes[root].children[1]]
           h == CHOOSE f : Is(f)
<1>1. DOMAIN nodes \subseteq PageId
  BY DEF PageId
<1>2. \A p \in PageId : g[p] = IF p \notin DOMAIN nodes THEN INVALID_PAGE_ID
                               ELSE IF IsLeaf(nodes[p]) THEN p
                               ELSE g[nodes[p].children[1]]
  <2> SUFFICES ASSUME NEW p \in PageId, p \in DOMAIN nodes, ~ IsLeaf(nodes[p])
               PROVE  g[p] = g[nodes[p].children[1]]
    OBVIOUS
  <2>1. p = root
    OBVIOUS
  <2> QED
    BY <1>1, <2>1
<1>3. Is(g)
  BY <1>2
<1>4. Is(h)
  BY <1>3
<1>5. FindLeftMostLeafPage = h[root]
  BY DEF FindLeftMostLeafPage, Descend
<1> HIDE DEF h
<1>6. \A p \in PageId : h[p] = IF p \notin DOMAIN nodes THEN INVALID_PAGE_ID
                               ELSE IF IsLeaf(nodes[p]) THEN p
                               ELSE h[nodes[p].children[1]]
  BY <1>4
<1> QED
  BY <1>1, <1>5, <1>6

(* Whatever is under way, there is a chain of leaves, from the leftmost    *)
(* one on, and no page else but the root.                                  *)
Chained(ns, r, c, s) ==
  /\ \E par : Leaves(ns, c, s, par)
  /\ \/ r = c[1] /\ DOMAIN ns = ToSet(c)
     \/ /\ DOMAIN ns = ToSet(c) \cup {r} /\ r \in Page \ ToSet(c)
        /\ ~ IsLeaf(ns[r]) /\ ns[r].children[1] = c[1]

LEMMA ShapeChained ==
  ASSUME BPlusTreeConstants, NEW ns, NEW r, NEW k, Shape(ns, r, k)
  PROVE  Empty(ns, r, k) \/ \E c, s : Chained(ns, r, c, s)
<1>1. CASE Single(ns, r, k)
  <2>1. Leaves(ns, <<r>>, <<>>, INVALID_PAGE_ID) /\ <<r>>[1] = r /\ DOMAIN ns = {r}
    BY <1>1 DEF Single
  <2>2. ToSet(<<r>>) = {r}
    BY SetsOfFew
  <2> QED
    BY <2>1, <2>2 DEF Chained
<1>2. CASE Halved(ns, r, k)
  <2>1. /\ Leaves(ns, <<r, k.new>>, <<k.key>>, INVALID_PAGE_ID) /\ <<r, k.new>>[1] = r
        /\ DOMAIN ns = {r, k.new}
    BY <1>2 DEF Halved
  <2>2. ToSet(<<r, k.new>>) = {r, k.new}
    <3>1. \A a, b : a \in {a, b} /\ b \in {a, b}
      OBVIOUS
    <3>2. \A a, b : ToSet(<<a, b>>) = {a, b}
      BY <3>1, SmallSeqs, Zenon
    <3> QED
      BY <3>2
  <2> QED
    BY <2>1, <2>2 DEF Chained
<1>3. ASSUME NEW c, NEW s, Full(ns, r, k, c, s) PROVE Chained(ns, r, c, s)
  BY <1>3 DEF Full, Inner, NewInternal, IsLeaf, Chained
<1>4. ASSUME NEW c, NEW s, NEW i, Growing(ns, r, k, c, s, i)
      PROVE  Chained(ns, r, InsertAt(c, i + 1, k.new), InsertAt(s, i, k.key))
  <2> DEFINE d == InsertAt(c, i + 1, k.new)
  <2>1. /\ c \in Seq(Page) /\ i \in 1 .. Len(c) /\ k.new \in Page \ (ToSet(c) \cup {r})
        /\ Inner(ns, r, c, s) /\ DOMAIN ns = ToSet(c) \cup {r, k.new}
        /\ Leaves(ns, d, InsertAt(s, i, k.key), r)
    BY <1>4 DEF Growing
  <2>2. i + 1 \in 1 .. Len(c) + 1 /\ Len(c) \in Nat /\ k.new \in Page
    BY <2>1
  <2>3. ToSet(d) = ToSet(c) \cup {k.new} /\ d[1] = c[1]
    <3>1. /\ ToSet(d) = ToSet(c) \cup {k.new}
          /\ \A j \in 1 .. Len(c) + 1 :
               d[j] = IF j < i + 1 THEN c[j] ELSE IF j = i + 1 THEN k.new ELSE c[j - 1]
      BY <2>1, <2>2, InsertAtIs
    <3> QED
      BY <3>1, <2>1, <2>2
  <2> HIDE DEF d
  <2>4. /\ r \in Page \ ToSet(d) /\ ~ IsLeaf(ns[r]) /\ ns[r].children[1] = d[1]
    BY <2>1, <2>3 DEF Inner, NewInternal, IsLeaf
  <2>5. DOMAIN ns = ToSet(d) \cup {r}
    BY <2>1, <2>3
  <2> QED
    BY <2>1, <2>4, <2>5 DEF Chained, d
<1> QED
  BY <1>1, <1>2, <1>3, <1>4 DEF Shape

LEMMA ChainedPages ==
  ASSUME BPlusTreeConstants, NEW ns, NEW r, NEW c, NEW s, Chained(ns, r, c, s)
  PROVE  /\ DOMAIN ns \subseteq Page /\ r \in DOMAIN ns /\ ToSet(c) \subseteq DOMAIN ns
         /\ \A p \in DOMAIN ns : IsLeaf(ns[p]) <=> p \in ToSet(c)
         /\ \A p \in DOMAIN ns \ {r} : IsLeaf(ns[p])
         /\ Len(c) \in Nat \ {0} /\ c[1] \in ToSet(c)
         /\ IsLeaf(ns[r]) => r = c[1]
<1>1. PICK par : Leaves(ns, c, s, par)
  BY DEF Chained
<1>2. c \in Seq(Page) /\ s \in Seq(Key) /\ Len(c) = Len(s) + 1
  BY <1>1 DEF Leaves
<1>3. Len(c) \in Nat \ {0}
  BY <1>2
<1>4. ToSet(c) \subseteq Page /\ c[1] \in ToSet(c)
  BY <1>2, <1>3, Members
<1>5. \A p \in ToSet(c) : p \in DOMAIN ns /\ IsLeaf(ns[p])
  <2> SUFFICES ASSUME NEW p \in ToSet(c) PROVE p \in DOMAIN ns /\ IsLeaf(ns[p])
    OBVIOUS
  <2>1. PICK i \in 1 .. Len(c) : c[i] = p
    BY <1>2, Members
  <2>2. p \in DOMAIN ns /\ Leaf(ns[p], par, NextIn(c, i))
    BY <1>1, <2>1 DEF Leaves
  <2> QED
    BY <2>2 DEF Leaf, NewLeaf, IsLeaf
<1> QED
  BY <1>3, <1>4, <1>5 DEF Chained

(* Where a key is looked for is where it fits. *)
LEMMA FitsOnce ==
  ASSUME BPlusTreeConstants, NEW s \in Seq(Key), Increasing(s), NEW x \in Key,
         NEW i \in 1 .. Len(s) + 1, NEW j \in 1 .. Len(s) + 1, Fits(x, s, i), Fits(x, s, j)
  PROVE  i = j
<1>1. Len(s) \in Nat /\ x \in Nat /\ \A h \in 1 .. Len(s) : s[h] \in Nat
  <2>1. x \in Nat
    BY DEF BPlusTreeConstants
  <2> QED
    BY <2>1, KeysAreNumbers
<1>2. ASSUME NEW a \in 1 .. Len(s) + 1, NEW b \in 1 .. Len(s) + 1, Fits(x, s, a), Fits(x, s, b), a < b
      PROVE  FALSE
  <2>1. x < s[a] /\ s[b - 1] <= x /\ a \in 1 .. Len(s) /\ b - 1 \in 1 .. Len(s)
    BY <1>1, <1>2 DEF Fits
  <2>2. a = b - 1 \/ s[a] < s[b - 1]
    BY <1>1, <1>2, <2>1 DEF Increasing
  <2> QED
    BY <1>1, <2>1, <2>2
<1> QED
  BY <1>2

LEMMA Located ==
  ASSUME BPlusTreeConstants, NEW k \in Key, Shape(nodes, root, task), task = Idle,
         root # INVALID_PAGE_ID
  PROVE  \E c, s : /\ Chained(nodes, root, c, s)
                   /\ \/ Single(nodes, root, task) /\ c = <<root>> /\ s = <<>>
                      \/ Full(nodes, root, task, c, s)
                   /\ \E i \in 1 .. Len(c) : FindLeafPage(k) = c[i] /\ Fits(k, s, i)
<1>1. ~ Empty(nodes, root, task) /\ ~ Halved(nodes, root, task)
      /\ \A c, s, i : ~ Growing(nodes, root, task, c, s, i)
  BY DEF Empty, Halved, Growing, Idle, ParentTask
<1>2. CASE Single(nodes, root, task)
  <2>1. Leaves(nodes, <<root>>, <<>>, INVALID_PAGE_ID) /\ <<root>>[1] = root
    BY <1>2 DEF Single
  <2>2. Chained(nodes, root, <<root>>, <<>>)
    <3>1. ToSet(<<root>>) = {root}
      BY SetsOfFew
    <3> QED
      BY <2>1, <3>1, <1>2 DEF Chained, Single
  <2>3. FindLeafPage(k) = root
    <3>1. DOMAIN nodes = {root} /\ root \in Page /\ IsLeaf(nodes[root])
      <4>1. DOMAIN nodes = {root}
        BY <1>2 DEF Single
      <4>2. root \in Page /\ (IsLeaf(nodes[root]) <=> root \in ToSet(<<root>>))
        BY <2>2, <4>1, ChainedPages
      <4> QED
        BY <4>1, <4>2, SmallSeqs
    <3>2. root \in PageId
      BY <3>1 DEF PageId
    <3> QED
      BY <3>1, <3>2, FindLeafPageIs
  <2>4. Fits(k, <<>>, 1) /\ 1 \in 1 .. Len(<<root>>)
    BY DEF Fits
  <2> QED
    BY <1>2, <2>1, <2>2, <2>3, <2>4
<1>3. ASSUME NEW c, NEW s, Full(nodes, root, task, c, s)
      PROVE  \E i \in 1 .. Len(c) : FindLeafPage(k) = c[i] /\ Fits(k, s, i)
  <2>1. /\ Inner(nodes, root, c, s) /\ Leaves(nodes, c, s, root)
        /\ DOMAIN nodes = ToSet(c) \cup {root}
    BY <1>3 DEF Full
  <2>2. /\ nodes[root].keys = s /\ nodes[root].children = c /\ ~ IsLeaf(nodes[root])
        /\ root \in Page /\ root \notin ToSet(c) /\ root \in DOMAIN nodes
    BY <2>1 DEF Inner, NewInternal, IsLeaf
  <2>3. /\ c \in Seq(Page) /\ s \in Seq(Key) /\ Len(c) = Len(s) + 1 /\ Increasing(s)
    BY <2>1 DEF Leaves
  <2>4. PICK m \in 1 .. Len(s) + 1 :
           /\ Lookup(nodes[root], k) = c[m]
           /\ \A j \in 1 .. m - 1 : s[j] <= k
           /\ \A j \in m .. Len(s) : k < s[j]
    BY <2>2, <2>3, LookupIs
  <2>5. Fits(k, s, m)
    BY <2>3, <2>4 DEF Fits
  <2>6. Chained(nodes, root, c, s)
    BY <2>1, <2>2 DEF Chained
  <2>7. c[m] \in ToSet(c) /\ c[m] \in DOMAIN nodes \ {root}
    BY <2>2, <2>3, <2>1, Members
  <2>8. FindLeafPage(k) = c[m]
    <3>1. /\ DOMAIN nodes \subseteq Page /\ \A p \in DOMAIN nodes \ {root} : IsLeaf(nodes[p])
      BY <2>6, ChainedPages
    <3>2. root \in PageId
      BY <2>2 DEF PageId
    <3> QED
      BY <3>1, <3>2, <2>2, <2>4, <2>7, FindLeafPageIs
  <2> QED
    BY <2>3, <2>5, <2>8
<1>4. ASSUME NEW c, NEW s, Full(nodes, root, task, c, s) PROVE Chained(nodes, root, c, s)
  BY <1>4 DEF Full, Inner, NewInternal, IsLeaf, Chained
<1> QED
  BY <1>1, <1>2, <1>3, <1>4 DEF Shape

-------------------------------------------------------------------------------
(* Walking along the leaves. *)

LEMMA KeysFromIs ==
  ASSUME BPlusTreeConstants, NEW c, NEW s, Chained(nodes, root, c, s)
  PROVE  /\ KeysFrom(INVALID_PAGE_ID) = <<>>
         /\ \A i \in 1 .. Len(c) :
              KeysFrom(c[i]) = nodes[c[i]].keys \o KeysFrom(NextIn(c, i))
<1> DEFINE n == Len(c)
           keys(i) == nodes[c[i]].keys
           Goes(m, g) == /\ g \in [n - m + 1 .. n + 1 -> Seq(Key)] /\ g[n + 1] = <<>>
                         /\ \A j \in n - m + 1 .. n : g[j] = keys(j) \o g[j + 1]
<1>1. /\ DOMAIN nodes \subseteq Page /\ n \in Nat \ {0} /\ ToSet(c) \subseteq DOMAIN nodes
      /\ \A p \in DOMAIN nodes : IsLeaf(nodes[p]) <=> p \in ToSet(c)
  BY ChainedPages
<1>2. PICK par : Leaves(nodes, c, s, par)
  BY DEF Chained
<1>3. /\ c \in Seq(Page) /\ Distinct(c)
      /\ \A i \in 1 .. n : Leaf(nodes[c[i]], par, NextIn(c, i))
  BY <1>2 DEF Leaves
<1>4. \A i \in 1 .. n : keys(i) \in Seq(Key) /\ nodes[c[i]].next = NextIn(c, i)
  <2> SUFFICES ASSUME NEW i \in 1 .. n PROVE keys(i) \in Seq(Key) /\ nodes[c[i]].next = NextIn(c, i)
    OBVIOUS
  <2>1. nodes[c[i]] \in Node /\ nodes[c[i]] = NewLeaf(par, keys(i), NextIn(c, i))
    BY <1>3 DEF Leaf
  <2>2. NewLeaf(par, keys(i), NextIn(c, i)).next = NextIn(c, i)
    BY DEF NewLeaf
  <2> QED
    BY <2>1, <2>2 DEF Node
<1> HIDE DEF n, keys
<1>5. \E g : Goes(n, g)
  <2> DEFINE S == {m \in Nat : m <= n => \E g : Goes(m, g)}
  <2>1. 0 \in S
    <3> DEFINE e == [j \in n + 1 .. n + 1 |-> <<>>]
    <3>1. e \in [n - 0 + 1 .. n + 1 -> Seq(Key)] /\ e[n + 1] = <<>>
      <4>1. <<>> \in Seq(Key) /\ n - 0 + 1 = n + 1 /\ n + 1 \in n + 1 .. n + 1
        BY <1>1
      <4> QED
        BY <4>1
    <3>2. n - 0 + 1 .. n = {}
      BY <1>1
    <3> HIDE DEF e
    <3>3. Goes(0, e)
      BY <3>1, <3>2
    <3> HIDE DEF Goes
    <3> QED
      BY <3>3
  <2>2. ASSUME NEW m \in Nat, m \in S PROVE m + 1 \in S
    <3> SUFFICES ASSUME m + 1 <= n PROVE \E g : Goes(m + 1, g)
      <4> HIDE DEF Goes
      <4> QED
        OBVIOUS
    <3>1. PICK g : Goes(m, g)
      <4> HIDE DEF Goes
      <4> QED
        BY <2>2, <1>1
    <3> DEFINE a == n - (m + 1) + 1
               h == [j \in a .. n + 1 |-> IF j = a THEN keys(a) \o g[a + 1] ELSE g[j]]
    <3>2. a \in 1 .. n /\ a + 1 = n - m + 1 /\ a = n - m
      BY <1>1
    <3>3. /\ g \in [a + 1 .. n + 1 -> Seq(Key)] /\ g[n + 1] = <<>>
          /\ \A j \in a + 1 .. n : g[j] = keys(j) \o g[j + 1]
      BY <3>1, <3>2
    <3> HIDE DEF a
    <3>4. keys(a) \in Seq(Key) /\ g[a + 1] \in Seq(Key)
      <4>1. a + 1 \in a + 1 .. n + 1
        BY <1>1, <3>2
      <4> QED
        BY <1>4, <3>2, <3>3, <4>1
    <3>5. keys(a) \o g[a + 1] \in Seq(Key)
      BY <3>4, ConcatProperties
    <3>6. h \in [a .. n + 1 -> Seq(Key)]
      <4>1. \A j \in a .. n + 1 : h[j] \in Seq(Key)
        BY <1>1, <3>2, <3>3, <3>5
      <4> QED
        BY <4>1
    <3>7. h[n + 1] = <<>>
      <4> QED
        BY <1>1, <3>2, <3>3
    <3>8. \A j \in a .. n : h[j] = keys(j) \o h[j + 1]
      <4>1. h[a] = keys(a) \o g[a + 1] /\ \A j \in a + 1 .. n + 1 : h[j] = g[j]
        <5>1. a \in a .. n + 1 /\ \A j \in a + 1 .. n + 1 : j \in a .. n + 1 /\ j # a
          BY <1>1, <3>2
        <5> QED
          BY <5>1
      <4> HIDE DEF h
      <4> SUFFICES ASSUME NEW j \in a .. n PROVE h[j] = keys(j) \o h[j + 1]
        OBVIOUS
      <4>2. CASE j = a
        <5>1. a + 1 \in a + 1 .. n + 1
          BY <1>1, <3>2
        <5> QED
          BY <4>1, <4>2, <5>1
      <4>3. CASE j # a
        <5>1. j \in a + 1 .. n /\ j \in a + 1 .. n + 1 /\ j + 1 \in a + 1 .. n + 1
          BY <1>1, <3>2, <4>3
        <5> QED
          BY <3>3, <4>1, <5>1
      <4> QED
        BY <4>2, <4>3
    <3> HIDE DEF h
    <3>9. Goes(m + 1, h)
      BY <3>6, <3>7, <3>8 DEF a
    <3> QED
      BY <3>9
  <2>3. Nat \subseteq S
    <3>1. \A m \in Nat : m \in S => m + 1 \in S
      BY <2>2
    <3> HIDE DEF S
    <3> QED
      BY <2>1, <3>1, AllNumbers
  <2>4. n \in S
    BY <1>1, <2>3
  <2> HIDE DEF Goes
  <2> QED
    BY <2>4, <1>1
<1>6. PICK g : /\ g \in [1 .. n + 1 -> Seq(Key)] /\ g[n + 1] = <<>>
               /\ \A j \in 1 .. n : g[j] = keys(j) \o g[j + 1]
  <2>1. PICK g : Goes(n, g)
    BY <1>5
  <2>2. n - n + 1 = 1
    BY <1>1
  <2> QED
    BY <2>1, <2>2
<1> HIDE DEF Goes
<1> DEFINE at(q) == CHOOSE i \in 1 .. n : c[i] = q
           Is(f) == f = [q \in PageId |->
                           IF q \notin DOMAIN nodes THEN <<>>
                           ELSE IF ~ IsLeaf(nodes[q]) THEN <<>>
                           ELSE nodes[q].keys \o f[nodes[q].next]]
           w == [q \in PageId |-> IF q \in ToSet(c) THEN g[at(q)] ELSE <<>>]
           h == CHOOSE f : Is(f)
<1>7. /\ DOMAIN nodes \subseteq PageId /\ INVALID_PAGE_ID \in PageId
      /\ INVALID_PAGE_ID \notin DOMAIN nodes /\ INVALID_PAGE_ID \notin ToSet(c)
  BY <1>1, BPlusTreeConstants DEF PageId, Page, INVALID_PAGE_ID, BPlusTreeConstants
<1>8. \A i \in 1 .. n : c[i] \in ToSet(c) /\ at(c[i]) = i
  <2> SUFFICES ASSUME NEW i \in 1 .. n PROVE c[i] \in ToSet(c) /\ at(c[i]) = i
    OBVIOUS
  <2>1. c[i] \in ToSet(c)
    BY <1>3, Members DEF n
  <2>2. at(c[i]) \in 1 .. n /\ c[at(c[i])] = c[i]
    OBVIOUS
  <2> QED
    BY <2>1, <2>2, <1>3 DEF Distinct, n
<1> HIDE DEF at
<1>9. w[INVALID_PAGE_ID] = <<>> /\ \A i \in 1 .. n : w[c[i]] = g[i]
  BY <1>1, <1>7, <1>8
<1>10. \A i \in 1 .. n : w[NextIn(c, i)] = g[i + 1]
  <2> SUFFICES ASSUME NEW i \in 1 .. n PROVE w[NextIn(c, i)] = g[i + 1]
    OBVIOUS
  <2> HIDE DEF w
  <2>1. CASE i < n
    BY <1>1, <1>9, <2>1 DEF NextIn, n
  <2>2. CASE i = n
    BY <1>1, <1>6, <1>9, <2>2 DEF NextIn, n
  <2> QED
    BY <1>1, <2>1, <2>2
<1>11. \A q \in PageId : w[q] = IF q \notin DOMAIN nodes THEN <<>>
                                ELSE IF ~ IsLeaf(nodes[q]) THEN <<>>
                                ELSE nodes[q].keys \o w[nodes[q].next]
  <2> SUFFICES ASSUME NEW q \in PageId
               PROVE  w[q] = IF q \notin DOMAIN nodes THEN <<>>
                             ELSE IF ~ IsLeaf(nodes[q]) THEN <<>>
                             ELSE nodes[q].keys \o w[nodes[q].next]
    OBVIOUS
  <2>1. CASE q \notin ToSet(c)
    BY <1>1, <2>1
  <2>2. CASE q \in ToSet(c)
    <3>1. PICK i \in 1 .. n : c[i] = q
      BY <1>3, <2>2, Members DEF n
    <3> HIDE DEF w
    <3>2. w[q] = keys(i) \o w[nodes[q].next]
      BY <1>4, <1>6, <1>9, <1>10, <3>1
    <3>3. keys(i) = nodes[q].keys
      BY <3>1 DEF keys
    <3> QED
      BY <1>1, <2>2, <3>1, <3>2, <3>3
  <2> QED
    BY <2>1, <2>2
<1>12. Is(w)
  <2>1. w = [q \in PageId |-> w[q]]
    OBVIOUS
  <2> QED
    BY <2>1, <1>11
<1>13. Is(h)
  <2> HIDE DEF w
  <2> QED
    BY <1>12
<1>14. \A p : KeysFrom(p) = h[p]
  BY DEF KeysFrom
<1> HIDE DEF h
<1>15. \A q \in PageId : h[q] = IF q \notin DOMAIN nodes THEN <<>>
                                ELSE IF ~ IsLeaf(nodes[q]) THEN <<>>
                                ELSE nodes[q].keys \o h[nodes[q].next]
  BY <1>13
<1>16. h[INVALID_PAGE_ID] = <<>>
  BY <1>7, <1>15
<1>17. ASSUME NEW i \in 1 .. n PROVE h[c[i]] = nodes[c[i]].keys \o h[NextIn(c, i)]
  <2>1. c[i] \in DOMAIN nodes /\ IsLeaf(nodes[c[i]]) /\ c[i] \in PageId
    BY <1>1, <1>7, <1>8
  <2> QED
    BY <2>1, <1>4, <1>15
<1> QED
  BY <1>14, <1>16, <1>17 DEF n
LEMMA ConcatIs ==
  ASSUME NEW S, NEW a \in Seq(S), NEW b \in Seq(S)
  PROVE  /\ a \o b \in Seq(S) /\ Len(a \o b) = Len(a) + Len(b)
         /\ \A j \in 1 .. Len(a) + Len(b) :
              (a \o b)[j] = IF j <= Len(a) THEN a[j] ELSE b[j - Len(a)]
         /\ ToSet(a \o b) = ToSet(a) \cup ToSet(b)
<1> DEFINE r == a \o b
<1>1. Len(a) \in Nat /\ Len(b) \in Nat /\ DOMAIN a = 1 .. Len(a) /\ DOMAIN b = 1 .. Len(b)
  OBVIOUS
<1>2. /\ r \in Seq(S) /\ Len(r) = Len(a) + Len(b)
      /\ \A j \in 1 .. Len(a) + Len(b) : r[j] = IF j <= Len(a) THEN a[j] ELSE b[j - Len(a)]
  BY ConcatProperties
<1> HIDE DEF r
<1>3. DOMAIN r = 1 .. Len(a) + Len(b)
  BY <1>2
<1>4. \A j \in 1 .. Len(a) : a[j] = r[j] /\ j \in 1 .. Len(a) + Len(b)
  BY <1>1, <1>2
<1>5. \A j \in 1 .. Len(b) : b[j] = r[Len(a) + j] /\ Len(a) + j \in 1 .. Len(a) + Len(b)
  BY <1>1, <1>2
<1>6. \A j \in 1 .. Len(a) + Len(b) : r[j] \in ToSet(a) \cup ToSet(b)
  <2> SUFFICES ASSUME NEW j \in 1 .. Len(a) + Len(b) PROVE r[j] \in ToSet(a) \cup ToSet(b)
    OBVIOUS
  <2>1. CASE j <= Len(a)
    <3>1. j \in 1 .. Len(a) /\ r[j] = a[j]
      BY <1>1, <1>2, <2>1
    <3> QED
      BY <3>1, <1>1 DEF ToSet
  <2>2. CASE j > Len(a)
    <3>1. j - Len(a) \in 1 .. Len(b) /\ r[j] = b[j - Len(a)]
      BY <1>1, <1>2, <2>2
    <3> QED
      BY <3>1, <1>1 DEF ToSet
  <2> QED
    BY <1>1, <2>1, <2>2
<1>7. ToSet(r) = ToSet(a) \cup ToSet(b)
  BY <1>1, <1>3, <1>4, <1>5, <1>6, ZenonT(40) DEF ToSet
<1> QED
  BY <1>2, <1>7 DEF r

LEMMA ConcatIncreasing ==
  ASSUME BPlusTreeConstants, NEW a \in Seq(Key), NEW b \in Seq(Key),
         Increasing(a), Increasing(b), \A x \in ToSet(a), y \in ToSet(b) : x < y
  PROVE  Increasing(a \o b)
<1> DEFINE r == a \o b
<1>1. Len(a) \in Nat /\ Len(b) \in Nat
  OBVIOUS
<1>2. /\ Len(r) = Len(a) + Len(b)
      /\ \A j \in 1 .. Len(a) + Len(b) : r[j] = IF j <= Len(a) THEN a[j] ELSE b[j - Len(a)]
  BY ConcatIs
<1>3. /\ \A j \in 1 .. Len(a) : a[j] \in ToSet(a)
      /\ \A j \in 1 .. Len(b) : b[j] \in ToSet(b)
  BY Members
<1> HIDE DEF r
<1> SUFFICES ASSUME NEW i \in 1 .. Len(r), NEW j \in 1 .. Len(r), i < j PROVE r[i] < r[j]
  BY DEF Increasing, r
<1>4. CASE j <= Len(a)
  <2>1. i \in 1 .. Len(a) /\ j \in 1 .. Len(a) /\ r[i] = a[i] /\ r[j] = a[j]
    BY <1>1, <1>2, <1>4
  <2> QED
    BY <2>1 DEF Increasing
<1>5. CASE i > Len(a)
  <2>1. /\ i - Len(a) \in 1 .. Len(b) /\ j - Len(a) \in 1 .. Len(b) /\ i - Len(a) < j - Len(a)
        /\ r[i] = b[i - Len(a)] /\ r[j] = b[j - Len(a)]
    BY <1>1, <1>2, <1>5
  <2> QED
    BY <2>1 DEF Increasing
<1>6. CASE i <= Len(a) /\ j > Len(a)
  <2>1. i \in 1 .. Len(a) /\ j - Len(a) \in 1 .. Len(b) /\ r[i] = a[i] /\ r[j] = b[j - Len(a)]
    BY <1>1, <1>2, <1>6
  <2> QED
    BY <2>1, <1>3
<1> QED
  BY <1>1, <1>2, <1>4, <1>5, <1>6

(* The keys of a leaf are before those of the leaves behind it. *)
LEMMA LeavesInOrder ==
  ASSUME BPlusTreeConstants, NEW ns, NEW c, NEW s, NEW par, Leaves(ns, c, s, par),
         NEW i \in 1 .. Len(c), NEW j \in 1 .. Len(c), i < j,
         NEW x \in ToSet(ns[c[i]].keys), NEW y \in ToSet(ns[c[j]].keys)
  PROVE  x < y
<1>1. /\ s \in Seq(Key) /\ Len(c) = Len(s) + 1 /\ Increasing(s)
      /\ Fits(x, s, i) /\ Fits(y, s, j)
      /\ ns[c[i]] \in Node /\ ns[c[j]] \in Node
  BY DEF Leaves, Leaf
<1>2. x \in Nat /\ y \in Nat
  <2>1. x \in Key /\ y \in Key
    BY <1>1, Members DEF Node
  <2> QED
    BY <2>1 DEF BPlusTreeConstants
<1>3. Len(s) \in Nat /\ \A h \in 1 .. Len(s) : s[h] \in Nat
  BY <1>1, KeysAreNumbers
<1>4. x < s[i] /\ s[j - 1] <= y /\ i \in 1 .. Len(s) /\ j - 1 \in 1 .. Len(s)
  BY <1>1, <1>3 DEF Fits
<1>5. i = j - 1 \/ s[i] < s[j - 1]
  BY <1>1, <1>3, <1>4 DEF Increasing
<1> QED
  BY <1>2, <1>3, <1>4, <1>5

From(ns, c, i) == UNION {ToSet(ns[c[j]].keys) : j \in i .. Len(c)}

(* What is read from the i-th leaf on. *)
LEMMA SuffixIs ==
  ASSUME BPlusTreeConstants, NEW c, NEW s, Chained(nodes, root, c, s), NEW i \in 1 .. Len(c)
  PROVE  /\ KeysFrom(c[i]) \in Seq(Key) /\ Increasing(KeysFrom(c[i]))
         /\ ToSet(KeysFrom(c[i])) = From(nodes, c, i)
<1> DEFINE n == Len(c)
           KeyOf(j) == IF j = n + 1 THEN <<>> ELSE KeysFrom(c[j])
           Good(j) == KeyOf(j) \in Seq(Key) /\ Increasing(KeyOf(j)) /\ ToSet(KeyOf(j)) = From(nodes, c, j)
           S == {m \in Nat : m <= n => Good(n + 1 - m)}
<1>1. n \in Nat
  BY ChainedPages
<1>2. PICK par : Leaves(nodes, c, s, par)
  BY DEF Chained
<1>3. \A j \in 1 .. n : KeyOf(j) = nodes[c[j]].keys \o KeyOf(j + 1)
  <2> SUFFICES ASSUME NEW j \in 1 .. n PROVE KeyOf(j) = nodes[c[j]].keys \o KeyOf(j + 1)
    OBVIOUS
  <2>1. KeysFrom(INVALID_PAGE_ID) = <<>> /\ KeysFrom(c[j]) = nodes[c[j]].keys \o KeysFrom(NextIn(c, j))
    BY KeysFromIs, <1>1
  <2>2. j # n + 1 /\ (j < n => j + 1 # n + 1) /\ (~ (j < n) => j + 1 = n + 1)
    BY <1>1
  <2> QED
    BY <2>1, <2>2, <1>1 DEF NextIn
<1>4. \A j \in 1 .. n : nodes[c[j]].keys \in Seq(Key) /\ Increasing(nodes[c[j]].keys)
  BY <1>2 DEF Leaves, Leaf, Node
<1> HIDE DEF KeyOf
<1>5. KeyOf(n + 1) = <<>>
  BY DEF KeyOf
<1>6. 0 \in S
  <2>1. n + 1 - 0 = n + 1 /\ n + 1 .. n = {}
    BY <1>1
  <2>2. <<>> \in Seq(Key) /\ ToSet(<<>>) = {} /\ Increasing(<<>>)
    BY DEF ToSet, Increasing
  <2>3. From(nodes, c, n + 1) = {}
    BY <2>1 DEF From
  <2> QED
    BY <2>1, <2>2, <2>3, <1>5
<1>7. ASSUME NEW m \in Nat, m \in S PROVE m + 1 \in S
  <2> SUFFICES ASSUME m + 1 <= n PROVE Good(n + 1 - (m + 1))
    OBVIOUS
  <2> DEFINE j == n + 1 - (m + 1)
  <2>1. j \in 1 .. n /\ j + 1 = n + 1 - m /\ j .. n = {j} \cup j + 1 .. n /\ j \notin j + 1 .. n
    BY <1>1
  <2>2. Good(j + 1)
    BY <1>1, <1>7, <2>1
  <2>3. KeyOf(j) = nodes[c[j]].keys \o KeyOf(j + 1)
    BY <1>3, <2>1
  <2> HIDE DEF j
  <2>4. From(nodes, c, j) = ToSet(nodes[c[j]].keys) \cup From(nodes, c, j + 1)
    BY <2>1 DEF From
  <2>5. nodes[c[j]].keys \in Seq(Key) /\ Increasing(nodes[c[j]].keys)
    BY <1>4, <2>1
  <2>6. \A x \in ToSet(nodes[c[j]].keys), y \in ToSet(KeyOf(j + 1)) : x < y
    <3> SUFFICES ASSUME NEW x \in ToSet(nodes[c[j]].keys), NEW y \in From(nodes, c, j + 1) PROVE x < y
      BY <2>2
    <3>1. PICK h \in j + 1 .. n : y \in ToSet(nodes[c[h]].keys)
      BY DEF From
    <3>2. h \in 1 .. Len(c) /\ j \in 1 .. Len(c) /\ j < h
      BY <1>1, <2>1, <3>1
    <3> QED
      BY <1>2, <3>1, <3>2, LeavesInOrder
  <2>7. KeyOf(j) \in Seq(Key) /\ ToSet(KeyOf(j)) = From(nodes, c, j)
    BY <2>2, <2>3, <2>4, <2>5, ConcatIs
  <2>8. Increasing(KeyOf(j))
    BY <2>2, <2>3, <2>5, <2>6, ConcatIncreasing
  <2> QED
    BY <2>7, <2>8 DEF j
<1>8. Nat \subseteq S
  <2>1. \A m \in Nat : m \in S => m + 1 \in S
    BY <1>7
  <2> HIDE DEF S
  <2> QED
    BY <1>6, <2>1, AllNumbers
<1>9. Good(i)
  <2>1. n + 1 - i \in Nat /\ n + 1 - i <= n /\ n + 1 - (n + 1 - i) = i
    BY <1>1
  <2> QED
    BY <1>8, <2>1
<1>10. KeyOf(i) = KeysFrom(c[i])
  BY <1>1 DEF KeyOf
<1> QED
  BY <1>9, <1>10

Before(ns, c, i) == UNION {ToSet(ns[c[j]].keys) : j \in 1 .. i - 1}

(* What is read before the i-th leaf. *)
LEMMA PrefixIs ==
  ASSUME BPlusTreeConstants, NEW c, NEW s, Chained(nodes, root, c, s), NEW i \in 1 .. Len(c)
  PROVE  \E a \in Seq(Key) : /\ KeysFrom(c[1]) = a \o KeysFrom(c[i])
                             /\ ToSet(a) = Before(nodes, c, i)
<1> DEFINE n == Len(c)
           Good(j) == \E a \in Seq(Key) : /\ KeysFrom(c[1]) = a \o KeysFrom(c[j])
                                          /\ ToSet(a) = Before(nodes, c, j)
           S == {m \in Nat : m + 1 <= n => Good(m + 1)}
<1>1. n \in Nat \ {0}
  BY ChainedPages
<1>2. PICK par : Leaves(nodes, c, s, par)
  BY DEF Chained
<1>3. \A j \in 1 .. n : nodes[c[j]].keys \in Seq(Key) /\ KeysFrom(c[j]) \in Seq(Key)
  BY <1>2, SuffixIs DEF Leaves, Leaf, Node
<1>4. 0 \in S
  <2>1. <<>> \in Seq(Key) /\ ToSet(<<>>) = {} /\ KeysFrom(c[1]) = <<>> \o KeysFrom(c[1])
    <3>1. 1 \in 1 .. n
      BY <1>1
    <3>2. KeysFrom(c[1]) \in Seq(Key)
      BY <1>3, <3>1
    <3> QED
      BY <3>2, ConcatEmptySeq DEF ToSet
  <2>2. Before(nodes, c, 1) = {}
    <3>1. 1 .. 1 - 1 = {}
      OBVIOUS
    <3> QED
      BY <3>1 DEF Before
  <2>3. Good(1)
    BY <2>1, <2>2
  <2> HIDE DEF Good
  <2> QED
    BY <2>3
<1>5. ASSUME NEW m \in Nat, m \in S PROVE m + 1 \in S
  <2> SUFFICES ASSUME m + 1 + 1 <= n PROVE Good(m + 1 + 1)
    <3> HIDE DEF Good
    <3> QED
      OBVIOUS
  <2> DEFINE j == m + 1
  <2>1. j \in 1 .. n /\ j + 1 \in 1 .. n /\ j < n /\ 1 .. j + 1 - 1 = {j} \cup 1 .. j - 1
    BY <1>1
  <2>2. Good(j)
    <3> HIDE DEF Good
    <3> QED
      BY <1>1, <1>5, <2>1
  <2>3. KeysFrom(c[j]) = nodes[c[j]].keys \o KeysFrom(c[j + 1])
    BY KeysFromIs, <1>1, <2>1 DEF NextIn
  <2> HIDE DEF j
  <2>4. PICK a \in Seq(Key) : /\ KeysFrom(c[1]) = a \o KeysFrom(c[j])
                              /\ ToSet(a) = Before(nodes, c, j)
    BY <2>2
  <2>5. /\ nodes[c[j]].keys \in Seq(Key) /\ KeysFrom(c[j + 1]) \in Seq(Key)
    BY <1>3, <2>1
  <2>6. /\ KeysFrom(c[1]) = (a \o nodes[c[j]].keys) \o KeysFrom(c[j + 1])
    <3>1. a \o (nodes[c[j]].keys \o KeysFrom(c[j + 1]))
            = (a \o nodes[c[j]].keys) \o KeysFrom(c[j + 1])
      <4> DEFINE b == nodes[c[j]].keys
                 d == KeysFrom(c[j + 1])
      <4>1. b \in Seq(Key) /\ d \in Seq(Key) /\ a \in Seq(Key)
        BY <2>5
      <4> HIDE DEF b, d
      <4>2. (a \o b) \o d = a \o (b \o d)
        BY <4>1, ConcatAssociative
      <4> QED
        BY <4>2 DEF b, d
    <3> QED
      BY <3>1, <2>3, <2>4, Zenon
  <2>7. a \o nodes[c[j]].keys \in Seq(Key)
        /\ ToSet(a \o nodes[c[j]].keys) = ToSet(a) \cup ToSet(nodes[c[j]].keys)
    BY <2>5, ConcatIs
  <2>8. Before(nodes, c, j + 1) = Before(nodes, c, j) \cup ToSet(nodes[c[j]].keys)
    <3>1. \A h : h \in 1 .. (j + 1) - 1 <=> h = j \/ h \in 1 .. j - 1
      BY <2>1
    <3>2. ASSUME NEW x
          PROVE  x \in Before(nodes, c, j + 1)
                   <=> x \in Before(nodes, c, j) \/ x \in ToSet(nodes[c[j]].keys)
      <4>1. \A i_1 : x \in Before(nodes, c, i_1)
                       <=> \E h \in 1 .. i_1 - 1 : x \in ToSet(nodes[c[h]].keys)
        BY DEF Before
      <4>2. x \in Before(nodes, c, j + 1) <=> \E h \in 1 .. (j + 1) - 1 : x \in ToSet(nodes[c[h]].keys)
        BY <4>1, Zenon
      <4> QED
        BY <4>1, <4>2, <3>1
    <3> QED
      BY <3>2
  <2>9. Good(j + 1)
    BY <2>4, <2>6, <2>7, <2>8
  <2> QED
    BY <2>9 DEF j
<1>6. Nat \subseteq S
  <2>1. \A m \in Nat : m \in S => m + 1 \in S
    BY <1>5
  <2> HIDE DEF S
  <2> QED
    BY <1>4, <2>1, AllNumbers
<1>7. Good(i)
  <2>1. i - 1 \in Nat /\ i - 1 + 1 <= n /\ i - 1 + 1 = i
    BY <1>1
  <2> HIDE DEF Good
  <2>2. i - 1 \in S
    BY <2>1, <1>6
  <2> QED
    BY <2>1, <2>2
<1> QED
  BY <1>7

LeafKeys(ns) == UNION {ToSet(ns[p].keys) : p \in {q \in DOMAIN ns : IsLeaf(ns[q])}}

LEMMA ChainKeys ==
  ASSUME BPlusTreeConstants, NEW ns, NEW r, NEW c, NEW s, Chained(ns, r, c, s)
  PROVE  LeafKeys(ns) = UNION {ToSet(ns[c[i]].keys) : i \in 1 .. Len(c)}
<1>1. /\ ToSet(c) \subseteq DOMAIN ns
      /\ \A p \in DOMAIN ns : IsLeaf(ns[p]) <=> p \in ToSet(c)
  BY ChainedPages
<1>2. c \in Seq(Page)
  BY DEF Chained, Leaves
<1>3. \A p : p \in ToSet(c) <=> \E i \in 1 .. Len(c) : c[i] = p
  BY <1>2, Members
<1>4. {q \in DOMAIN ns : IsLeaf(ns[q])} = {c[i] : i \in 1 .. Len(c)}
  BY <1>1, <1>3
<1> QED
  BY <1>4 DEF LeafKeys

LEMMA NothingToRead ==
  ASSUME BPlusTreeConstants, DOMAIN nodes = {}, root = INVALID_PAGE_ID
  PROVE  /\ FindLeftMostLeafPage = INVALID_PAGE_ID
         /\ \A k : FindLeafPage(k) = INVALID_PAGE_ID
         /\ Scan = <<>>
<1>1. root \in PageId
  BY DEF PageId
<1>2. FindLeftMostLeafPage = INVALID_PAGE_ID /\ \A k : FindLeafPage(k) = INVALID_PAGE_ID
  BY <1>1, FindLeafPageIs, FindLeftMostLeafPageIs
<1> DEFINE Is(f) == f = [q \in PageId |->
                           IF q \notin DOMAIN nodes THEN <<>>
                           ELSE IF ~ IsLeaf(nodes[q]) THEN <<>>
                           ELSE nodes[q].keys \o f[nodes[q].next]]
           w == [q \in PageId |-> <<>>]
           h == CHOOSE f : Is(f)
<1>3. Is(w)
  OBVIOUS
<1>4. Is(h)
  BY <1>3
<1>5. \A p : KeysFrom(p) = h[p]
  BY DEF KeysFrom
<1> HIDE DEF h
<1>6. h[INVALID_PAGE_ID] = <<>>
  BY <1>1, <1>4
<1> QED
  BY <1>2, <1>5, <1>6 DEF Scan

LEMMA ScanIs ==
  ASSUME BPlusTreeConstants, Shape(nodes, root, task)
  PROVE  /\ Scan \in Seq(Key) /\ Increasing(Scan) /\ ToSet(Scan) = LeafKeys(nodes)
         /\ \A c, s : Chained(nodes, root, c, s) => Scan = KeysFrom(c[1])
<1>1. CASE Empty(nodes, root, task)
  <2>1. Scan = <<>> /\ DOMAIN nodes = {}
    BY <1>1, NothingToRead DEF Empty
  <2>2. <<>> \in Seq(Key) /\ Increasing(<<>>) /\ ToSet(<<>>) = {}
    BY DEF Increasing, ToSet
  <2>3. LeafKeys(nodes) = {}
    BY <2>1 DEF LeafKeys
  <2>4. \A c, s : ~ Chained(nodes, root, c, s)
    BY <2>1, ChainedPages
  <2> QED
    BY <2>1, <2>2, <2>3, <2>4
<1>2. ASSUME NEW c, NEW s, Chained(nodes, root, c, s)
      PROVE  /\ Scan = KeysFrom(c[1])
             /\ Scan \in Seq(Key) /\ Increasing(Scan) /\ ToSet(Scan) = LeafKeys(nodes)
  <2>1. /\ DOMAIN nodes \subseteq Page /\ root \in DOMAIN nodes /\ ToSet(c) \subseteq DOMAIN nodes
        /\ \A p \in DOMAIN nodes : IsLeaf(nodes[p]) <=> p \in ToSet(c)
        /\ \A p \in DOMAIN nodes \ {root} : IsLeaf(nodes[p])
        /\ Len(c) \in Nat \ {0} /\ c[1] \in ToSet(c)
        /\ IsLeaf(nodes[root]) => root = c[1]
    BY <1>2, ChainedPages
  <2>2. ~ IsLeaf(nodes[root]) => nodes[root].children[1] = c[1] /\ c[1] # root
    BY <1>2, <2>1 DEF Chained
  <2>3. FindLeftMostLeafPage = c[1]
    <3>1. root \in PageId
      BY <2>1 DEF PageId
    <3>2. FindLeftMostLeafPage = IF IsLeaf(nodes[root]) THEN root ELSE nodes[root].children[1]
      BY <3>1, <2>1, <2>2, FindLeftMostLeafPageIs
    <3> QED
      BY <2>1, <2>2, <3>2
  <2>4. Scan = KeysFrom(c[1])
    BY <2>3 DEF Scan
  <2>5. 1 \in 1 .. Len(c)
    BY <2>1
  <2>6. ToSet(Scan) = From(nodes, c, 1) /\ Scan \in Seq(Key) /\ Increasing(Scan)
    BY <1>2, <2>4, <2>5, SuffixIs
  <2> QED
    BY <2>4, <2>6, <1>2, ChainKeys DEF From
<1> QED
  BY <1>1, <1>2, ShapeChained

(* The positions of an increasing sequence that are below a key. *)
LEMMA BelowIs ==
  ASSUME BPlusTreeConstants, NEW a \in Seq(Key), NEW b \in Seq(Key), NEW k \in Key,
         \A x \in ToSet(a) : x < k, \A x \in ToSet(b) : k <= x
  PROVE  LET t == a \o b
             m == Cardinality({i \in DOMAIN t : t[i] < k})
         IN  b = SubSeq(t, m + 1, Len(t))
<1> DEFINE t == a \o b
           I == {i \in DOMAIN t : t[i] < k}
<1>1. Len(a) \in Nat /\ Len(b) \in Nat /\ k \in Nat
  BY DEF BPlusTreeConstants
<1>2. /\ t \in Seq(Key) /\ Len(t) = Len(a) + Len(b)
      /\ \A j \in 1 .. Len(a) + Len(b) : t[j] = IF j <= Len(a) THEN a[j] ELSE b[j - Len(a)]
  BY ConcatIs
<1>3. /\ \A j \in 1 .. Len(a) : a[j] \in ToSet(a)
      /\ \A j \in 1 .. Len(b) : b[j] \in ToSet(b) /\ b[j] \in Nat
  BY Members, KeysAreNumbers
<1> HIDE DEF t
<1>4. DOMAIN t = 1 .. Len(a) + Len(b)
  BY <1>2
<1>5. I = 1 .. Len(a)
  <2>1. ASSUME NEW j \in 1 .. Len(a) PROVE j \in I
    <3>1. j \in DOMAIN t /\ t[j] = a[j]
      BY <1>1, <1>2, <1>4
    <3> QED
      BY <3>1, <1>3
  <2>2. ASSUME NEW j \in I PROVE j \in 1 .. Len(a)
    <3>1. j \in 1 .. Len(a) + Len(b) /\ t[j] < k
      BY <1>4
    <3> SUFFICES ASSUME j > Len(a) PROVE FALSE
      BY <3>1, <1>1
    <3>2. j - Len(a) \in 1 .. Len(b) /\ t[j] = b[j - Len(a)]
      BY <3>1, <1>1, <1>2
    <3>3. k <= b[j - Len(a)] /\ b[j - Len(a)] \in Nat
      BY <3>2, <1>3
    <3> QED
      BY <3>1, <3>2, <3>3, <1>1
  <2> QED
    BY <2>1, <2>2
<1>6. Cardinality(I) = Len(a)
  <2>1. Cardinality(1 .. Len(a)) = IF 1 > Len(a) THEN 0 ELSE Len(a) - 1 + 1
    <3>1. 1 \in Int /\ Len(a) \in Int
      BY <1>1
    <3> QED
      BY <3>1, FS_Interval, Zenon
  <2> HIDE DEF I
  <2> QED
    BY <1>1, <1>5, <2>1
<1>7. b = SubSeq(t, Len(a) + 1, Len(t))
  <2> DEFINE u == SubSeq(t, Len(a) + 1, Len(t))
  <2>1. \A j \in Len(a) + 1 .. Len(t) : t[j] \in Key
    BY <1>1, <1>2
  <2>2. /\ u \in Seq(Key)
        /\ Len(u) = IF Len(a) + 1 <= Len(t) THEN Len(t) - (Len(a) + 1) + 1 ELSE 0
        /\ \A j \in 1 .. Len(t) - (Len(a) + 1) + 1 : u[j] = t[Len(a) + 1 + j - 1]
    <3>1. Len(a) + 1 \in Int /\ Len(t) \in Int
      BY <1>1, <1>2
    <3> QED
      BY <2>1, <3>1, SubSeqProperties
  <2> HIDE DEF u
  <2>3. Len(u) = Len(b)
    BY <2>2, <1>1, <1>2
  <2>4. ASSUME NEW j \in 1 .. Len(u) PROVE u[j] = b[j]
    <3>1. u[j] = t[Len(a) + 1 + j - 1] /\ Len(a) + 1 + j - 1 = Len(a) + j
      BY <1>1, <1>2, <2>2, <2>3
    <3>2. t[Len(a) + j] = b[Len(a) + j - Len(a)] /\ Len(a) + j - Len(a) = j
      BY <1>1, <1>2, <2>3
    <3> QED
      BY <3>1, <3>2
  <2>5. u = b
    BY <2>2, <2>3, <2>4, SeqEqual
  <2> QED
    BY <2>5 DEF u
<1> QED
  BY <1>6, <1>7 DEF t

-------------------------------------------------------------------------------
(* What the shape says of the properties. *)

LEMMA RootOrNothing ==
  ASSUME BPlusTreeConstants, NEW ns, NEW r, NEW k, Shape(ns, r, k)
  PROVE  /\ r \in PageId /\ DOMAIN ns \subseteq Page
         /\ r = INVALID_PAGE_ID <=> Empty(ns, r, k)
         /\ r # INVALID_PAGE_ID => r \in DOMAIN ns
<1>1. INVALID_PAGE_ID \notin Page
  BY DEF Page, INVALID_PAGE_ID, BPlusTreeConstants
<1>2. CASE Empty(ns, r, k)
  BY <1>1, <1>2 DEF Empty, PageId
<1>3. ASSUME NEW c, NEW s, Chained(ns, r, c, s) PROVE r \in DOMAIN ns /\ DOMAIN ns \subseteq Page
  BY <1>3, ChainedPages
<1>4. Empty(ns, r, k) => DOMAIN ns = {} /\ r = INVALID_PAGE_ID
  BY DEF Empty
<1> QED
  BY <1>1, <1>2, <1>3, <1>4, ShapeChained DEF PageId

LEMMA LookupIsSound ==
  ASSUME BPlusTreeConstants, Shape(nodes, root, task) PROVE LookupFindsEveryKey
<1> SUFFICES ASSUME task = Idle, NEW k \in Key PROVE Finds(k) <=> Contains(Scan, k)
  BY DEF LookupFindsEveryKey
<1>1. Contains(Scan, k) <=> k \in LeafKeys(nodes)
  BY ScanIs, Members
<1>2. CASE root = INVALID_PAGE_ID
  <2>1. DOMAIN nodes = {}
    BY <1>2, RootOrNothing DEF Empty
  <2>2. FindLeafPage(k) = INVALID_PAGE_ID /\ LeafKeys(nodes) = {}
    BY <1>2, <2>1, NothingToRead DEF LeafKeys
  <2> QED
    BY <1>1, <2>2 DEF Finds
<1>3. CASE root # INVALID_PAGE_ID
  <2>1. PICK c, s : /\ Chained(nodes, root, c, s)
                    /\ \E i \in 1 .. Len(c) : FindLeafPage(k) = c[i] /\ Fits(k, s, i)
    BY <1>3, Located
  <2>2. PICK i \in 1 .. Len(c) : FindLeafPage(k) = c[i] /\ Fits(k, s, i)
    BY <2>1
  <2>3. PICK par : Leaves(nodes, c, s, par)
    BY <2>1 DEF Chained
  <2>4. c \in Seq(Page) /\ s \in Seq(Key) /\ Len(c) = Len(s) + 1 /\ Increasing(s)
        /\ nodes[c[i]].keys \in Seq(Key)
    BY <2>3 DEF Leaves, Leaf, Node
  <2>5. c[i] # INVALID_PAGE_ID
    BY <2>4 DEF Page, INVALID_PAGE_ID, BPlusTreeConstants
  <2>6. Finds(k) <=> k \in ToSet(nodes[c[i]].keys)
    BY <2>2, <2>4, <2>5, Members DEF Finds
  <2>7. LeafKeys(nodes) = UNION {ToSet(nodes[c[j]].keys) : j \in 1 .. Len(c)}
    BY <2>1, ChainKeys
  <2>8. ASSUME NEW j \in 1 .. Len(c), k \in ToSet(nodes[c[j]].keys) PROVE j = i
    <3>1. Fits(k, s, j)
      BY <2>3, <2>8 DEF Leaves
    <3> QED
      BY <2>2, <2>4, <3>1, FitsOnce
  <2> QED
    BY <1>1, <2>6, <2>7, <2>8
<1> QED
  BY <1>2, <1>3

LEMMA ScanIsSound ==
  ASSUME BPlusTreeConstants, Shape(nodes, root, task) PROVE ScanYieldsKeysInOrder
<1>1. \A i \in 1 .. Len(Scan) - 1 : Scan[i] < Scan[i + 1]
  <2>1. Scan \in Seq(Key) /\ Increasing(Scan)
    BY ScanIs
  <2>2. Len(Scan) \in Nat
    BY <2>1
  <2> QED
    BY <2>1, <2>2 DEF Increasing
<1>2. ASSUME task = Idle, NEW k \in Key
      PROVE  ScanFrom(k) = SubSeq(Scan, KeysBelow(k) + 1, Len(Scan))
  <2>1. CASE root = INVALID_PAGE_ID
    <3>1. DOMAIN nodes = {}
      BY <2>1, RootOrNothing DEF Empty
    <3>2. FindLeafPage(k) = INVALID_PAGE_ID /\ Scan = <<>>
      BY <2>1, <3>1, NothingToRead
    <3>3. KeysBelow(k) = 0
      <4>1. {i \in DOMAIN Scan : Scan[i] < k} = {}
        BY <3>2
      <4> QED
        BY <4>1, FS_EmptySet DEF KeysBelow
    <3>4. SubSeq(<<>>, 1, 0) = <<>>
      OBVIOUS
    <3> QED
      BY <3>2, <3>3, <3>4 DEF ScanFrom
  <2>2. CASE root # INVALID_PAGE_ID
    <3>1. PICK c, s : /\ Chained(nodes, root, c, s)
                      /\ \E i \in 1 .. Len(c) : FindLeafPage(k) = c[i] /\ Fits(k, s, i)
      BY <1>2, <2>2, Located
    <3>2. PICK i \in 1 .. Len(c) : FindLeafPage(k) = c[i] /\ Fits(k, s, i)
      BY <3>1
    <3>3. PICK par : Leaves(nodes, c, s, par)
      BY <3>1 DEF Chained
    <3> DEFINE n == nodes[c[i]]
               d == KeysFrom(NextIn(c, i))
               x == KeyIndex(n, k)
               lo == SubSeq(n.keys, 1, x - 1)
               hi == SubSeq(n.keys, x, Len(n.keys))
    <3>4. /\ c \in Seq(Page) /\ s \in Seq(Key) /\ Len(c) = Len(s) + 1 /\ Increasing(s)
          /\ n \in Node /\ n.keys \in Seq(Key) /\ n.next = NextIn(c, i) /\ Increasing(n.keys)
      <4>1. /\ c \in Seq(Page) /\ s \in Seq(Key) /\ Len(c) = Len(s) + 1 /\ Increasing(s)
            /\ n \in Node /\ n = NewLeaf(par, n.keys, NextIn(c, i)) /\ Increasing(n.keys)
        BY <3>3 DEF Leaves, Leaf
      <4>2. NewLeaf(par, n.keys, NextIn(c, i)).next = NextIn(c, i)
        BY DEF NewLeaf
      <4> QED
        BY <4>1, <4>2 DEF Node
    <3>5. c[i] # INVALID_PAGE_ID
      BY <3>4 DEF Page, INVALID_PAGE_ID, BPlusTreeConstants
    <3>6. PICK a \in Seq(Key) : /\ KeysFrom(c[1]) = a \o KeysFrom(c[i])
                                /\ ToSet(a) = Before(nodes, c, i)
      BY <3>1, PrefixIs
    <3>7. Scan = a \o (n.keys \o d)
      BY <3>1, <3>6, ScanIs, KeysFromIs
    <3>8. d \in Seq(Key) /\ ToSet(d) = From(nodes, c, i + 1)
      <4>1. CASE i < Len(c)
        <5>1. NextIn(c, i) = c[i + 1] /\ i + 1 \in 1 .. Len(c)
          BY <4>1, <3>4 DEF NextIn
        <5> QED
          BY <5>1, <3>1, SuffixIs
      <4>2. CASE ~ (i < Len(c))
        <5>1. d = <<>>
          BY <4>2, <3>1, KeysFromIs DEF NextIn
        <5>2. i + 1 .. Len(c) = {}
          BY <4>2, <3>4
        <5>3. From(nodes, c, i + 1) = {} /\ ToSet(<<>>) = {} /\ <<>> \in Seq(Key)
          BY <5>2 DEF From, ToSet
        <5> QED
          BY <5>1, <5>3
      <4> QED
        BY <4>1, <4>2
    <3>9. /\ x \in 1 .. Len(n.keys) + 1 /\ Len(n.keys) \in Nat /\ k \in Nat
          /\ \A j \in 1 .. x - 1 : n.keys[j] < k
          /\ \A j \in x .. Len(n.keys) : k <= n.keys[j]
      <4> HIDE DEF n
      <4> QED
        BY <3>4, KeyIndexIs DEF BPlusTreeConstants
    <3>10. ScanFrom(k) = hi \o d
      BY <3>2, <3>4, <3>5 DEF ScanFrom, Size
    <3> HIDE DEF d, x, n
    <3>11. /\ lo \in Seq(Key) /\ Len(lo) = x - 1 /\ \A j \in 1 .. x - 1 : lo[j] = n.keys[j]
           /\ hi \in Seq(Key) /\ Len(hi) = Len(n.keys) - x + 1
           /\ \A j \in 1 .. Len(n.keys) - x + 1 : hi[j] = n.keys[x + j - 1]
      <4>1. \A j \in 1 .. Len(n.keys) : n.keys[j] \in Key
        BY <3>4
      <4> QED
        BY <3>9, <4>1, SubSeqProperties
    <3>17. k \in Nat
      BY <3>9
    <3>12. n.keys = lo \o hi
      <4>1. x - 1 + 1 = x /\ x - 1 \in 1 - 1 .. Len(n.keys) /\ Len(n.keys) \in x - 1 .. Len(n.keys)
            /\ 1 \in 1 .. Len(n.keys) + 1
        BY <3>9
      <4>2. SubSeq(n.keys, 1, x - 1) \o SubSeq(n.keys, x - 1 + 1, Len(n.keys)) = SubSeq(n.keys, 1, Len(n.keys))
        BY <4>1, <3>4, ConcatAdjacentSubSeq, Zenon
      <4>3. SubSeq(n.keys, 1, Len(n.keys)) = n.keys
        BY <3>4, SubSeqFull, Zenon
      <4> QED
        BY <4>1, <4>2, <4>3
    <3> HIDE DEF lo, hi
    <3>13. a \o (n.keys \o d) = (a \o lo) \o (hi \o d)
      <4>5. a \in Seq(Key) /\ lo \in Seq(Key) /\ hi \in Seq(Key) /\ d \in Seq(Key)
        BY <3>8, <3>11
      <4>1. (lo \o hi) \o d = lo \o (hi \o d)
        BY <4>5, ConcatAssociative
      <4>2. hi \o d \in Seq(Key)
        BY <3>8, <3>11, ConcatProperties
      <4>3. (a \o lo) \o (hi \o d) = a \o (lo \o (hi \o d))
        <5> DEFINE e == hi \o d
        <5>1. e \in Seq(Key)
          BY <4>2
        <5> HIDE DEF e
        <5>2. (a \o lo) \o e = a \o (lo \o e)
          BY <5>1, <4>5, ConcatAssociative
        <5> QED
          BY <5>2 DEF e
      <4> QED
        BY <3>12, <4>1, <4>3, Zenon
    <3>14. /\ a \o lo \in Seq(Key) /\ ToSet(a \o lo) = ToSet(a) \cup ToSet(lo)
           /\ hi \o d \in Seq(Key) /\ ToSet(hi \o d) = ToSet(hi) \cup ToSet(d)
      BY <3>8, <3>11, ConcatIs
    <3>15. \A y \in ToSet(a \o lo) : y < k
      <4> SUFFICES ASSUME NEW y, y \in ToSet(a) \/ y \in ToSet(lo) PROVE y < k
        BY <3>14
      <4>1. CASE y \in ToSet(a)
        <5>1. PICK j \in 1 .. i - 1 : y \in ToSet(nodes[c[j]].keys)
          BY <3>6, <4>1 DEF Before
        <5>2. j \in 1 .. Len(c) /\ j \in 1 .. Len(s) /\ j <= i - 1 /\ i - 1 \in 1 .. Len(s)
          BY <3>4, <5>1
        <5>3. Fits(y, s, j) /\ nodes[c[j]].keys \in Seq(Key)
          BY <3>3, <5>1, <5>2 DEF Leaves, Leaf, Node
        <5>4. y < s[j] /\ s[i - 1] <= k
          BY <3>2, <5>2, <5>3 DEF Fits
        <5>5. j = i - 1 \/ s[j] < s[i - 1]
          BY <3>4, <5>2 DEF Increasing
        <5>6. s[j] \in Nat /\ s[i - 1] \in Nat /\ y \in Nat
          <6>1. y \in Key
            BY <5>1, <5>3, Members
          <6> QED
            BY <6>1, <5>2, <3>4, KeysAreNumbers DEF BPlusTreeConstants
        <5> QED
          BY <5>2, <5>4, <5>5, <5>6, <3>17
      <4>2. CASE y \in ToSet(lo)
        <5>1. PICK j \in 1 .. Len(lo) : lo[j] = y
          BY <4>2, <3>11, Members
        <5> QED
          BY <5>1, <3>9, <3>11
      <4> QED
        BY <4>1, <4>2
    <3>16. \A y \in ToSet(hi \o d) : k <= y
      <4> SUFFICES ASSUME NEW y, y \in ToSet(hi) \/ y \in ToSet(d) PROVE k <= y
        BY <3>14
      <4>1. CASE y \in ToSet(d)
        <5>1. PICK j \in i + 1 .. Len(c) : y \in ToSet(nodes[c[j]].keys)
          BY <3>8, <4>1 DEF From
        <5>2. j \in 1 .. Len(c) /\ i \in 1 .. Len(s) /\ i <= j - 1 /\ j - 1 \in 1 .. Len(s)
          BY <3>4, <5>1
        <5>3. Fits(y, s, j) /\ nodes[c[j]].keys \in Seq(Key)
          BY <3>3, <5>1, <5>2 DEF Leaves, Leaf, Node
        <5>4. k < s[i] /\ s[j - 1] <= y
          BY <3>2, <5>1, <5>2, <5>3 DEF Fits
        <5>5. i = j - 1 \/ s[i] < s[j - 1]
          BY <3>4, <5>2 DEF Increasing
        <5>6. s[i] \in Nat /\ s[j - 1] \in Nat /\ y \in Nat
          <6>1. y \in Key
            BY <5>1, <5>3, Members
          <6> QED
            BY <6>1, <5>2, <3>4, KeysAreNumbers DEF BPlusTreeConstants
        <5> QED
          BY <5>4, <5>5, <5>6, <3>9
      <4>2. CASE y \in ToSet(hi)
        <5>1. PICK j \in 1 .. Len(hi) : hi[j] = y
          BY <4>2, <3>11, Members
        <5>2. x + j - 1 \in x .. Len(n.keys) /\ y = n.keys[x + j - 1]
          BY <5>1, <3>9, <3>11
        <5> QED
          BY <5>2, <3>9
      <4> QED
        BY <4>1, <4>2
    <3> DEFINE v == a \o lo
               u == hi \o d
    <3>21. v \in Seq(Key) /\ u \in Seq(Key) /\ Scan = v \o u
      BY <3>7, <3>13, <3>14
    <3>18. (\A y \in ToSet(v) : y < k) /\ (\A y \in ToSet(u) : k <= y)
      BY <3>15, <3>16
    <3> HIDE DEF v
    <3>19. u = hi \o d
      OBVIOUS
    <3> HIDE DEF u
    <3>20. u = SubSeq(v \o u, Cardinality({j \in DOMAIN (v \o u) : (v \o u)[j] < k}) + 1, Len(v \o u))
      BY <3>21, <3>18, BelowIs
    <3> QED
      BY <3>10, <3>21, <3>19, <3>20 DEF KeysBelow
  <2> QED
    BY <2>1, <2>2
<1> QED
  BY <1>1, <1>2 DEF ScanYieldsKeysInOrder

LEMMA TreeSound ==
  ASSUME BPlusTreeConstants, Shape(nodes, root, task), header_root = root PROVE TreeIsSound
<1>1. /\ root \in PageId /\ DOMAIN nodes \subseteq Page
      /\ root \notin DOMAIN nodes => root = INVALID_PAGE_ID
  BY RootOrNothing, Zenon
<1>2. ASSUME NEW p \in DOMAIN nodes, NEW par, NEW nxt, Leaf(nodes[p], par, nxt)
      PROVE  /\ nodes[p] \in Node /\ Size(nodes[p]) <= MaxSize(nodes[p]) /\ IsLeaf(nodes[p])
             /\ nodes[p].parent = par /\ nodes[p].children = <<>>
  <2>1. NewLeaf(par, nodes[p].keys, nxt).type = "LEAF" /\ NewLeaf(par, nodes[p].keys, nxt).parent = par
        /\ NewLeaf(par, nodes[p].keys, nxt).children = <<>>
    BY DEF NewLeaf
  <2> QED
    BY <1>2, <2>1 DEF Leaf, IsLeaf, Size, MaxSize
<1>3. ASSUME NEW c, NEW s, NEW par, Leaves(nodes, c, s, par), NEW p \in ToSet(c)
      PROVE  /\ p \in DOMAIN nodes
             /\ nodes[p] \in Node /\ Size(nodes[p]) <= MaxSize(nodes[p]) /\ IsLeaf(nodes[p])
             /\ nodes[p].parent = par /\ nodes[p].children = <<>>
  <2>1. c \in Seq(Page)
    BY <1>3 DEF Leaves
  <2>2. PICK i \in 1 .. Len(c) : c[i] = p
    BY <2>1, Members
  <2>3. p \in DOMAIN nodes /\ Leaf(nodes[p], par, NextIn(c, i))
    BY <1>3, <2>2 DEF Leaves
  <2> QED
    BY <1>2, <2>3
<1>4. ASSUME NEW c \in Seq(Page), NEW s \in Seq(Key), Inner(nodes, root, c, s), Len(c) = Len(s) + 1,
             Len(s) <= InternalMax
      PROVE  /\ nodes[root] \in Node /\ Size(nodes[root]) <= MaxSize(nodes[root])
             /\ Len(nodes[root].children) = Size(nodes[root]) + 1
             /\ nodes[root].children = c /\ root \in Page
  <2>1. nodes[root] = NewInternal(INVALID_PAGE_ID, s, c) /\ root \in Page
    BY <1>4 DEF Inner
  <2>2. INVALID_PAGE_ID \in PageId
    BY DEF PageId
  <2> QED
    BY <1>4, <2>1, <2>2 DEF NewInternal, Node, Size, MaxSize, IsLeaf
<1>5. TypeOK
  <2>1. ASSUME NEW p \in DOMAIN nodes
        PROVE /\ nodes[p] \in Node
              /\ Size(nodes[p]) <= MaxSize(nodes[p])
              /\ ~IsLeaf(nodes[p]) => Len(nodes[p].children) = Size(nodes[p]) + 1
    <3>1. CASE Empty(nodes, root, task)
      BY <3>1 DEF Empty
    <3>2. CASE Single(nodes, root, task)
      <4>1. ToSet(<<root>>) = {root}
        BY SetsOfFew
      <4>2. p \in ToSet(<<root>>) /\ Leaves(nodes, <<root>>, <<>>, INVALID_PAGE_ID)
        BY <3>2, <4>1 DEF Single
      <4> QED
        BY <4>2, <1>3
    <3>3. CASE Halved(nodes, root, task)
      <4>1. \A a, b : ToSet(<<a, b>>) = {a, b}
        <5>1. \A a, b : a \in {a, b} /\ b \in {a, b}
          OBVIOUS
        <5> QED
          BY <5>1, SmallSeqs, Zenon
      <4> QED
        BY <3>3, <4>1, <1>3 DEF Halved
    <3>4. ASSUME NEW c, NEW s, Full(nodes, root, task, c, s)
          PROVE  /\ nodes[p] \in Node
                 /\ Size(nodes[p]) <= MaxSize(nodes[p])
                 /\ ~IsLeaf(nodes[p]) => Len(nodes[p].children) = Size(nodes[p]) + 1
      <4>1. /\ Inner(nodes, root, c, s) /\ DOMAIN nodes = ToSet(c) \cup {root}
            /\ Leaves(nodes, c, s, root) /\ Len(s) <= InternalMax
            /\ c \in Seq(Page) /\ s \in Seq(Key) /\ Len(c) = Len(s) + 1
        BY <3>4 DEF Full, Leaves
      <4>2. CASE p = root
        BY <4>1, <4>2, <1>4
      <4>3. CASE p \in ToSet(c)
        BY <4>1, <4>3, <1>3
      <4> QED
        BY <4>1, <4>2, <4>3
    <3>5. ASSUME NEW c, NEW s, NEW i, Growing(nodes, root, task, c, s, i)
          PROVE  /\ nodes[p] \in Node
                 /\ Size(nodes[p]) <= MaxSize(nodes[p])
                 /\ ~IsLeaf(nodes[p]) => Len(nodes[p].children) = Size(nodes[p]) + 1
      <4> DEFINE d == InsertAt(c, i + 1, task.new)
      <4>1. /\ Inner(nodes, root, c, s) /\ DOMAIN nodes = ToSet(c) \cup {root, task.new}
            /\ Leaves(nodes, d, InsertAt(s, i, task.key), root) /\ Len(s) < InternalMax
            /\ c \in Seq(Page) /\ s \in Seq(Key) /\ Len(c) = Len(s) + 1
            /\ i \in 1 .. Len(c) /\ task.new \in Page
        BY <3>5 DEF Growing
      <4>2. ToSet(d) = ToSet(c) \cup {task.new} /\ Len(s) <= InternalMax
        <5>1. i + 1 \in 1 .. Len(c) + 1
          BY <4>1
        <5>2. Len(s) <= InternalMax
          BY <4>1 DEF BPlusTreeConstants
        <5> QED
          BY <4>1, <5>1, <5>2, InsertAtIs
      <4> HIDE DEF d
      <4>3. CASE p = root
        BY <4>1, <4>2, <4>3, <1>4
      <4>4. CASE p \in ToSet(d)
        BY <4>1, <4>4, <1>3
      <4> QED
        BY <4>1, <4>2, <4>3, <4>4
    <3> QED
      BY <3>1, <3>2, <3>3, <3>4, <3>5 DEF Shape
  <2>2. task \in [op : {"none", "parent", "rebalance"}, page : PageId,
                  key : Key \cup {0}, new : PageId]
    <3>1. INVALID_PAGE_ID \in PageId /\ Page \subseteq PageId
      BY DEF PageId
    <3>2. Idle \in [op : {"none", "parent", "rebalance"}, page : PageId,
                    key : Key \cup {0}, new : PageId]
      BY <3>1 DEF Idle
    <3>3. CASE Empty(nodes, root, task) \/ Single(nodes, root, task)
      BY <3>2, <3>3 DEF Empty, Single
    <3>4. CASE Halved(nodes, root, task)
      <4>1. task = ParentTask(root, task.key, task.new) /\ <<task.key>> \in Seq(Key) /\ task.new \in DOMAIN nodes
        BY <3>4 DEF Halved, Leaves
      <4>2. task.key \in Key
        <5>1. Len(<<task.key>>) = 1 /\ <<task.key>>[1] = task.key
          OBVIOUS
        <5> QED
          BY <4>1, <5>1, ElementOfSeq
      <4>3. ParentTask(root, task.key, task.new) \in
              [op : {"none", "parent", "rebalance"}, page : PageId, key : Key \cup {0}, new : PageId]
        BY <4>1, <4>2, <3>1, <1>1 DEF ParentTask
      <4> QED
        BY <4>1, <4>3
    <3>5. ASSUME NEW c, NEW s, Full(nodes, root, task, c, s)
          PROVE  task \in [op : {"none", "parent", "rebalance"}, page : PageId,
                           key : Key \cup {0}, new : PageId]
      <4>1. ASSUME NEW q \in DOMAIN nodes
            PROVE  RebalanceTask(q) \in [op : {"none", "parent", "rebalance"}, page : PageId,
                                         key : Key \cup {0}, new : PageId]
        BY <3>1, <1>1 DEF RebalanceTask, Idle
      <4> QED
        BY <3>2, <3>5, <4>1 DEF Full
    <3>6. ASSUME NEW c, NEW s, NEW i, Growing(nodes, root, task, c, s, i)
          PROVE  task \in [op : {"none", "parent", "rebalance"}, page : PageId,
                           key : Key \cup {0}, new : PageId]
      <4>1. /\ task = ParentTask(c[i], task.key, task.new) /\ task.key \in Key
            /\ task.new \in Page /\ c[i] \in Page
        BY <3>6 DEF Growing
      <4>2. ParentTask(c[i], task.key, task.new) \in
              [op : {"none", "parent", "rebalance"}, page : PageId, key : Key \cup {0}, new : PageId]
        BY <4>1, <3>1 DEF ParentTask
      <4> QED
        BY <4>1, <4>2
    <3> QED
      BY <3>3, <3>4, <3>5, <3>6 DEF Shape
  <2> QED
    BY <1>1, <2>1, <2>2 DEF TypeOK
<1>6. ASSUME task.op # "parent"
      PROVE  /\ \A p \in DOMAIN nodes \ {root} :
                  /\ nodes[p].parent \in DOMAIN nodes
                  /\ Contains(nodes[nodes[p].parent].children, p)
             /\ DOMAIN nodes = (UNION {ToSet(nodes[p].children) : p \in DOMAIN nodes})
                                 \cup ({root} \ {INVALID_PAGE_ID})
  <2>1. ~ Halved(nodes, root, task) /\ \A c, s, i : ~ Growing(nodes, root, task, c, s, i)
    BY <1>6 DEF Halved, Growing, ParentTask
  <2>2. CASE Empty(nodes, root, task)
    BY <2>2 DEF Empty
  <2>3. CASE Single(nodes, root, task)
    <3>1. /\ DOMAIN nodes = {root} /\ Leaves(nodes, <<root>>, <<>>, INVALID_PAGE_ID)
      BY <2>3 DEF Single
    <3>2. nodes[root].children = <<>>
      <4>1. ToSet(<<root>>) = {root}
        BY SetsOfFew
      <4>2. root \in ToSet(<<root>>)
        BY <4>1
      <4> QED
        BY <3>1, <4>2, <1>3
    <3>3. UNION {ToSet(nodes[p].children) : p \in DOMAIN nodes} = {}
      <4>1. ToSet(<<>>) = {}
        BY DEF ToSet
      <4> QED
        BY <3>1, <3>2, <4>1
    <3>4. root # INVALID_PAGE_ID
      BY <1>1, <3>1 DEF Page, INVALID_PAGE_ID, BPlusTreeConstants
    <3>5. {root} \ {INVALID_PAGE_ID} = {root}
      BY <3>4
    <3> DEFINE U == UNION {ToSet(nodes[p].children) : p \in DOMAIN nodes}
    <3>6. DOMAIN nodes = U \cup ({root} \ {INVALID_PAGE_ID})
      <4>1. U = {}
        BY <3>3
      <4> HIDE DEF U
      <4> QED
        BY <3>1, <3>5, <4>1
    <3>7. DOMAIN nodes \ {root} = {}
      BY <3>1
    <3> QED
      BY <3>6, <3>7
  <2>4. ASSUME NEW c, NEW s, Full(nodes, root, task, c, s)
        PROVE  /\ \A p \in DOMAIN nodes \ {root} :
                    /\ nodes[p].parent \in DOMAIN nodes
                    /\ Contains(nodes[nodes[p].parent].children, p)
               /\ DOMAIN nodes = (UNION {ToSet(nodes[p].children) : p \in DOMAIN nodes})
                                   \cup ({root} \ {INVALID_PAGE_ID})
    <3>1. /\ Inner(nodes, root, c, s) /\ DOMAIN nodes = ToSet(c) \cup {root}
          /\ Leaves(nodes, c, s, root) /\ Len(s) <= InternalMax
          /\ c \in Seq(Page) /\ s \in Seq(Key) /\ Len(c) = Len(s) + 1
      BY <2>4 DEF Full, Leaves
    <3>2. nodes[root].children = c /\ root \in Page /\ root \notin ToSet(c)
      BY <3>1, <1>4 DEF Inner
    <3>3. \A p \in ToSet(c) : nodes[p].parent = root /\ nodes[p].children = <<>>
      BY <3>1, <1>3
    <3>4. \A p : Contains(c, p) <=> p \in ToSet(c)
      BY <3>1, Members
    <3>5. root # INVALID_PAGE_ID
      BY <3>2 DEF Page, INVALID_PAGE_ID, BPlusTreeConstants
    <3>6. UNION {ToSet(nodes[p].children) : p \in DOMAIN nodes} = ToSet(c)
      <4>1. ToSet(<<>>) = {}
        BY DEF ToSet
      <4> QED
        BY <3>1, <3>2, <3>3, <4>1
    <3>7. ASSUME NEW p \in DOMAIN nodes \ {root}
          PROVE  /\ nodes[p].parent \in DOMAIN nodes
                 /\ Contains(nodes[nodes[p].parent].children, p)
      BY <3>1, <3>2, <3>3, <3>4
    <3>8. DOMAIN nodes = (UNION {ToSet(nodes[p].children) : p \in DOMAIN nodes})
                           \cup ({root} \ {INVALID_PAGE_ID})
      <4> DEFINE U == UNION {ToSet(nodes[p].children) : p \in DOMAIN nodes}
      <4>1. U = ToSet(c) /\ {root} \ {INVALID_PAGE_ID} = {root}
        BY <3>5, <3>6
      <4> HIDE DEF U
      <4>2. DOMAIN nodes = U \cup ({root} \ {INVALID_PAGE_ID})
        BY <3>1, <4>1
      <4> QED
        BY <4>2 DEF U
    <3> QED
      BY <3>7, <3>8
  <2> QED
    BY <2>1, <2>2, <2>3, <2>4 DEF Shape
<1> QED
  BY <1>5, <1>6 DEF TreeIsSound, ParentsMatchChildren, NoPageIsLeaked

LeafPages(ns) == {p \in DOMAIN ns : IsLeaf(ns[p])}

(* No two leaves hold the same key. *)
LEMMA OneLeafPerKey ==
  ASSUME BPlusTreeConstants, Shape(nodes, root, task),
         NEW p \in LeafPages(nodes), NEW q \in LeafPages(nodes),
         NEW k \in ToSet(nodes[p].keys) \cap ToSet(nodes[q].keys)
  PROVE  p = q
<1>1. ~ Empty(nodes, root, task)
  BY DEF Empty, LeafPages
<1>2. PICK c, s : Chained(nodes, root, c, s)
  BY <1>1, ShapeChained
<1>3. PICK par : Leaves(nodes, c, s, par)
  BY <1>2 DEF Chained
<1>4. c \in Seq(Page) /\ s \in Seq(Key) /\ Len(c) = Len(s) + 1 /\ Increasing(s)
  BY <1>3 DEF Leaves
<1>5. p \in ToSet(c) /\ q \in ToSet(c)
  BY <1>2, ChainedPages DEF LeafPages
<1>6. PICK i \in 1 .. Len(c) : c[i] = p
  BY <1>4, <1>5, Members
<1>7. PICK j \in 1 .. Len(c) : c[j] = q
  BY <1>4, <1>5, Members
<1>8. k \in Key /\ Fits(k, s, i) /\ Fits(k, s, j)
  <2>1. nodes[c[i]].keys \in Seq(Key)
    BY <1>3 DEF Leaves, Leaf, Node
  <2>2. k \in ToSet(nodes[c[i]].keys) /\ k \in ToSet(nodes[c[j]].keys)
    BY <1>6, <1>7
  <2>3. k \in Key
    BY <2>1, <2>2, Members
  <2> QED
    BY <2>2, <2>3, <1>3 DEF Leaves
<1> QED
  BY <1>4, <1>6, <1>7, <1>8, FitsOnce

LEMMA NoKeyTwice ==
  ASSUME BPlusTreeConstants, TreeInv PROVE KeysAreUnique
<1> SUFFICES ASSUME NEW p \in DOMAIN nodes, NEW q \in DOMAIN nodes, NEW k \in Key,
                    IsLeaf(nodes[p]), IsLeaf(nodes[q]), p # q,
                    Contains(nodes[p].keys, k), Contains(nodes[q].keys, k)
             PROVE  FALSE
  BY DEF KeysAreUnique
<1>1. p \in LeafPages(nodes) /\ q \in LeafPages(nodes)
  BY DEF LeafPages
<1>2. Shape(nodes, root, task) /\ TypeOK
  BY TreeSound DEF TreeInv, TreeIsSound
<1>3. nodes[p].keys \in Seq(Key) /\ nodes[q].keys \in Seq(Key)
  BY <1>2 DEF TypeOK, Node
<1>4. k \in ToSet(nodes[p].keys) \cap ToSet(nodes[q].keys)
  BY <1>3, Members
<1> QED
  BY <1>1, <1>2, <1>4, OneLeafPerKey

-------------------------------------------------------------------------------
(* The chain of leaves when pages change. *)

LEMMA LeavesChanged ==
  ASSUME NEW ns, NEW c, NEW s, NEW par, Leaves(ns, c, s, par), NEW ms, NEW I,
         \A i \in 1 .. Len(c) : c[i] \in DOMAIN ms,
         \A i \in (1 .. Len(c)) \ I : ms[c[i]] = ns[c[i]],
         \A i \in (1 .. Len(c)) \cap I : /\ Leaf(ms[c[i]], par, NextIn(c, i))
                                         /\ \A x \in ToSet(ms[c[i]].keys) : Fits(x, s, i)
  PROVE  Leaves(ms, c, s, par)
<1>1. /\ c \in Seq(Page) /\ s \in Seq(Key) /\ Len(c) = Len(s) + 1
      /\ Distinct(c) /\ Increasing(s)
      /\ \A i \in 1 .. Len(c) : /\ Leaf(ns[c[i]], par, NextIn(c, i))
                                /\ \A x \in ToSet(ns[c[i]].keys) : Fits(x, s, i)
  BY DEF Leaves
<1>2. ASSUME NEW i \in 1 .. Len(c)
      PROVE  Leaf(ms[c[i]], par, NextIn(c, i)) /\ \A x \in ToSet(ms[c[i]].keys) : Fits(x, s, i)
  <2>1. CASE i \in I
    BY <2>1
  <2>2. CASE i \notin I
    <3>1. ms[c[i]] = ns[c[i]]
      BY <2>2
    <3> QED
      BY <1>1, <3>1
  <2> QED
    BY <2>1, <2>2
<1> QED
  BY <1>1, <1>2 DEF Leaves

LEMMA LeavesReparented ==
  ASSUME NEW ns, NEW c, NEW s, NEW par, Leaves(ns, c, s, par), NEW ms, NEW q \in PageId,
         \A i \in 1 .. Len(c) : c[i] \in DOMAIN ms /\ ms[c[i]] = [ns[c[i]] EXCEPT !.parent = q]
  PROVE  Leaves(ms, c, s, q)
<1>1. /\ c \in Seq(Page) /\ s \in Seq(Key) /\ Len(c) = Len(s) + 1
      /\ Distinct(c) /\ Increasing(s)
      /\ \A i \in 1 .. Len(c) : /\ Leaf(ns[c[i]], par, NextIn(c, i))
                                /\ \A x \in ToSet(ns[c[i]].keys) : Fits(x, s, i)
  BY DEF Leaves
<1>2. ASSUME NEW n, NEW nxt, Leaf(n, par, nxt)
      PROVE  Leaf([n EXCEPT !.parent = q], q, nxt) /\ [n EXCEPT !.parent = q].keys = n.keys
  <2>1. n \in Node /\ n = NewLeaf(par, n.keys, nxt) /\ Increasing(n.keys) /\ Len(n.keys) <= LeafMax
    BY <1>2 DEF Leaf
  <2> DEFINE m == [n EXCEPT !.parent = q]
  <2>2. m \in Node /\ m.keys = n.keys
    BY <2>1 DEF Node
  <2>3. m = NewLeaf(q, n.keys, nxt)
    <3>1. ASSUME NEW k, n = NewLeaf(par, k, nxt) PROVE m = NewLeaf(q, k, nxt)
      BY <3>1 DEF NewLeaf
    <3> QED
      BY <2>1, <3>1
  <2> HIDE DEF m
  <2>4. Leaf(m, q, nxt)
    BY <2>1, <2>2, <2>3 DEF Leaf
  <2> QED
    BY <2>2, <2>4 DEF m
<1>3. ASSUME NEW i \in 1 .. Len(c)
      PROVE  Leaf(ms[c[i]], q, NextIn(c, i)) /\ \A x \in ToSet(ms[c[i]].keys) : Fits(x, s, i)
  <2>1. ms[c[i]] = [ns[c[i]] EXCEPT !.parent = q]
    OBVIOUS
  <2> QED
    BY <1>1, <1>2, <2>1
<1> QED
  BY <1>1, <1>3 DEF Leaves

(* A leaf becomes two.                                                     *)
LEMMA LeavesSplit ==
  ASSUME BPlusTreeConstants, NEW ns, NEW c, NEW s, NEW par, Leaves(ns, c, s, par),
         NEW ms, NEW i \in 1 .. Len(c), NEW new \in Page \ ToSet(c), NEW k \in Key,
         Fits(k, s, i), i > 1 => s[i - 1] < k,
         ToSet(c) \cup {new} \subseteq DOMAIN ms,
         \A j \in 1 .. Len(c) : j # i => ms[c[j]] = ns[c[j]],
         Leaf(ms[c[i]], par, new), Leaf(ms[new], par, NextIn(c, i)),
         \A x \in ToSet(ms[c[i]].keys) : Fits(x, s, i) /\ x < k,
         \A x \in ToSet(ms[new].keys) : Fits(x, s, i) /\ k <= x
  PROVE  Leaves(ms, InsertAt(c, i + 1, new), InsertAt(s, i, k), par)
<1> DEFINE d == InsertAt(c, i + 1, new)
           t == InsertAt(s, i, k)
<1>1. /\ c \in Seq(Page) /\ s \in Seq(Key) /\ Len(c) = Len(s) + 1
      /\ Distinct(c) /\ Increasing(s)
      /\ \A j \in 1 .. Len(c) : /\ Leaf(ns[c[j]], par, NextIn(c, j))
                                /\ \A x \in ToSet(ns[c[j]].keys) : Fits(x, s, j)
  BY DEF Leaves
<1>2. Len(s) \in Nat /\ Len(c) \in Nat /\ k \in Nat /\ \A j \in 1 .. Len(s) : s[j] \in Nat
  <2>1. k \in Nat
    BY DEF BPlusTreeConstants
  <2> QED
    BY <2>1, <1>1, KeysAreNumbers
<1>3. /\ d \in Seq(Page) /\ Len(d) = Len(c) + 1
      /\ \A j \in 1 .. Len(c) + 1 :
           d[j] = IF j < i + 1 THEN c[j] ELSE IF j = i + 1 THEN new ELSE c[j - 1]
  <2>1. i + 1 \in 1 .. Len(c) + 1 /\ new \in Page
    BY <1>2
  <2>2. c \in Seq(Page)
    BY <1>1
  <2>3. InsertAt(c, i + 1, new) \in Seq(Page)
    BY <2>1, <2>2, InsertAtHas
  <2>4. Len(InsertAt(c, i + 1, new)) = Len(c) + 1
    <3>1. \A h \in 1 .. Len(c) + 1 : \A e \in Page : Len(InsertAt(c, h, e)) = Len(c) + 1
      BY <2>2, InsertAtHas
    <3> QED
      BY <2>1, <3>1
  <2>5. \A j \in 1 .. Len(c) + 1 :
           InsertAt(c, i + 1, new)[j] = IF j < i + 1 THEN c[j] ELSE IF j = i + 1 THEN new ELSE c[j - 1]
    BY <2>1, <2>2, InsertAtHas, SMTT(20)
  <2> QED
    BY <2>3, <2>4, <2>5, Zenon
<1>4. /\ t \in Seq(Key) /\ Len(t) = Len(s) + 1
      /\ \A j \in 1 .. Len(s) + 1 :
           t[j] = IF j < i THEN s[j] ELSE IF j = i THEN k ELSE s[j - 1]
  <2>1. i \in 1 .. Len(s) + 1 /\ s \in Seq(Key)
    BY <1>1
  <2> QED
    BY <2>1, InsertAtHas
<1> HIDE DEF d, t
<1>5. \A j \in 1 .. Len(c) : c[j] # new /\ c[j] \in DOMAIN ms /\ new \in DOMAIN ms
  BY <1>1, Members
<1>6. Distinct(d)
  <2> SUFFICES ASSUME NEW a \in 1 .. Len(d), NEW b \in 1 .. Len(d), d[a] = d[b] PROVE a = b
    BY DEF Distinct
  <2>1. a \in 1 .. Len(c) + 1 /\ b \in 1 .. Len(c) + 1
    BY <1>3
  <2>2. a = i + 1 \/ \E x \in 1 .. Len(c) : d[a] = c[x] /\ x = IF a < i + 1 THEN a ELSE a - 1
    BY <2>1, <1>2, <1>3
  <2>3. b = i + 1 \/ \E x \in 1 .. Len(c) : d[b] = c[x] /\ x = IF b < i + 1 THEN b ELSE b - 1
    BY <2>1, <1>2, <1>3
  <2>4. d[i + 1] = new
    BY <1>2, <1>3
  <2>5. CASE a = i + 1
    BY <2>3, <2>4, <2>5, <1>5
  <2>6. CASE b = i + 1
    BY <2>2, <2>4, <2>6, <1>5
  <2>7. CASE a # i + 1 /\ b # i + 1
    <3>1. PICK x \in 1 .. Len(c) : d[a] = c[x] /\ x = IF a < i + 1 THEN a ELSE a - 1
      BY <2>2, <2>7
    <3>2. PICK y \in 1 .. Len(c) : d[b] = c[y] /\ y = IF b < i + 1 THEN b ELSE b - 1
      BY <2>3, <2>7
    <3>3. x = y
      BY <3>1, <3>2, <1>1 DEF Distinct
    <3> QED
      BY <3>1, <3>2, <3>3, <2>1, <2>7, <1>2
  <2> QED
    BY <2>5, <2>6, <2>7
<1>7. Increasing(t)
  <2> SUFFICES ASSUME NEW a \in 1 .. Len(t), NEW b \in 1 .. Len(t), a < b PROVE t[a] < t[b]
    BY DEF Increasing
  <2>1. a \in 1 .. Len(s) + 1 /\ b \in 1 .. Len(s) + 1
    BY <1>4
  <2>2. \A x, y \in 1 .. Len(s) : x < y => s[x] < s[y]
    BY <1>1 DEF Increasing
  <2>3. i > 1 => s[i - 1] < k
    OBVIOUS
  <2>4. i <= Len(s) => k < s[i]
    BY DEF Fits
  <2>5. CASE a = i
    <3>1. t[a] = k /\ t[b] = s[b - 1] /\ b - 1 \in i .. Len(s) /\ i \in 1 .. Len(s)
      BY <2>1, <2>5, <1>1, <1>2, <1>4
    <3>2. b - 1 = i \/ s[i] < s[b - 1]
      BY <3>1, <2>2
    <3> QED
      BY <3>1, <3>2, <2>4, <1>2
  <2>6. CASE b = i
    <3>1. t[b] = k /\ t[a] = s[a] /\ a \in 1 .. i - 1 /\ i - 1 \in 1 .. Len(s) /\ i > 1
      BY <2>1, <2>6, <1>1, <1>2, <1>4
    <3>2. a = i - 1 \/ s[a] < s[i - 1]
      <4> SUFFICES ASSUME a # i - 1 PROVE s[a] < s[i - 1]
        OBVIOUS
      <4>1. a \in 1 .. Len(s) /\ a < i - 1
        BY <3>1
      <4> QED
        BY <3>1, <4>1, <2>2
    <3> QED
      BY <3>1, <3>2, <2>3, <1>2
  <2>7. CASE a # i /\ b # i
    <3>1. PICK x \in 1 .. Len(s) : t[a] = s[x] /\ x = IF a < i THEN a ELSE a - 1
      BY <2>1, <2>7, <1>1, <1>2, <1>4
    <3>2. PICK y \in 1 .. Len(s) : t[b] = s[y] /\ y = IF b < i THEN b ELSE b - 1
      BY <2>1, <2>7, <1>1, <1>2, <1>4
    <3>3. x < y
      BY <2>1, <2>7, <3>1, <3>2, <1>2
    <3> QED
      BY <3>1, <3>2, <3>3, <2>2
  <2> QED
    BY <2>5, <2>6, <2>7
<1>8. ASSUME NEW j \in 1 .. Len(d)
      PROVE  /\ d[j] \in DOMAIN ms /\ Leaf(ms[d[j]], par, NextIn(d, j))
             /\ \A x \in ToSet(ms[d[j]].keys) : Fits(x, t, j)
  <2>1. j \in 1 .. Len(c) + 1
    BY <1>3
  <2>2. CASE j < i
    <3>1. /\ j \in 1 .. Len(c) /\ j + 1 \in 1 .. Len(c) + 1 /\ j + 1 < i + 1 /\ j < Len(d) /\ j < Len(c)
          /\ j # i
      BY <2>1, <2>2, <1>2, <1>3
    <3>2. d[j] = c[j] /\ NextIn(d, j) = NextIn(c, j) /\ ms[c[j]] = ns[c[j]]
      BY <3>1, <2>2, <1>2, <1>3 DEF NextIn
    <3>3. ASSUME NEW x, Fits(x, s, j) PROVE Fits(x, t, j)
      <4>1. (j > 1 => t[j - 1] = s[j - 1]) /\ t[j] = s[j] /\ j <= Len(s)
        BY <2>2, <3>1, <1>1, <1>2, <1>4
      <4> QED
        BY <3>3, <4>1 DEF Fits
    <3> QED
      BY <3>1, <3>2, <3>3, <1>1, <1>5
  <2>3. CASE j = i
    <3>1. d[j] = c[i] /\ NextIn(d, j) = new
      BY <2>3, <1>2, <1>3 DEF NextIn
    <3>2. ASSUME NEW x, Fits(x, s, i), x < k PROVE Fits(x, t, j)
      <4>1. (j > 1 => t[j - 1] = s[j - 1]) /\ t[j] = k
        BY <2>3, <1>1, <1>2, <1>4
      <4> QED
        BY <2>3, <3>2, <4>1 DEF Fits
    <3> QED
      BY <2>3, <3>1, <3>2, <1>5
  <2>4. CASE j = i + 1
    <3>1. d[j] = new
      BY <2>1, <2>4, <1>3
    <3>2. NextIn(d, j) = NextIn(c, i)
      <4>1. CASE i < Len(c)
        <5>1. j < Len(d) /\ j + 1 \in 1 .. Len(c) + 1 /\ ~ (j + 1 < i + 1) /\ j + 1 # i + 1 /\ j + 1 - 1 = i + 1
          BY <2>4, <4>1, <1>2, <1>3
        <5> QED
          BY <5>1, <4>1, <1>3 DEF NextIn
      <4>2. CASE ~ (i < Len(c))
        <5>1. ~ (j < Len(d))
          BY <2>4, <4>2, <1>2, <1>3
        <5> QED
          BY <5>1, <4>2 DEF NextIn
      <4> QED
        BY <4>1, <4>2
    <3>3. ASSUME NEW x, Fits(x, s, i), k <= x PROVE Fits(x, t, j)
      <4>1. t[j - 1] = k /\ (j <= Len(t) => t[j] = s[i] /\ i <= Len(s))
        BY <2>4, <1>1, <1>2, <1>4
      <4> QED
        BY <2>4, <3>3, <4>1 DEF Fits
    <3> QED
      BY <3>1, <3>2, <3>3, <1>5
  <2>5. CASE j > i + 1
    <3> DEFINE h == j - 1
    <3>1. /\ h \in 1 .. Len(c) /\ h # i /\ d[j] = c[h] /\ h + 1 = j /\ h > i
      BY <2>1, <2>5, <1>2, <1>3
    <3>2. NextIn(d, j) = NextIn(c, h)
      <4>1. CASE j < Len(d)
        <5>1. h < Len(c) /\ j + 1 \in 1 .. Len(c) + 1 /\ ~ (j + 1 < i + 1) /\ j + 1 # i + 1 /\ j + 1 - 1 = h + 1
          BY <2>5, <4>1, <1>2, <1>3
        <5> QED
          BY <5>1, <4>1, <1>3 DEF NextIn
      <4>2. CASE ~ (j < Len(d))
        <5>1. ~ (h < Len(c))
          BY <2>1, <2>5, <4>2, <1>2, <1>3
        <5> QED
          BY <5>1, <4>2 DEF NextIn
      <4> QED
        BY <4>1, <4>2
    <3>3. ms[c[h]] = ns[c[h]] /\ Leaf(ns[c[h]], par, NextIn(c, h))
          /\ \A x \in ToSet(ns[c[h]].keys) : Fits(x, s, h)
      BY <3>1, <1>1
    <3>4. ASSUME NEW x, Fits(x, s, h) PROVE Fits(x, t, j)
      <4>1. t[j - 1] = s[h - 1] /\ h > 1 /\ (j <= Len(t) => t[j] = s[h] /\ h <= Len(s))
        <5>1. j - 1 \in 1 .. Len(s) + 1 /\ ~ (j - 1 < i) /\ j - 1 # i /\ j - 1 - 1 = h - 1 /\ h > 1
          BY <2>1, <2>5, <1>1, <1>2
        <5>2. j <= Len(t) => j \in 1 .. Len(s) + 1 /\ ~ (j < i) /\ j # i /\ h <= Len(s)
          BY <2>1, <2>5, <1>1, <1>2, <1>4
        <5> QED
          BY <5>1, <5>2, <1>4
      <4> QED
        BY <3>4, <4>1 DEF Fits
    <3> HIDE DEF h
    <3> QED
      BY <3>1, <3>2, <3>3, <3>4, <1>5
  <2> QED
    BY <2>1, <2>2, <2>3, <2>4, <2>5
<1>9. Len(d) = Len(t) + 1
  BY <1>1, <1>3, <1>4
<1> QED
  BY <1>3, <1>4, <1>6, <1>7, <1>8, <1>9 DEF Leaves, d, t

LEMMA RemoveAtHas ==
  \A S : \A s \in Seq(S) : \A i \in 1 .. Len(s) :
    /\ RemoveAt(s, i) \in Seq(S)
    /\ Len(RemoveAt(s, i)) = Len(s) - 1
    /\ \A j \in 1 .. Len(s) - 1 : RemoveAt(s, i)[j] = IF j < i THEN s[j] ELSE s[j + 1]
BY RemoveAtIs

(* Two leaves become one. *)
LEMMA LeavesMerged ==
  ASSUME BPlusTreeConstants, NEW ns, NEW c, NEW s, NEW par, Leaves(ns, c, s, par),
         NEW ms, NEW i \in 1 .. Len(c) - 1,
         \A j \in 1 .. Len(c) : j # i + 1 => c[j] \in DOMAIN ms,
         \A j \in 1 .. Len(c) : j \notin {i, i + 1} => ms[c[j]] = ns[c[j]],
         Leaf(ms[c[i]], par, NextIn(c, i + 1)),
         \A x \in ToSet(ms[c[i]].keys) : x \in Nat /\ (Fits(x, s, i) \/ Fits(x, s, i + 1))
  PROVE  Leaves(ms, RemoveAt(c, i + 1), RemoveAt(s, i), par)
<1> DEFINE d == RemoveAt(c, i + 1)
           t == RemoveAt(s, i)
<1>1. /\ c \in Seq(Page) /\ s \in Seq(Key) /\ Len(c) = Len(s) + 1
      /\ Distinct(c) /\ Increasing(s)
      /\ \A j \in 1 .. Len(c) : /\ Leaf(ns[c[j]], par, NextIn(c, j))
                                /\ \A x \in ToSet(ns[c[j]].keys) : Fits(x, s, j)
  BY DEF Leaves
<1>2. Len(s) \in Nat /\ Len(c) \in Nat /\ \A j \in 1 .. Len(s) : s[j] \in Nat
  BY <1>1, KeysAreNumbers
<1>3. /\ d \in Seq(Page) /\ Len(d) = Len(c) - 1
      /\ \A j \in 1 .. Len(c) - 1 : d[j] = IF j < i + 1 THEN c[j] ELSE c[j + 1]
  <2>1. i + 1 \in 1 .. Len(c) /\ c \in Seq(Page)
    BY <1>1, <1>2
  <2>2. \A h \in 1 .. Len(c) :
          /\ RemoveAt(c, h) \in Seq(Page)
          /\ Len(RemoveAt(c, h)) = Len(c) - 1
          /\ \A j \in 1 .. Len(c) - 1 : RemoveAt(c, h)[j] = IF j < h THEN c[j] ELSE c[j + 1]
    BY <2>1, RemoveAtHas
  <2> QED
    BY <2>1, <2>2
<1>4. /\ t \in Seq(Key) /\ Len(t) = Len(s) - 1
      /\ \A j \in 1 .. Len(s) - 1 : t[j] = IF j < i THEN s[j] ELSE s[j + 1]
  <2>1. i \in 1 .. Len(s) /\ s \in Seq(Key)
    BY <1>1, <1>2
  <2>2. \A h \in 1 .. Len(s) :
          /\ RemoveAt(s, h) \in Seq(Key)
          /\ Len(RemoveAt(s, h)) = Len(s) - 1
          /\ \A j \in 1 .. Len(s) - 1 : RemoveAt(s, h)[j] = IF j < h THEN s[j] ELSE s[j + 1]
    BY <2>1, RemoveAtHas
  <2> QED
    BY <2>1, <2>2
<1> HIDE DEF d, t
<1>5. i \in Nat \ {0} /\ i <= Len(s) /\ i + 1 <= Len(c)
  BY <1>1, <1>2
<1>6. Distinct(d)
  <2> SUFFICES ASSUME NEW a \in 1 .. Len(d), NEW b \in 1 .. Len(d), d[a] = d[b] PROVE a = b
    BY DEF Distinct
  <2>1. PICK x \in 1 .. Len(c) : d[a] = c[x] /\ x = IF a < i + 1 THEN a ELSE a + 1
    BY <1>2, <1>3
  <2>2. PICK y \in 1 .. Len(c) : d[b] = c[y] /\ y = IF b < i + 1 THEN b ELSE b + 1
    BY <1>2, <1>3
  <2>3. x = y
    BY <2>1, <2>2, <1>1 DEF Distinct
  <2> QED
    BY <2>1, <2>2, <2>3, <1>2, <1>3, <1>5
<1>7. Increasing(t)
  <2> SUFFICES ASSUME NEW a \in 1 .. Len(t), NEW b \in 1 .. Len(t), a < b PROVE t[a] < t[b]
    BY DEF Increasing
  <2>1. PICK x \in 1 .. Len(s) : t[a] = s[x] /\ x = IF a < i THEN a ELSE a + 1
    BY <1>2, <1>4
  <2>2. PICK y \in 1 .. Len(s) : t[b] = s[y] /\ y = IF b < i THEN b ELSE b + 1
    BY <1>2, <1>4
  <2>3. x < y
    <3>1. a \in Nat /\ b \in Nat /\ i \in Nat
      BY <1>2, <1>4, <1>5
    <3>2. CASE b < i
      BY <2>1, <2>2, <3>1, <3>2
    <3>3. CASE ~ (b < i)
      BY <2>1, <2>2, <3>1, <3>3
    <3> QED
      BY <3>2, <3>3
  <2>4. s[x] < s[y]
    BY <2>3, <1>1 DEF Increasing
  <2> QED
    BY <2>1, <2>2, <2>4
<1>8. ASSUME NEW j \in 1 .. Len(d)
      PROVE  /\ d[j] \in DOMAIN ms /\ Leaf(ms[d[j]], par, NextIn(d, j))
             /\ \A x \in ToSet(ms[d[j]].keys) : Fits(x, t, j)
  <2>1. j \in 1 .. Len(c) - 1
    BY <1>3
  <2>2. CASE j < i
    <3>1. /\ j \in 1 .. Len(c) /\ j + 1 \in 1 .. Len(c) - 1 /\ j + 1 < i + 1 /\ j < Len(d) /\ j < Len(c)
          /\ j \notin {i, i + 1} /\ j # i + 1
      BY <2>1, <2>2, <1>2, <1>3, <1>5
    <3>2. d[j] = c[j] /\ NextIn(d, j) = NextIn(c, j) /\ ms[c[j]] = ns[c[j]] /\ c[j] \in DOMAIN ms
      BY <3>1, <2>2, <1>2, <1>3 DEF NextIn
    <3>3. ASSUME NEW x, Fits(x, s, j) PROVE Fits(x, t, j)
      <4>1. j \in 1 .. Len(s) - 1 /\ j <= Len(s) /\ (j > 1 => j - 1 \in 1 .. Len(s) - 1 /\ j - 1 < i)
        BY <2>2, <3>1, <1>1, <1>2
      <4>2. t[j] = s[j]
        BY <1>4, <2>2, <4>1
      <4>3. j > 1 => t[j - 1] = s[j - 1]
        BY <1>4, <4>1
      <4> QED
        BY <3>3, <4>1, <4>2, <4>3 DEF Fits
    <3> QED
      BY <3>1, <3>2, <3>3, <1>1
  <2>3. CASE j = i
    <3>1. d[j] = c[i] /\ c[i] \in DOMAIN ms
      <4>1. i \in 1 .. Len(c) /\ i # i + 1
        BY <1>2
      <4> QED
        BY <2>1, <2>3, <1>3, <4>1
    <3>4. NextIn(d, j) = NextIn(c, i + 1)
      <4>1. CASE j < Len(d)
        <5>1. j + 1 \in 1 .. Len(c) - 1 /\ ~ (j + 1 < i + 1) /\ i + 1 < Len(c) /\ j + 1 + 1 = i + 1 + 1
          BY <2>3, <4>1, <1>2, <1>3
        <5> QED
          BY <5>1, <4>1, <1>3 DEF NextIn
      <4>2. CASE ~ (j < Len(d))
        <5>1. ~ (i + 1 < Len(c))
          BY <2>1, <2>3, <4>2, <1>2, <1>3
        <5> QED
          BY <5>1, <4>2 DEF NextIn
      <4> QED
        BY <4>1, <4>2
    <3>2. ASSUME NEW x \in Nat, Fits(x, s, i) \/ Fits(x, s, i + 1) PROVE Fits(x, t, j)
      <4>1. /\ j > 1 => t[j - 1] = s[i - 1] /\ i - 1 \in 1 .. Len(s) /\ i \in 1 .. Len(s)
            /\ j <= Len(t) => t[j] = s[i + 1] /\ i + 1 \in 1 .. Len(s) /\ i \in 1 .. Len(s)
        BY <2>3, <1>1, <1>2, <1>4, <1>5
      <4>2. /\ j > 1 => s[i - 1] < s[i]
            /\ j <= Len(t) => s[i] < s[i + 1]
        <5>1. i - 1 < i /\ i < i + 1
          BY <1>5
        <5> QED
          BY <4>1, <5>1, <1>1 DEF Increasing
      <4>3. i \in 1 .. Len(s) /\ s[i] \in Nat
        BY <1>2, <1>5
      <4>4. i + 1 - 1 = i /\ i + 1 > 1
        BY <1>5
      <4>5. CASE Fits(x, s, i)
        <5>1. x < s[i] /\ (i > 1 => s[i - 1] <= x)
          BY <4>5, <1>5 DEF Fits
        <5>2. j <= Len(t) => x < t[j]
          BY <5>1, <4>1, <4>2, <4>3, <1>2
        <5> QED
          BY <2>3, <5>1, <5>2, <4>1 DEF Fits
      <4>6. CASE Fits(x, s, i + 1)
        <5>1. s[i] <= x /\ (i + 1 <= Len(s) => x < s[i + 1])
          BY <4>6, <4>4 DEF Fits
        <5>2. j > 1 => t[j - 1] <= x
          BY <5>1, <4>1, <4>2, <4>3, <1>2, SMTT(20)
        <5>3. j <= Len(t) => x < t[j]
          BY <5>1, <4>1
        <5> QED
          BY <5>2, <5>3 DEF Fits
      <4> QED
        BY <3>2, <4>5, <4>6
    <3> QED
      BY <2>3, <3>1, <3>2, <3>4
  <2>4. CASE j > i
    <3> DEFINE h == j + 1
    <3>1. /\ h \in 1 .. Len(c) /\ h \notin {i, i + 1} /\ h # i + 1 /\ d[j] = c[h] /\ j = h - 1 /\ h > i + 1
      BY <2>1, <2>4, <1>2, <1>3, <1>5
    <3>2. NextIn(d, j) = NextIn(c, h)
      <4>1. CASE j < Len(d)
        <5>1. h < Len(c) /\ j + 1 \in 1 .. Len(c) - 1 /\ ~ (j + 1 < i + 1) /\ j + 1 + 1 = h + 1
          BY <2>4, <4>1, <1>2, <1>3
        <5> QED
          BY <5>1, <4>1, <1>3 DEF NextIn
      <4>2. CASE ~ (j < Len(d))
        <5>1. ~ (h < Len(c))
          BY <2>1, <4>2, <1>2, <1>3
        <5> QED
          BY <5>1, <4>2 DEF NextIn
      <4> QED
        BY <4>1, <4>2
    <3>3. ms[c[h]] = ns[c[h]] /\ Leaf(ns[c[h]], par, NextIn(c, h)) /\ c[h] \in DOMAIN ms
          /\ \A x \in ToSet(ns[c[h]].keys) : Fits(x, s, h)
      BY <3>1, <1>1
    <3>4. ASSUME NEW x, Fits(x, s, h) PROVE Fits(x, t, j)
      <4>1. j > 1 => t[j - 1] = s[h - 1] /\ h > 1
        <5>1. j - 1 \in 1 .. Len(s) - 1 /\ ~ (j - 1 < i) /\ j - 1 + 1 = h - 1 /\ h > 1
          BY <2>1, <2>4, <1>1, <1>2, <1>5
        <5> QED
          BY <5>1, <1>4
      <4>2. j <= Len(t) => t[j] = s[h] /\ h <= Len(s)
        BY <2>1, <2>4, <1>1, <1>2, <1>4, <1>5
      <4> QED
        BY <3>4, <4>1, <4>2 DEF Fits
    <3> HIDE DEF h
    <3> QED
      BY <3>1, <3>2, <3>3, <3>4
  <2> QED
    BY <2>1, <2>2, <2>3, <2>4, <1>5
<1>9. Len(d) = Len(t) + 1
  BY <1>1, <1>3, <1>4
<1> QED
  BY <1>3, <1>4, <1>6, <1>7, <1>8, <1>9 DEF Leaves, d, t

(* An entry moves to the leaf next to it, and the key between them with it. *)
LEMMA LeavesBorrowed ==
  ASSUME BPlusTreeConstants, NEW ns, NEW c, NEW s, NEW par, Leaves(ns, c, s, par),
         NEW ms, NEW i \in 1 .. Len(s), NEW k \in Key,
         i > 1 => s[i - 1] < k, i < Len(s) => k < s[i + 1],
         \A j \in 1 .. Len(c) : c[j] \in DOMAIN ms,
         \A j \in 1 .. Len(c) : j \notin {i, i + 1} => ms[c[j]] = ns[c[j]],
         Leaf(ms[c[i]], par, NextIn(c, i)), Leaf(ms[c[i + 1]], par, NextIn(c, i + 1)),
         \A x \in ToSet(ms[c[i]].keys) : x < k /\ (i > 1 => s[i - 1] <= x),
         \A x \in ToSet(ms[c[i + 1]].keys) : k <= x /\ (i < Len(s) => x < s[i + 1])
  PROVE  Leaves(ms, c, [s EXCEPT ![i] = k], par)
<1> DEFINE t == [s EXCEPT ![i] = k]
<1>1. /\ c \in Seq(Page) /\ s \in Seq(Key) /\ Len(c) = Len(s) + 1
      /\ Distinct(c) /\ Increasing(s)
      /\ \A j \in 1 .. Len(c) : /\ Leaf(ns[c[j]], par, NextIn(c, j))
                                /\ \A x \in ToSet(ns[c[j]].keys) : Fits(x, s, j)
  BY DEF Leaves
<1>2. Len(s) \in Nat /\ Len(c) \in Nat /\ k \in Nat /\ \A j \in 1 .. Len(s) : s[j] \in Nat
  <2>1. k \in Nat
    BY DEF BPlusTreeConstants
  <2> QED
    BY <2>1, <1>1, KeysAreNumbers
<1>4. /\ t \in Seq(Key) /\ Len(t) = Len(s)
      /\ \A j \in 1 .. Len(s) : t[j] = IF j = i THEN k ELSE s[j]
  BY <1>1, ExceptSeq
<1> HIDE DEF t
<1>5. i \in Nat \ {0} /\ i <= Len(s) /\ i + 1 <= Len(c)
  BY <1>1, <1>2
<1>7. Increasing(t)
  <2> SUFFICES ASSUME NEW a \in 1 .. Len(s), NEW b \in 1 .. Len(s), a < b PROVE t[a] < t[b]
    BY <1>4 DEF Increasing
  <2>2. \A x, y \in 1 .. Len(s) : x < y => s[x] < s[y]
    BY <1>1 DEF Increasing
  <2>3. CASE a = i
    <3>1. t[a] = k /\ t[b] = s[b] /\ i < Len(s) /\ i + 1 \in 1 .. Len(s) /\ i + 1 <= b
      BY <2>3, <1>2, <1>4
    <3>2. b = i + 1 \/ s[i + 1] < s[b]
      BY <3>1, <2>2, <1>2
    <3> QED
      BY <3>1, <3>2, <1>2
  <2>4. CASE b = i
    <3>1. t[b] = k /\ t[a] = s[a] /\ i > 1 /\ i - 1 \in 1 .. Len(s) /\ a <= i - 1
      BY <2>4, <1>2, <1>4
    <3>2. a = i - 1 \/ s[a] < s[i - 1]
      BY <3>1, <2>2, <1>2
    <3> QED
      BY <3>1, <3>2, <1>2
  <2>5. CASE a # i /\ b # i
    BY <2>2, <2>5, <1>4
  <2> QED
    BY <2>3, <2>4, <2>5
<1>8. ASSUME NEW j \in 1 .. Len(c)
      PROVE  /\ c[j] \in DOMAIN ms /\ Leaf(ms[c[j]], par, NextIn(c, j))
             /\ \A x \in ToSet(ms[c[j]].keys) : Fits(x, t, j)
  <2>1. CASE j = i
    <3>1. ASSUME NEW x, x < k, i > 1 => s[i - 1] <= x PROVE Fits(x, t, i)
      <4>1. t[i] = k /\ (i > 1 => t[i - 1] = s[i - 1])
        BY <1>2, <1>4, <1>5
      <4> QED
        BY <3>1, <4>1 DEF Fits
    <3> QED
      BY <2>1, <3>1
  <2>2. CASE j = i + 1
    <3>1. ASSUME NEW x, k <= x, i < Len(s) => x < s[i + 1] PROVE Fits(x, t, j)
      <4>1. t[j - 1] = k /\ (j <= Len(t) => t[j] = s[i + 1] /\ i < Len(s))
        BY <2>2, <1>2, <1>4, <1>5
      <4> QED
        BY <3>1, <4>1 DEF Fits
    <3> QED
      BY <2>2, <3>1
  <2>3. CASE j \notin {i, i + 1}
    <3>1. ms[c[j]] = ns[c[j]]
      BY <2>3
    <3>2. ASSUME NEW x, Fits(x, s, j) PROVE Fits(x, t, j)
      <4>1. (j > 1 => t[j - 1] = s[j - 1]) /\ (j <= Len(t) => t[j] = s[j] /\ j <= Len(s))
        BY <2>3, <1>1, <1>2, <1>4, <1>5
      <4> QED
        BY <3>2, <4>1 DEF Fits
    <3> QED
      BY <3>1, <3>2, <1>1
  <2> QED
    BY <2>1, <2>2, <2>3
<1> QED
  BY <1>1, <1>4, <1>7, <1>8 DEF Leaves, t

(* The keys that pages P of ns hold. *)
KeysIn(ns, P) == UNION {ToSet(ns[p].keys) : p \in {q \in P \cap DOMAIN ns : IsLeaf(ns[q])}}

LEMMA KeysElsewhere ==
  ASSUME NEW ns, NEW ms, NEW P,
         \A p : p \notin P => (p \in DOMAIN ns <=> p \in DOMAIN ms),
         \A p \in DOMAIN ns \ P : /\ IsLeaf(ns[p]) <=> IsLeaf(ms[p])
                                  /\ IsLeaf(ns[p]) => ns[p].keys = ms[p].keys
  PROVE  \E O : /\ LeafKeys(ns) = O \cup KeysIn(ns, P)
                /\ LeafKeys(ms) = O \cup KeysIn(ms, P)
                /\ O = KeysIn(ns, DOMAIN ns \ P)
<1> DEFINE O == KeysIn(ns, DOMAIN ns \ P)
<1>1. LeafKeys(ns) = O \cup KeysIn(ns, P)
  BY DEF LeafKeys, KeysIn
<1>2. O = KeysIn(ms, DOMAIN ms \ P)
  <2>1. \A x : x \in O <=> \E p \in DOMAIN ns \ P : IsLeaf(ns[p]) /\ x \in ToSet(ns[p].keys)
    BY DEF KeysIn
  <2>2. \A x : x \in KeysIn(ms, DOMAIN ms \ P)
                 <=> \E p \in DOMAIN ms \ P : IsLeaf(ms[p]) /\ x \in ToSet(ms[p].keys)
    BY DEF KeysIn
  <2> HIDE DEF O
  <2> QED
    BY <2>1, <2>2
<1>3. LeafKeys(ms) = KeysIn(ms, DOMAIN ms \ P) \cup KeysIn(ms, P)
  BY DEF LeafKeys, KeysIn
<1> QED
  BY <1>1, <1>2, <1>3

-------------------------------------------------------------------------------
(* One step: insertion and removal in a leaf. *)

LEMMA NewPageIs ==
  ASSUME NEW U, Page \ U # {} PROVE NewPage(U) \in Page \ U
<1> DEFINE S == Page \ U
<1>1. S \subseteq Nat /\ S # {}
  BY DEF Page
<1>2. PICK x \in S : \A y \in S : ~ (<<y, x>> \in OpToRel(<, Nat))
  <2>1. S \in SUBSET Nat
    BY <1>1
  <2> HIDE DEF S
  <2> QED
    BY <1>1, <2>1, NatLessThanWellFounded, WFMin
<1>3. \A y \in S : x <= y
  <2> SUFFICES ASSUME NEW y \in S, y < x PROVE FALSE
    BY <1>1
  <2>1. <<y, x>> \in OpToRel(<, Nat)
    BY <1>1 DEF OpToRel
  <2> QED
    BY <1>2, <2>1
<1>4. NewPage(U) = CHOOSE y \in S : \A z \in S : y <= z
  BY DEF NewPage, Min
<1> HIDE DEF S
<1>5. NewPage(U) \in S
  BY <1>3, <1>4
<1> QED
  BY <1>5 DEF S

LEMMA Headers ==
  ASSUME TwoLevels
  PROVE  /\ HeaderWrites = {TRUE} /\ Deletions = {TRUE}
         /\ \A saved \in HeaderWrites : PersistRoot(saved) => header_root' = root'
BY DEF TwoLevels, HeaderWrites, Deletions, PersistRoot

(* The leaf that a key is looked for in, and no other, may hold it. *)
LEMMA TheLeaf ==
  ASSUME BPlusTreeConstants, NEW k \in Key, Shape(nodes, root, task), task = Idle,
         root # INVALID_PAGE_ID, NEW leaf, leaf = FindLeafPage(k)
  PROVE  /\ leaf \in DOMAIN nodes /\ IsLeaf(nodes[leaf])
         /\ Leaf(nodes[leaf], nodes[leaf].parent, nodes[leaf].next)
         /\ k \notin KeysIn(nodes, DOMAIN nodes \ {leaf})
         /\ leaf = root => DOMAIN nodes = {root}
<1>1. PICK c, s : /\ Chained(nodes, root, c, s)
                  /\ \/ Single(nodes, root, task) /\ c = <<root>> /\ s = <<>>
                     \/ Full(nodes, root, task, c, s)
                  /\ \E i \in 1 .. Len(c) : FindLeafPage(k) = c[i] /\ Fits(k, s, i)
  BY Located
<1>2. PICK i \in 1 .. Len(c) : leaf = c[i] /\ Fits(k, s, i)
  BY <1>1
<1>3. PICK par : Leaves(nodes, c, s, par)
  BY <1>1 DEF Chained
<1>4. c \in Seq(Page) /\ s \in Seq(Key) /\ Len(c) = Len(s) + 1 /\ Increasing(s)
  BY <1>3 DEF Leaves
<1>5. leaf \in DOMAIN nodes /\ Leaf(nodes[leaf], par, NextIn(c, i))
  BY <1>2, <1>3 DEF Leaves
<1>6. nodes[leaf].parent = par /\ nodes[leaf].next = NextIn(c, i) /\ IsLeaf(nodes[leaf])
  BY <1>5 DEF Leaf, NewLeaf, IsLeaf
<1>7. k \notin KeysIn(nodes, DOMAIN nodes \ {leaf})
  <2> SUFFICES ASSUME NEW p \in DOMAIN nodes \ {leaf}, IsLeaf(nodes[p]), k \in ToSet(nodes[p].keys)
               PROVE  FALSE
    BY DEF KeysIn
  <2>1. p \in ToSet(c)
    BY <1>1, ChainedPages
  <2>2. PICK j \in 1 .. Len(c) : c[j] = p
    BY <2>1, <1>4, Members
  <2>3. Fits(k, s, j)
    BY <2>2, <1>3 DEF Leaves
  <2>4. i = j
    BY <1>2, <1>4, <2>2, <2>3, FitsOnce
  <2> QED
    BY <1>2, <2>2, <2>4
<1>8. ASSUME leaf = root PROVE DOMAIN nodes = {root}
  <2>1. ~ Full(nodes, root, task, c, s)
    BY <1>6, <1>8 DEF Full, Inner, NewInternal, IsLeaf
  <2> QED
    BY <1>1, <2>1 DEF Single
<1> QED
  BY <1>5, <1>6, <1>7, <1>8

(* What another leaf in its place makes of the tree. *)
LEMMA LeafReplaced ==
  ASSUME BPlusTreeConstants, NEW k \in Key, Shape(nodes, root, task), task = Idle,
         root # INVALID_PAGE_ID, NEW leaf, leaf = FindLeafPage(k),
         NEW n, Leaf(n, nodes[leaf].parent, nodes[leaf].next),
         \A x \in ToSet(n.keys) : x \in ToSet(nodes[leaf].keys) \/ x = k
  PROVE  /\ Shape([nodes EXCEPT ![leaf] = n], root, Idle)
         /\ leaf # root => Shape([nodes EXCEPT ![leaf] = n], root, RebalanceTask(leaf))
         /\ \E O : /\ LeafKeys(nodes) = O \cup ToSet(nodes[leaf].keys)
                   /\ LeafKeys([nodes EXCEPT ![leaf] = n]) = O \cup ToSet(n.keys)
                   /\ k \notin O
<1> DEFINE ms == [nodes EXCEPT ![leaf] = n]
<1>1. PICK c, s : /\ Chained(nodes, root, c, s)
                  /\ \/ Single(nodes, root, task) /\ c = <<root>> /\ s = <<>>
                     \/ Full(nodes, root, task, c, s)
                  /\ \E i \in 1 .. Len(c) : FindLeafPage(k) = c[i] /\ Fits(k, s, i)
  BY Located
<1>2. PICK i \in 1 .. Len(c) : leaf = c[i] /\ Fits(k, s, i)
  BY <1>1
<1>3. ASSUME NEW par, Leaves(nodes, c, s, par) PROVE Leaves(ms, c, s, par)
  <2>1. /\ c \in Seq(Page) /\ Distinct(c)
        /\ \A j \in 1 .. Len(c) : c[j] \in DOMAIN nodes
        /\ Leaf(nodes[leaf], par, NextIn(c, i))
        /\ \A x \in ToSet(nodes[leaf].keys) : Fits(x, s, i)
    BY <1>2, <1>3 DEF Leaves
  <2>2. nodes[leaf].parent = par /\ nodes[leaf].next = NextIn(c, i)
    BY <2>1 DEF Leaf, NewLeaf
  <2>3. \A x \in ToSet(n.keys) : Fits(x, s, i)
    BY <1>2, <2>1
  <2>4. \A j \in 1 .. Len(c) : c[j] \in DOMAIN ms
    BY <2>1
  <2>5. \A j \in (1 .. Len(c)) \ {i} : ms[c[j]] = nodes[c[j]]
    BY <1>2, <2>1 DEF Distinct
  <2>6. ms[c[i]] = n
    BY <1>2, <2>1
  <2>7. \A j \in (1 .. Len(c)) \cap {i} : /\ Leaf(ms[c[j]], par, NextIn(c, j))
                                         /\ \A x \in ToSet(ms[c[j]].keys) : Fits(x, s, j)
    BY <2>2, <2>3, <2>6
  <2> HIDE DEF ms
  <2> QED
    BY <1>3, <2>4, <2>5, <2>7, LeavesChanged
<1>4. ASSUME NEW t, t = Idle \/ (leaf # root /\ t = RebalanceTask(leaf))
      PROVE  Shape(ms, root, t)
  <2>1. CASE Single(nodes, root, task) /\ c = <<root>> /\ s = <<>>
    <3>1. leaf = root
      BY <1>2, <2>1
    <3>2. Single(ms, root, t)
      BY <1>3, <1>4, <2>1, <3>1 DEF Single
    <3> QED
      BY <3>2 DEF Shape
  <2>2. CASE Full(nodes, root, task, c, s)
    <3>1. Inner(nodes, root, c, s) /\ DOMAIN nodes = ToSet(c) \cup {root}
          /\ Leaves(nodes, c, s, root) /\ Len(s) <= InternalMax /\ c \in Seq(Page)
      BY <2>2 DEF Full, Leaves
    <3>2. leaf \in ToSet(c) /\ leaf # root
      BY <1>2, <3>1, Members DEF Inner
    <3>3. Inner(ms, root, c, s)
      BY <3>1, <3>2 DEF Inner
    <3>4. t = Idle \/ \E p \in DOMAIN ms : t = RebalanceTask(p)
      BY <1>4, <3>1, <3>2
    <3>5. DOMAIN ms = ToSet(c) \cup {root}
      BY <3>1
    <3>6. Full(ms, root, t, c, s)
      BY <1>3, <3>1, <3>3, <3>4, <3>5 DEF Full
    <3> QED
      BY <3>6 DEF Shape
  <2> QED
    BY <1>1, <2>1, <2>2
<1>5. /\ leaf \in DOMAIN nodes /\ IsLeaf(nodes[leaf]) /\ k \notin KeysIn(nodes, DOMAIN nodes \ {leaf})
  BY TheLeaf
<1>6. ms[leaf] = n /\ IsLeaf(n) /\ DOMAIN ms = DOMAIN nodes
      /\ \A p \in DOMAIN nodes \ {leaf} : ms[p] = nodes[p]
  BY <1>5 DEF Leaf, NewLeaf, IsLeaf
<1> HIDE DEF ms
<1>7. PICK O : /\ LeafKeys(nodes) = O \cup KeysIn(nodes, {leaf})
               /\ LeafKeys(ms) = O \cup KeysIn(ms, {leaf})
               /\ O = KeysIn(nodes, DOMAIN nodes \ {leaf})
  <2>1. \A p : p \notin {leaf} => (p \in DOMAIN nodes <=> p \in DOMAIN ms)
    BY <1>6
  <2>2. \A p \in DOMAIN nodes \ {leaf} : /\ IsLeaf(nodes[p]) <=> IsLeaf(ms[p])
                                         /\ IsLeaf(nodes[p]) => nodes[p].keys = ms[p].keys
    BY <1>6
  <2> QED
    BY <2>1, <2>2, KeysElsewhere
<1>8. KeysIn(nodes, {leaf}) = ToSet(nodes[leaf].keys) /\ KeysIn(ms, {leaf}) = ToSet(n.keys)
  BY <1>5, <1>6 DEF KeysIn
<1> QED
  BY <1>4, <1>5, <1>7, <1>8 DEF ms

LEMMA StartNewTreeKeeps ==
  ASSUME BPlusTreeConstants, TwoLevels, TreeInv, NEW k \in Key, StartNewTree(k)
  PROVE  TreeInv' /\ k \notin LeafKeys(nodes) /\ LeafKeys(nodes') = LeafKeys(nodes) \cup {k}
<1> DEFINE p == NewPage(DOMAIN nodes)
           n == NewLeaf(INVALID_PAGE_ID, <<k>>, INVALID_PAGE_ID)
<1>1. /\ nodes' = Put(p, n, nodes) /\ root' = p /\ task' = task /\ task = Idle /\ header_root' = root'
      /\ root = INVALID_PAGE_ID /\ Page \ DOMAIN nodes # {}
  BY Headers DEF StartNewTree
<1>2. DOMAIN nodes = {}
  BY <1>1, RootOrNothing DEF TreeInv, Empty
<1>3. p \in Page
  BY <1>1, NewPageIs
<1> HIDE DEF p
<1>4. DOMAIN nodes' = {p} /\ nodes'[p] = n
  BY <1>1, <1>2 DEF Put
<1>5. Leaf(n, INVALID_PAGE_ID, INVALID_PAGE_ID) /\ n.keys = <<k>>
  <2>1. <<k>> \in Seq(Key) /\ Len(<<k>>) = 1 /\ 1 <= LeafMax /\ INVALID_PAGE_ID \in PageId
        /\ <<>> \in Seq(Page)
    BY DEF BPlusTreeConstants, PageId
  <2>2. n \in Node /\ n.keys = <<k>>
    BY <2>1 DEF NewLeaf, Node
  <2>3. Increasing(<<k>>)
    BY <2>1 DEF Increasing
  <2> QED
    BY <2>1, <2>2, <2>3 DEF Leaf
<1> HIDE DEF n
<1>6. Leaves(nodes', <<p>>, <<>>, INVALID_PAGE_ID)
  <2>1. <<p>> \in Seq(Page) /\ <<>> \in Seq(Key) /\ Len(<<p>>) = Len(<<>>) + 1 /\ Len(<<p>>) = 1
        /\ <<p>>[1] = p
    BY <1>3
  <2>2. Distinct(<<p>>) /\ Increasing(<<>>) /\ NextIn(<<p>>, 1) = INVALID_PAGE_ID
    BY <2>1 DEF Distinct, Increasing, NextIn
  <2>3. \A x : Fits(x, <<>>, 1)
    BY DEF Fits
  <2> QED
    BY <2>1, <2>2, <2>3, <1>4, <1>5 DEF Leaves
<1>7. Single(nodes', p, Idle)
  BY <1>4, <1>6 DEF Single
<1>8. LeafKeys(nodes) = {} /\ LeafKeys(nodes') = {k}
  <2>1. IsLeaf(n)
    BY <1>5 DEF Leaf, NewLeaf, IsLeaf
  <2>2. ToSet(<<k>>) = {k}
    BY SmallSeqs
  <2> QED
    BY <2>1, <2>2, <1>2, <1>4, <1>5 DEF LeafKeys
<1> QED
  BY <1>1, <1>7, <1>8 DEF TreeInv, Shape

LEMMA InsertIntoLeafKeeps ==
  ASSUME BPlusTreeConstants, TwoLevels, TreeInv, NEW k \in Key, InsertIntoLeaf(k)
  PROVE  TreeInv' /\ k \notin LeafKeys(nodes) /\ LeafKeys(nodes') = LeafKeys(nodes) \cup {k}
<1> DEFINE leaf == FindLeafPage(k)
           n == InsertKey(nodes[leaf], k)
<1>1. /\ task = Idle /\ root # INVALID_PAGE_ID /\ leaf # INVALID_PAGE_ID
      /\ ~Contains(nodes[leaf].keys, k)
      /\ HasRoom(nodes[leaf])
      /\ nodes' = [nodes EXCEPT ![leaf] = InsertKey(@, k)]
      /\ root' = root /\ header_root' = header_root /\ task' = task
  BY DEF InsertIntoLeaf
<1>2. Shape(nodes, root, task) /\ header_root = root
  BY DEF TreeInv
<1>3. /\ leaf \in DOMAIN nodes /\ IsLeaf(nodes[leaf])
      /\ Leaf(nodes[leaf], nodes[leaf].parent, nodes[leaf].next)
  BY <1>1, <1>2, TheLeaf
<1>4. nodes' = [nodes EXCEPT ![leaf] = n]
  BY <1>1
<1> HIDE DEF leaf
<1>5. /\ nodes[leaf] \in Node /\ Increasing(nodes[leaf].keys) /\ nodes[leaf].keys \in Seq(Key)
      /\ k \notin ToSet(nodes[leaf].keys)
  <2>1. /\ nodes[leaf] \in Node /\ Increasing(nodes[leaf].keys) /\ nodes[leaf].keys \in Seq(Key)
    BY <1>3 DEF Leaf, Node
  <2> QED
    BY <2>1, <1>1, Members
<1>6. /\ n = [nodes[leaf] EXCEPT !.keys = InsertAt(nodes[leaf].keys, KeyIndex(nodes[leaf], k), k)]
      /\ n \in Node /\ Increasing(n.keys)
      /\ Len(n.keys) = Len(nodes[leaf].keys) + 1
      /\ ToSet(n.keys) = ToSet(nodes[leaf].keys) \cup {k}
  BY <1>5, InsertKeyIs
<1>7. Leaf(n, nodes[leaf].parent, nodes[leaf].next)
  <2>1. Len(nodes[leaf].keys) < LeafMax
    BY <1>1, <1>3 DEF HasRoom, Size, MaxSize
  <2>2. Len(n.keys) <= LeafMax
    BY <2>1, <1>5, <1>6 DEF BPlusTreeConstants
  <2>3. n = NewLeaf(nodes[leaf].parent, n.keys, nodes[leaf].next)
    <3>1. nodes[leaf] = NewLeaf(nodes[leaf].parent, nodes[leaf].keys, nodes[leaf].next)
      BY <1>3 DEF Leaf
    <3> DEFINE m == nodes[leaf]
               r == InsertAt(m.keys, KeyIndex(m, k), k)
    <3>2. n = [m EXCEPT !.keys = r] /\ m \in Node
      BY <1>5, <1>6
    <3> HIDE DEF m, r, n
    <3>3. n.keys = r
      BY <3>2 DEF Node
    <3>4. m = NewLeaf(m.parent, m.keys, m.next)
      BY <3>1 DEF m
    <3>5. ASSUME NEW a, NEW b, NEW d, m = NewLeaf(a, b, d) PROVE n = NewLeaf(a, r, d)
      BY <3>2, <3>5 DEF NewLeaf
    <3> QED
      BY <3>3, <3>4, <3>5 DEF m
  <2> QED
    BY <1>6, <2>2, <2>3 DEF Leaf
<1> HIDE DEF n
<1>8. leaf = FindLeafPage(k)
  BY DEF leaf
<1>9. /\ Shape([nodes EXCEPT ![leaf] = n], root, Idle)
      /\ \E O : /\ LeafKeys(nodes) = O \cup ToSet(nodes[leaf].keys)
                /\ LeafKeys([nodes EXCEPT ![leaf] = n]) = O \cup ToSet(n.keys)
                /\ k \notin O
  <2>1. \A x \in ToSet(n.keys) : x \in ToSet(nodes[leaf].keys) \/ x = k
    BY <1>6
  <2>2. root # INVALID_PAGE_ID /\ task = Idle
    BY <1>1
  <2> QED
    BY <2>2, <1>2, <1>7, <1>8, <2>1, LeafReplaced
<1> QED
  BY <1>1, <1>2, <1>4, <1>5, <1>6, <1>9 DEF TreeInv

LEMMA LeafRekeyed ==
  ASSUME NEW m, NEW par, NEW nxt, Leaf(m, par, nxt), NEW r \in Seq(Key), Increasing(r), Len(r) <= LeafMax
  PROVE  Leaf([m EXCEPT !.keys = r], par, nxt) /\ [m EXCEPT !.keys = r].keys = r
<1> DEFINE n == [m EXCEPT !.keys = r]
<1>1. m \in Node /\ m = NewLeaf(par, m.keys, nxt)
  BY DEF Leaf
<1>2. n \in Node /\ n.keys = r
  BY <1>1 DEF Node
<1>3. n = NewLeaf(par, r, nxt)
  <2>1. ASSUME NEW a, m = NewLeaf(par, a, nxt) PROVE n = NewLeaf(par, r, nxt)
    BY <2>1 DEF NewLeaf
  <2> QED
    BY <1>1, <2>1
<1> HIDE DEF n
<1>4. Leaf(n, par, nxt)
  BY <1>2, <1>3 DEF Leaf
<1> QED
  BY <1>2, <1>4 DEF n

(* The leaf of a key without it. *)
LEMMA KeyTakenOut ==
  ASSUME BPlusTreeConstants, NEW k \in Key, NEW m, NEW par, NEW nxt, Leaf(m, par, nxt),
         Contains(m.keys, k)
  PROVE  /\ Leaf(RemoveKey(m, k), par, nxt)
         /\ ToSet(RemoveKey(m, k).keys) = ToSet(m.keys) \ {k} /\ k \in ToSet(m.keys)
<1>1. /\ m \in Node /\ Increasing(m.keys) /\ m.keys \in Seq(Key) /\ Len(m.keys) <= LeafMax
      /\ LeafMax \in Nat
  BY DEF Leaf, Node, BPlusTreeConstants
<1>2. k \in ToSet(m.keys)
  BY <1>1, Members
<1> DEFINE n == RemoveKey(m, k)
           r == RemoveAt(m.keys, KeyIndex(m, k))
<1>3. /\ n = [m EXCEPT !.keys = r]
      /\ n \in Node /\ Increasing(n.keys) /\ Len(n.keys) = Len(m.keys) - 1
      /\ ToSet(n.keys) = ToSet(m.keys) \ {k}
  BY <1>1, <1>2, RemoveKeyIs
<1> HIDE DEF r
<1>4. n.keys = r
  BY <1>1, <1>3 DEF Node
<1> HIDE DEF n
<1>5. r \in Seq(Key) /\ Increasing(r) /\ Len(r) <= LeafMax
  <2>1. n.keys \in Seq(Key)
    BY <1>3 DEF Node
  <2>2. Len(n.keys) <= LeafMax
    BY <1>1, <1>3
  <2> QED
    BY <1>3, <1>4, <2>1, <2>2
<1>6. Leaf(n, par, nxt)
  BY <1>3, <1>5, LeafRekeyed
<1> QED
  BY <1>2, <1>3, <1>6 DEF n

LEMMA RemoveFromRootKeeps ==
  ASSUME BPlusTreeConstants, TwoLevels, TreeInv, NEW k \in Key, RemoveFromRoot(k)
  PROVE  TreeInv' /\ k \in LeafKeys(nodes) /\ LeafKeys(nodes') = LeafKeys(nodes) \ {k}
<1> DEFINE n == RemoveKey(nodes[root], k)
           rest == [nodes EXCEPT ![root] = n]
<1>1. /\ task = Idle /\ root # INVALID_PAGE_ID /\ root = FindLeafPage(k)
      /\ Contains(nodes[root].keys, k) /\ task' = task
      /\ IF rest[root].keys # << >>
         THEN nodes' = rest /\ root' = root /\ header_root' = header_root
         ELSE /\ root' = INVALID_PAGE_ID
              /\ \E saved \in HeaderWrites, deleted \in Deletions :
                   /\ PersistRoot(saved)
                   /\ nodes' = Deleted(rest, root, saved /\ deleted)
  BY DEF RemoveFromRoot
<1>2. Shape(nodes, root, task) /\ header_root = root
  BY DEF TreeInv
<1>3. /\ root \in DOMAIN nodes /\ IsLeaf(nodes[root]) /\ DOMAIN nodes = {root}
      /\ Leaf(nodes[root], nodes[root].parent, nodes[root].next)
  BY <1>1, <1>2, TheLeaf
<1>4. /\ Leaf(n, nodes[root].parent, nodes[root].next)
      /\ ToSet(n.keys) = ToSet(nodes[root].keys) \ {k} /\ k \in ToSet(nodes[root].keys)
  BY <1>1, <1>3, KeyTakenOut
<1> HIDE DEF n
<1>5. /\ Shape(rest, root, Idle)
      /\ \E O : /\ LeafKeys(nodes) = O \cup ToSet(nodes[root].keys)
                /\ LeafKeys(rest) = O \cup ToSet(n.keys)
                /\ k \notin O
  <2>1. \A x \in ToSet(n.keys) : x \in ToSet(nodes[root].keys) \/ x = k
    BY <1>4
  <2>2. root # INVALID_PAGE_ID /\ task = Idle
    BY <1>1
  <2> QED
    BY <1>1, <2>2, <1>2, <1>4, <2>1, LeafReplaced
<1>6. rest[root] = n
  BY <1>3
<1>7. CASE rest[root].keys # <<>>
  BY <1>1, <1>2, <1>4, <1>5, <1>7 DEF TreeInv
<1>8. CASE rest[root].keys = <<>>
  <2>1. root' = INVALID_PAGE_ID /\ header_root' = root' /\ nodes' = Without(rest, root)
    BY <1>1, <1>8, Headers DEF Deleted
  <2>2. DOMAIN nodes' = {}
    BY <1>3, <2>1 DEF Without
  <2>3. LeafKeys(nodes') = {}
    BY <2>2 DEF LeafKeys
  <2>4. LeafKeys(nodes) = {k}
    <3>1. ToSet(n.keys) = {}
      BY <1>6, <1>8 DEF ToSet
    <3>2. LeafKeys(nodes) = ToSet(nodes[root].keys)
      BY <1>3 DEF LeafKeys
    <3> QED
      BY <3>1, <3>2, <1>4
  <2>5. Empty(nodes', root', task')
    BY <1>1, <2>1, <2>2 DEF Empty
  <2> QED
    BY <2>1, <2>3, <2>4, <2>5 DEF TreeInv, Shape
<1> QED
  BY <1>7, <1>8

LEMMA RemoveFromLeafKeeps ==
  ASSUME BPlusTreeConstants, TwoLevels, TreeInv, NEW k \in Key, RemoveFromLeaf(k)
  PROVE  TreeInv' /\ k \in LeafKeys(nodes) /\ LeafKeys(nodes') = LeafKeys(nodes) \ {k}
<1> DEFINE leaf == FindLeafPage(k)
           n == RemoveKey(nodes[leaf], k)
<1>1. /\ task = Idle /\ root # INVALID_PAGE_ID /\ leaf # root
      /\ Contains(nodes[leaf].keys, k)
      /\ nodes' = [nodes EXCEPT ![leaf] = n]
      /\ task' = Idle \/ task' = RebalanceTask(leaf)
      /\ root' = root /\ header_root' = header_root
  BY DEF RemoveFromLeaf
<1>2. Shape(nodes, root, task) /\ header_root = root
  BY DEF TreeInv
<1>3. /\ leaf \in DOMAIN nodes /\ Leaf(nodes[leaf], nodes[leaf].parent, nodes[leaf].next)
  BY <1>1, <1>2, TheLeaf
<1>4. leaf = FindLeafPage(k)
  OBVIOUS
<1> HIDE DEF leaf
<1>5. /\ Leaf(n, nodes[leaf].parent, nodes[leaf].next)
      /\ ToSet(n.keys) = ToSet(nodes[leaf].keys) \ {k} /\ k \in ToSet(nodes[leaf].keys)
  BY <1>1, <1>3, KeyTakenOut
<1> HIDE DEF n
<1>6. /\ Shape([nodes EXCEPT ![leaf] = n], root, Idle)
      /\ leaf # root => Shape([nodes EXCEPT ![leaf] = n], root, RebalanceTask(leaf))
      /\ \E O : /\ LeafKeys(nodes) = O \cup ToSet(nodes[leaf].keys)
                /\ LeafKeys([nodes EXCEPT ![leaf] = n]) = O \cup ToSet(n.keys)
                /\ k \notin O
  <2>1. \A x \in ToSet(n.keys) : x \in ToSet(nodes[leaf].keys) \/ x = k
    BY <1>5
  <2>2. root # INVALID_PAGE_ID /\ task = Idle
    BY <1>1
  <2> QED
    BY <2>2, <1>2, <1>4, <1>5, <2>1, LeafReplaced
<1> QED
  BY <1>1, <1>2, <1>5, <1>6 DEF TreeInv

LEMMA HeadIs ==
  ASSUME BPlusTreeConstants, NEW r \in Seq(Key), Increasing(r), Len(r) > 0
  PROVE  /\ Head(r) \in ToSet(r) /\ Head(r) = r[1] /\ Head(r) \in Key
         /\ \A x \in ToSet(r) : Head(r) <= x
<1>1. Len(r) \in Nat /\ \A j \in 1 .. Len(r) : r[j] \in Nat
  BY KeysAreNumbers
<1>2. Head(r) = r[1] /\ 1 \in 1 .. Len(r)
  BY <1>1
<1>3. ASSUME NEW x \in ToSet(r) PROVE r[1] <= x
  <2>1. PICK j \in 1 .. Len(r) : r[j] = x
    BY Members
  <2>2. j = 1 \/ r[1] < r[j]
    BY <1>1, <1>2, <2>1 DEF Increasing
  <2> QED
    BY <1>1, <1>2, <2>1, <2>2
<1> QED
  BY <1>2, <1>3, Members

LEMMA PartIs ==
  ASSUME BPlusTreeConstants, NEW r \in Seq(Key), Increasing(r),
         NEW a \in 1 .. Len(r) + 1, NEW b \in (a - 1) .. Len(r)
  PROVE  /\ SubSeq(r, a, b) \in Seq(Key) /\ Increasing(SubSeq(r, a, b))
         /\ Len(SubSeq(r, a, b)) = b - a + 1
         /\ \A j \in 1 .. b - a + 1 : SubSeq(r, a, b)[j] = r[a + j - 1]
         /\ \A x : x \in ToSet(SubSeq(r, a, b)) <=> \E j \in a .. b : x = r[j]
<1> DEFINE u == SubSeq(r, a, b)
<1>1. Len(r) \in Nat /\ \A j \in 1 .. Len(r) : r[j] \in Key /\ r[j] \in Nat
  BY KeysAreNumbers
<1>2. /\ u \in Seq(Key) /\ Len(u) = b - a + 1
      /\ \A j \in 1 .. b - a + 1 : u[j] = r[a + j - 1]
  <2>1. \A j \in a .. b : r[j] \in Key
    BY <1>1
  <2>2. a \in Int /\ b \in Int
    BY <1>1
  <2>3. /\ u \in Seq(Key) /\ Len(u) = (IF a <= b THEN b - a + 1 ELSE 0)
        /\ \A j \in 1 .. b - a + 1 : u[j] = r[a + j - 1]
    BY <2>1, <2>2, SubSeqProperties
  <2> HIDE DEF u
  <2> QED
    BY <2>3, <1>1
<1> HIDE DEF u
<1>3. Increasing(u)
  <2> SUFFICES ASSUME NEW x \in 1 .. b - a + 1, NEW y \in 1 .. b - a + 1, x < y PROVE u[x] < u[y]
    BY <1>2 DEF Increasing
  <2>1. a + x - 1 \in 1 .. Len(r) /\ a + y - 1 \in 1 .. Len(r) /\ a + x - 1 < a + y - 1
    BY <1>1
  <2> QED
    BY <1>2, <2>1 DEF Increasing
<1>4. ASSUME NEW x PROVE x \in ToSet(u) <=> \E j \in a .. b : x = r[j]
  <2>1. x \in ToSet(u) <=> \E j \in 1 .. b - a + 1 : u[j] = x
    BY <1>2, Members
  <2>2. ASSUME NEW j \in 1 .. b - a + 1, u[j] = x PROVE \E h \in a .. b : x = r[h]
    <3>1. a + j - 1 \in a .. b /\ x = r[a + j - 1]
      BY <1>1, <1>2, <2>2
    <3> QED
      BY <3>1
  <2>3. ASSUME NEW h \in a .. b, x = r[h] PROVE \E j \in 1 .. b - a + 1 : u[j] = x
    <3>1. h - a + 1 \in 1 .. b - a + 1 /\ a + (h - a + 1) - 1 = h
      BY <1>1
    <3>2. u[h - a + 1] = r[a + (h - a + 1) - 1]
      BY <3>1, <1>2
    <3> QED
      BY <3>1, <3>2, <2>3
  <2> QED
    BY <2>1, <2>2, <2>3
<1> QED
  BY <1>2, <1>3, <1>4 DEF u

(* Leaf m becomes n1 and n2, and key k comes in. *)
InTwo(m, k, n1, n2, par, new, nxt) ==
  /\ Leaf(n1, par, new) /\ Leaf(n2, par, nxt)
  /\ ToSet(n1.keys) \cup ToSet(n2.keys) = ToSet(m.keys) \cup {k}
  /\ k \notin ToSet(m.keys)
  /\ ToSet(n1.keys) # {} /\ Head(n2.keys) \in ToSet(n2.keys) /\ Head(n2.keys) \in Key
  /\ \A x \in ToSet(n1.keys) : x < Head(n2.keys)
  /\ \A x \in ToSet(n2.keys) : Head(n2.keys) <= x

(* The two halves of a full leaf, with a key in one of them. *)
LEMMA HalvesAre ==
  ASSUME BPlusTreeConstants, NEW k \in Key, NEW m, NEW par, NEW nxt, Leaf(m, par, nxt),
         NEW new \in PageId, ~ Contains(m.keys, k), ~ HasRoom(m),
         NEW half, half = LeafHalves(m, new), NEW n1, NEW n2,
         \/ /\ k >= Head(half[2].keys)
            /\ n1 = half[1] /\ n2 = InsertKey(half[2], k)
         \/ /\ ~ (k >= Head(half[2].keys))
            /\ n1 = InsertKey(half[1], k) /\ n2 = half[2]
  PROVE  InTwo(m, k, n1, n2, par, new, nxt)
<1> DEFINE r == m.keys
           h == Half(m)
           a == SubSeq(r, 1, h)
           b == SubSeq(r, h + 1, Len(r))
<1>1. /\ m \in Node /\ m = NewLeaf(par, r, nxt) /\ Increasing(r) /\ Len(r) <= LeafMax
      /\ r \in Seq(Key) /\ IsLeaf(m) /\ m.parent = par /\ m.next = nxt
  <2>1. /\ m \in Node /\ m = NewLeaf(par, r, nxt) /\ Increasing(r) /\ Len(r) <= LeafMax
    BY DEF Leaf
  <2>2. ASSUME NEW q, m = NewLeaf(par, q, nxt) PROVE IsLeaf(m) /\ m.parent = par /\ m.next = nxt
    BY <2>2 DEF NewLeaf, IsLeaf
  <2> QED
    BY <2>1, <2>2 DEF Node
<1>2. /\ LeafMax \in Nat /\ LeafMax >= 2 /\ k \in Nat /\ Len(r) = LeafMax
      /\ h = LeafMax \div 2
  <2>1. LeafMax \in Nat /\ LeafMax >= 2 /\ k \in Nat
    BY DEF BPlusTreeConstants
  <2>2. ~ (Len(r) < LeafMax)
    BY <1>1 DEF HasRoom, Size, MaxSize
  <2>3. Len(r) = LeafMax
    BY <1>1, <2>1, <2>2
  <2> QED
    BY <2>1, <2>3 DEF Half, Size
<1>3. h \in Nat /\ h >= 1 /\ h < Len(r) /\ h + 1 <= LeafMax /\ Len(r) - h + 1 <= LeafMax
  BY <1>2
<1>4. half = <<NewLeaf(par, a, new), NewLeaf(par, b, nxt)>>
  BY <1>1 DEF LeafHalves, Size
<1>5. half[1] = NewLeaf(par, a, new) /\ half[2] = NewLeaf(par, b, nxt)
  BY <1>4
<1> HIDE DEF h
<1>6. /\ a \in Seq(Key) /\ Increasing(a) /\ Len(a) = h
      /\ \A x : x \in ToSet(a) <=> \E j \in 1 .. h : x = r[j]
  <2>1. 1 \in 1 .. Len(r) + 1 /\ h \in (1 - 1) .. Len(r) /\ h - 1 + 1 = h
    BY <1>2, <1>3
  <2> HIDE DEF r
  <2> QED
    BY <1>1, <2>1, PartIs
<1>7. /\ b \in Seq(Key) /\ Increasing(b) /\ Len(b) = Len(r) - h
      /\ \A x : x \in ToSet(b) <=> \E j \in h + 1 .. Len(r) : x = r[j]
  <2>1. h + 1 \in 1 .. Len(r) + 1 /\ Len(r) \in (h + 1 - 1) .. Len(r)
        /\ Len(r) - (h + 1) + 1 = Len(r) - h /\ h + 1 - 1 = (h + 1) - 1
    BY <1>2, <1>3
  <2> HIDE DEF r
  <2> DEFINE h1 == h + 1
  <2>2. h1 \in 1 .. Len(r) + 1 /\ Len(r) \in (h1 - 1) .. Len(r)
    BY <2>1
  <2>3. Len(r) - h1 + 1 = Len(r) - h
    BY <1>2, <1>3
  <2>4. b = SubSeq(r, h1, Len(r))
    OBVIOUS
  <2> HIDE DEF h1, b
  <2>5. /\ b \in Seq(Key) /\ Increasing(b) /\ Len(b) = Len(r) - h1 + 1
        /\ \A x : x \in ToSet(b) <=> \E j \in h1 .. Len(r) : x = r[j]
    BY <1>1, <2>2, <2>4, PartIs
  <2> QED
    BY <2>3, <2>5 DEF h1
<1> HIDE DEF a, b
<1>8. \A j \in 1 .. Len(r) : r[j] \in Key /\ r[j] \in Nat
  BY <1>1, KeysAreNumbers
<1>9. ToSet(a) \cup ToSet(b) = ToSet(r)
  <2>1. \A x : x \in ToSet(r) <=> \E j \in 1 .. Len(r) : r[j] = x
    BY <1>1, Members
  <2>2. \A j : j \in 1 .. Len(r) <=> j \in 1 .. h \/ j \in h + 1 .. Len(r)
    BY <1>2, <1>3
  <2>3. \A x : x \in ToSet(r) <=> x \in ToSet(a) \/ x \in ToSet(b)
    BY <1>6, <1>7, <2>1, <2>2, SMTT(20)
  <2> QED
    BY <2>3
<1>10. k \notin ToSet(r)
  BY <1>1, Members
<1>11. \A x \in ToSet(a), y \in ToSet(b) : x < y
  <2> SUFFICES ASSUME NEW x \in ToSet(a), NEW y \in ToSet(b) PROVE x < y
    OBVIOUS
  <2>1. PICK i \in 1 .. h : x = r[i]
    BY <1>6
  <2>2. PICK j \in h + 1 .. Len(r) : y = r[j]
    BY <1>7
  <2>3. i \in 1 .. Len(r) /\ j \in 1 .. Len(r) /\ i < j
    BY <1>2, <1>3
  <2> QED
    BY <1>1, <2>1, <2>2, <2>3 DEF Increasing
<1>12. /\ half[1] \in Node /\ half[1].keys = a /\ half[2] \in Node /\ half[2].keys = b
       /\ Leaf(half[1], par, new) /\ Leaf(half[2], par, nxt)
  <2>1. par \in PageId /\ nxt \in PageId /\ <<>> \in Seq(Page)
    BY <1>1 DEF Node
  <2>2. ASSUME NEW q \in Seq(Key), NEW z \in PageId
        PROVE  NewLeaf(par, q, z) \in Node /\ NewLeaf(par, q, z).keys = q
    BY <2>1 DEF NewLeaf, Node
  <2>3. Len(a) <= LeafMax /\ Len(b) <= LeafMax
    BY <1>2, <1>3, <1>6, <1>7
  <2> QED
    BY <1>5, <1>6, <1>7, <2>1, <2>2, <2>3 DEF Leaf
<1>13. ASSUME NEW g, NEW z, g \in Node, Leaf(g, par, z), k \notin ToSet(g.keys), Len(g.keys) + 1 <= LeafMax
       PROVE  /\ Leaf(InsertKey(g, k), par, z) /\ ToSet(InsertKey(g, k).keys) = ToSet(g.keys) \cup {k}
              /\ Len(InsertKey(g, k).keys) = Len(g.keys) + 1
  <2> DEFINE n == InsertKey(g, k)
             q == InsertAt(g.keys, KeyIndex(g, k), k)
  <2>1. Increasing(g.keys)
    BY <1>13 DEF Leaf
  <2>2. /\ n = [g EXCEPT !.keys = q] /\ n \in Node /\ Increasing(n.keys)
        /\ Len(n.keys) = Len(g.keys) + 1
        /\ ToSet(n.keys) = ToSet(g.keys) \cup {k}
    BY <1>13, <2>1, InsertKeyIs
  <2> HIDE DEF q
  <2>3. n.keys = q
    BY <1>13, <2>2 DEF Node
  <2> HIDE DEF n
  <2>4. q \in Seq(Key) /\ Increasing(q) /\ Len(q) <= LeafMax
    <3>1. n.keys \in Seq(Key)
      BY <2>2 DEF Node
    <3> QED
      BY <1>13, <2>2, <2>3, <3>1
  <2>5. Leaf(n, par, z)
    BY <1>13, <2>2, <2>4, LeafRekeyed
  <2> QED
    BY <2>2, <2>5 DEF n
<1>14. /\ Head(b) \in ToSet(b) /\ Head(b) \in Key /\ \A x \in ToSet(b) : Head(b) <= x
  <2>1. Len(b) > 0
    BY <1>2, <1>3, <1>7
  <2> QED
    BY <1>7, <2>1, HeadIs
<1>15. ToSet(a) # {}
  <2>1. r[1] \in ToSet(a)
    BY <1>3, <1>6
  <2> QED
    BY <2>1
<1>16. \A x \in ToSet(a) \cup ToSet(b) : x \in Nat
  <2>1. ToSet(a) \subseteq Key /\ ToSet(b) \subseteq Key
    BY <1>6, <1>7, Members
  <2> QED
    BY <2>1 DEF BPlusTreeConstants
<1>17. CASE /\ k >= Head(half[2].keys)
            /\ n1 = half[1] /\ n2 = InsertKey(half[2], k)
  <2>1. /\ Leaf(n2, par, nxt) /\ ToSet(n2.keys) = ToSet(b) \cup {k} /\ Len(n2.keys) > 0
    <3>1. k \notin ToSet(b) /\ Len(b) + 1 <= LeafMax /\ Len(b) \in Nat
      BY <1>2, <1>3, <1>7, <1>9, <1>10
    <3>2. half[2] \in Node /\ half[2].keys = b /\ Leaf(half[2], par, nxt)
      BY <1>12
    <3>3. n2 = InsertKey(half[2], k)
      BY <1>17
    <3>4. /\ Leaf(n2, par, nxt) /\ ToSet(n2.keys) = ToSet(b) \cup {k}
          /\ Len(n2.keys) = Len(b) + 1
      BY ONLY <1>13, <3>1, <3>2, <3>3
    <3> QED
      BY <3>1, <3>4
  <2>2. n2.keys \in Seq(Key) /\ Increasing(n2.keys)
    BY <2>1 DEF Leaf, Node
  <2>3. /\ Head(n2.keys) \in ToSet(n2.keys) /\ Head(n2.keys) \in Key
        /\ \A x \in ToSet(n2.keys) : Head(n2.keys) <= x
    BY <2>1, <2>2, HeadIs
  <2>4. Head(b) <= Head(n2.keys) /\ Head(n2.keys) \in Nat
    <3>1. Head(n2.keys) \in ToSet(b) \/ Head(n2.keys) = k
      BY <2>1, <2>3
    <3> QED
      BY <3>1, <1>2, <1>12, <1>14, <1>16, <1>17
  <2>5. ASSUME NEW x \in ToSet(a) PROVE x < Head(n2.keys)
    <3>1. x < Head(b) /\ x \in Nat /\ Head(b) \in Nat
      BY <1>11, <1>14, <1>16
    <3> QED
      BY <2>4, <3>1
  <2>6. ToSet(n1.keys) = ToSet(a) /\ Leaf(n1, par, new)
    BY <1>12, <1>17
  <2>7. ToSet(n1.keys) \cup ToSet(n2.keys) = ToSet(m.keys) \cup {k}
    BY <1>9, <2>1, <2>6
  <2> QED
    BY <1>10, <1>15, <2>1, <2>3, <2>5, <2>6, <2>7 DEF InTwo
<1>18. CASE /\ ~ (k >= Head(half[2].keys))
            /\ n1 = InsertKey(half[1], k) /\ n2 = half[2]
  <2>1. /\ Leaf(n1, par, new) /\ ToSet(n1.keys) = ToSet(a) \cup {k}
    <3>1. k \notin ToSet(a) /\ Len(a) + 1 <= LeafMax
      BY <1>3, <1>2, <1>6, <1>9, <1>10
    <3> QED
      BY <1>12, <1>13, <1>18, <3>1
  <2>2. n2.keys = b /\ Leaf(n2, par, nxt)
    BY <1>12, <1>18
  <2>3. k < Head(b)
    BY <1>2, <1>12, <1>14, <1>16, <1>18
  <2>4. ToSet(n1.keys) \cup ToSet(n2.keys) = ToSet(m.keys) \cup {k}
    BY <1>9, <2>1, <2>2
  <2>5. /\ ToSet(n1.keys) # {}
        /\ Head(n2.keys) \in ToSet(n2.keys) /\ Head(n2.keys) \in Key
        /\ \A x \in ToSet(n1.keys) : x < Head(n2.keys)
        /\ \A x \in ToSet(n2.keys) : Head(n2.keys) <= x
    BY <1>11, <1>14, <2>1, <2>2, <2>3
  <2> QED
    BY <1>10, <2>1, <2>2, <2>4, <2>5 DEF InTwo
<1> QED
  BY <1>17, <1>18

(* As long as pages for a split are left, the root has room. *)
LEMMA RootHasRoom ==
  ASSUME BPlusTreeConstants, TwoLevels, PagesLeft, NEW c \in Seq(Page), Distinct(c),
         NEW r \in Page \ ToSet(c), DOMAIN nodes = ToSet(c) \cup {r}
  PROVE  Len(c) <= InternalMax
<1>1. Len(c) \in Nat /\ MaxPage \in Nat /\ InternalMax \in Nat /\ MaxPage <= InternalMax + 4
  BY DEF BPlusTreeConstants, TwoLevels
<1>2. IsFiniteSet(Page) /\ Cardinality(Page) = MaxPage
  <2>1. 1 \in Int /\ MaxPage \in Int
    BY <1>1
  <2>2. IsFiniteSet(1 .. MaxPage) /\ Cardinality(1 .. MaxPage) = IF 1 > MaxPage THEN 0 ELSE MaxPage - 1 + 1
    BY <2>1, FS_Interval, Zenon
  <2> QED
    BY <2>2, <1>1 DEF Page
<1>3. ToSet(c) \subseteq Page
  BY Members
<1>4. IsFiniteSet(ToSet(c)) /\ Cardinality(ToSet(c)) \in Nat
  <2>1. IsFiniteSet(ToSet(c))
    BY <1>2, <1>3, FS_Subset
  <2> QED
    BY <2>1, FS_CardinalityType
<1>5. Len(c) <= Cardinality(ToSet(c))
  <2>1. c \in [1 .. Len(c) -> ToSet(c)]
    BY Members
  <2>2. c \in Injection(1 .. Len(c), ToSet(c))
    BY <2>1 DEF Injection, Distinct, IsInjective
  <2>3. Cardinality(1 .. Len(c)) <= Cardinality(ToSet(c))
    BY <2>2, <1>4, FS_Injection
  <2>4. Cardinality(1 .. Len(c)) = IF 1 > Len(c) THEN 0 ELSE Len(c) - 1 + 1
    <3>1. 1 \in Int /\ Len(c) \in Int
      BY <1>1
    <3> QED
      BY <3>1, FS_Interval, Zenon
  <2> QED
    BY <2>3, <2>4, <1>1
<1>6. IsFiniteSet(DOMAIN nodes) /\ Cardinality(DOMAIN nodes) = Cardinality(ToSet(c)) + 1
  BY <1>4, FS_AddElement
<1>7. Cardinality(Page \ DOMAIN nodes) = MaxPage - Cardinality(DOMAIN nodes)
  <2>1. Page \cap DOMAIN nodes = DOMAIN nodes
    BY <1>3
  <2>2. Cardinality(Page \ DOMAIN nodes) = Cardinality(Page) - Cardinality(Page \cap DOMAIN nodes)
    BY <1>2, FS_Difference
  <2> QED
    BY <2>1, <2>2, <1>2
<1> QED
  BY <1>1, <1>4, <1>5, <1>6, <1>7 DEF PagesLeft

LEMMA SmallInserts ==
  ASSUME NEW S, NEW c \in Seq(S), NEW b \in S, NEW i \in 1 .. Len(c) + 1
  PROVE  /\ Len(c) = 0 => InsertAt(c, i, b) = <<b>>
         /\ Len(c) = 1 /\ i = 2 => InsertAt(c, i, b) = <<c[1], b>>
<1> DEFINE d == InsertAt(c, i, b)
<1>1. /\ d \in Seq(S) /\ Len(d) = Len(c) + 1
      /\ \A j \in 1 .. Len(c) + 1 :
           d[j] = IF j < i THEN c[j] ELSE IF j = i THEN b ELSE c[j - 1]
  BY InsertAtIs
<1> HIDE DEF d
<1>2. ASSUME Len(c) = 0 PROVE d = <<b>>
  <2>1. Len(d) = 1 /\ d[1] = b
    BY <1>1, <1>2
  <2>2. <<b>> \in Seq(S) /\ Len(<<b>>) = 1 /\ <<b>>[1] = b
    OBVIOUS
  <2>3. \A j \in 1 .. Len(d) : d[j] = <<b>>[j]
    BY <2>1, <2>2
  <2> QED
    BY <1>1, <2>1, <2>2, <2>3, SeqEqual
<1>3. ASSUME Len(c) = 1, i = 2 PROVE d = <<c[1], b>>
  <2>1. Len(d) = 2 /\ d[1] = c[1] /\ d[2] = b /\ c[1] \in S
    <3>1. 1 \in 1 .. Len(c) + 1 /\ 2 \in 1 .. Len(c) + 1 /\ 1 \in 1 .. Len(c)
      BY <1>3
    <3>2. d[1] = c[1]
      BY <1>1, <1>3, <3>1
    <3>3. d[2] = b
      BY <1>1, <1>3, <3>1
    <3>4. c[1] \in S
      BY <3>1
    <3>5. Len(d) = 2
      BY <1>1, <1>3
    <3> QED
      BY <3>2, <3>3, <3>4, <3>5
  <2>2. /\ <<c[1], b>> \in Seq(S) /\ Len(<<c[1], b>>) = 2
        /\ <<c[1], b>>[1] = c[1] /\ <<c[1], b>>[2] = b
    BY <2>1
  <2>3. \A j \in 1 .. Len(d) : d[j] = <<c[1], b>>[j]
    BY <2>1, <2>2
  <2> QED
    BY <1>1, <2>1, <2>2, <2>3, SeqEqual
<1> QED
  BY <1>2, <1>3 DEF d

Adds(ns, ms, k) == k \notin LeafKeys(ns) /\ LeafKeys(ms) = LeafKeys(ns) \cup {k}

(* What two leaves in its place make of the tree. *)
LEMMA LeafInTwo ==
  ASSUME BPlusTreeConstants, TwoLevels, PagesLeft, NEW k \in Key, Shape(nodes, root, task),
         task = Idle, root # INVALID_PAGE_ID, NEW leaf, leaf = FindLeafPage(k),
         NEW new \in Page \ DOMAIN nodes, NEW n1, NEW n2, NEW m, m = Head(n2.keys),
         InTwo(nodes[leaf], k, n1, n2, nodes[leaf].parent, new, nodes[leaf].next),
         NEW ms, ms = Put(new, n2, [nodes EXCEPT ![leaf] = n1])
  PROVE  /\ Shape(ms, root, ParentTask(leaf, m, new))
         /\ Adds(nodes, ms, k)
<1> DEFINE t == ParentTask(leaf, m, new)
<1>0. /\ Leaf(n1, nodes[leaf].parent, new) /\ Leaf(n2, nodes[leaf].parent, nodes[leaf].next)
      /\ ToSet(n1.keys) \cup ToSet(n2.keys) = ToSet(nodes[leaf].keys) \cup {k}
      /\ ToSet(n1.keys) # {} /\ m \in ToSet(n2.keys) /\ m \in Key
      /\ \A x \in ToSet(n1.keys) : x < m
      /\ \A x \in ToSet(n2.keys) : m <= x
      /\ k \notin ToSet(nodes[leaf].keys)
  BY DEF InTwo
<1> USE <1>0
<1>1. PICK c, s : /\ Chained(nodes, root, c, s)
                  /\ \/ Single(nodes, root, task) /\ c = <<root>> /\ s = <<>>
                     \/ Full(nodes, root, task, c, s)
                  /\ \E i \in 1 .. Len(c) : FindLeafPage(k) = c[i] /\ Fits(k, s, i)
  BY Located
<1>2. PICK i \in 1 .. Len(c) : leaf = c[i] /\ Fits(k, s, i)
  BY <1>1
<1>3. /\ leaf \in DOMAIN nodes /\ IsLeaf(nodes[leaf]) /\ k \notin KeysIn(nodes, DOMAIN nodes \ {leaf})
  BY TheLeaf
<1>4. /\ DOMAIN ms = DOMAIN nodes \cup {new} /\ ms[new] = n2 /\ ms[leaf] = n1 /\ new # leaf
      /\ \A p \in DOMAIN nodes \ {leaf} : ms[p] = nodes[p]
  BY <1>3 DEF Put
<1>5. t.new = new /\ t.key = m /\ t.page = leaf
  BY DEF ParentTask
<1>6. c \in Seq(Page) /\ s \in Seq(Key) /\ Len(c) = Len(s) + 1 /\ Distinct(c) /\ Increasing(s)
      /\ \A j \in 1 .. Len(c) : c[j] \in DOMAIN nodes
      /\ ToSet(c) \subseteq DOMAIN nodes
  <2>1. PICK par : Leaves(nodes, c, s, par)
    BY <1>1 DEF Chained
  <2> QED
    BY <2>1, <1>1, ChainedPages DEF Leaves
<1>7. ASSUME NEW par, Leaves(nodes, c, s, par)
      PROVE  Leaves(ms, InsertAt(c, i + 1, new), InsertAt(s, i, m), par)
  <2>1. /\ Leaf(nodes[leaf], par, NextIn(c, i))
        /\ \A x \in ToSet(nodes[leaf].keys) : Fits(x, s, i)
    BY <1>2, <1>7 DEF Leaves
  <2>2. nodes[leaf].parent = par /\ nodes[leaf].next = NextIn(c, i)
    BY <2>1 DEF Leaf, NewLeaf
  <2>3. Leaf(n1, par, new) /\ Leaf(n2, par, NextIn(c, i))
    BY <2>2
  <2>4. \A x \in ToSet(n1.keys) \cup ToSet(n2.keys) : Fits(x, s, i)
    BY <1>2, <2>1
  <2>5. /\ Fits(m, s, i)
        /\ \A x \in ToSet(n1.keys) : Fits(x, s, i) /\ x < m
        /\ \A x \in ToSet(n2.keys) : Fits(x, s, i) /\ m <= x
    BY <2>4
  <2>6. i > 1 => s[i - 1] < m
    <3> SUFFICES ASSUME i > 1 PROVE s[i - 1] < m
      OBVIOUS
    <3>1. PICK x : x \in ToSet(n1.keys)
      OBVIOUS
    <3>2. n1.keys \in Seq(Key)
      BY DEF Leaf, Node
    <3>3. x \in Key /\ x \in Nat /\ m \in Nat
      BY <3>1, <3>2, Members DEF BPlusTreeConstants
    <3>4. i - 1 \in 1 .. Len(s)
      BY <1>6
    <3>5. s[i - 1] \in Nat
      BY <3>4, <1>6, KeysAreNumbers
    <3>6. s[i - 1] <= x /\ x < m
      BY <3>1, <2>5 DEF Fits
    <3> QED
      BY <3>3, <3>5, <3>6
  <2>7. \A j \in 1 .. Len(c) : j # i => ms[c[j]] = nodes[c[j]]
    <3> SUFFICES ASSUME NEW j \in 1 .. Len(c), j # i PROVE ms[c[j]] = nodes[c[j]]
      OBVIOUS
    <3>1. c[j] # leaf /\ c[j] \in DOMAIN nodes
      BY <1>2, <1>6 DEF Distinct
    <3> QED
      BY <3>1, <1>4
  <2>8. ToSet(c) \cup {new} \subseteq DOMAIN ms /\ new \in Page \ ToSet(c)
    BY <1>4, <1>6
  <2>9. ms[c[i]] = n1 /\ ms[new] = n2
    BY <1>2, <1>4
  <2> QED
    BY <1>7, <2>3, <2>5, <2>6, <2>7, <2>8, <2>9, LeavesSplit
<1>8. Shape(ms, root, t)
  <2>1. CASE Single(nodes, root, task) /\ c = <<root>> /\ s = <<>>
    <3>1. leaf = root /\ i = 1 /\ Leaves(nodes, c, s, INVALID_PAGE_ID) /\ DOMAIN nodes = {root}
          /\ root \in Page
      BY <1>2, <1>6, <2>1 DEF Single
    <3>2. InsertAt(c, i + 1, new) = <<root, new>>
      <4>1. Len(c) = 1 /\ i + 1 = 2 /\ c[1] = root
        BY <3>1, <2>1
      <4>2. i + 1 \in 1 .. Len(c) + 1 /\ c \in Seq(Page) /\ new \in Page
        BY <4>1, <1>6
      <4>3. InsertAt(c, i + 1, new) = <<c[1], new>>
        BY <4>1, <4>2, SmallInserts, SMTT(15)
      <4> QED
        BY <4>1, <4>3
    <3>3. InsertAt(s, i, m) = <<m>>
      <4>1. Len(s) = 0 /\ i \in 1 .. Len(s) + 1 /\ s \in Seq(Key)
        BY <3>1, <2>1, <1>6
      <4>2. i \in 1 .. Len(s) + 1 /\ s \in Seq(Key) /\ m \in Key
        BY <4>1
      <4> QED
        BY ONLY <4>1, <4>2, SmallInserts
    <3>4. Leaves(ms, <<root, new>>, <<m>>, INVALID_PAGE_ID)
      BY <3>1, <3>2, <3>3, <1>7
    <3>5. DOMAIN ms = {root, new}
      BY <3>1, <1>4
    <3>6. Page \ DOMAIN ms # {}
      <4> SUFFICES ASSUME Page \ DOMAIN ms = {} PROVE FALSE
        OBVIOUS
      <4>1. Page \ DOMAIN nodes = {new}
        BY <1>4
      <4>2. Cardinality({new}) = 1
        BY FS_Singleton
      <4>3. Cardinality(Page \ DOMAIN nodes) = 1
        BY <4>1, <4>2
      <4> QED
        BY <4>3 DEF PagesLeft
    <3>7. Halved(ms, root, t)
      BY <3>1, <3>4, <3>5, <3>6, <1>5 DEF Halved
    <3> QED
      BY <3>7 DEF Shape
  <2>2. CASE Full(nodes, root, task, c, s)
    <3>1. Inner(nodes, root, c, s) /\ DOMAIN nodes = ToSet(c) \cup {root}
          /\ Leaves(nodes, c, s, root)
      BY <2>2 DEF Full
    <3>2. root \in Page \ ToSet(c) /\ root \in DOMAIN nodes
      BY <3>1 DEF Inner
    <3>3. leaf \in ToSet(c) /\ leaf # root
      BY <1>2, <1>6, <3>2, Members
    <3>4. Inner(ms, root, c, s)
      BY <3>1, <3>2, <3>3, <1>4 DEF Inner
    <3>5. Len(s) < InternalMax
      <4>1. Len(c) <= InternalMax
        BY <1>6, <3>1, <3>2, RootHasRoom
      <4> QED
        BY <4>1, <1>6 DEF BPlusTreeConstants
    <3>6. DOMAIN ms = ToSet(c) \cup {root, new} /\ new \in Page \ (ToSet(c) \cup {root})
      BY <1>4, <3>1
    <3>7. Leaves(ms, InsertAt(c, i + 1, new), InsertAt(s, i, m), root)
      BY <3>1, <1>7
    <3>8. t = ParentTask(c[i], t.key, t.new)
      BY <1>2, <1>5
    <3> HIDE DEF t
    <3>9. Growing(ms, root, t, c, s, i)
      BY <1>2, <1>5, <1>6, <3>4, <3>5, <3>6, <3>7, <3>8 DEF Growing
    <3> QED
      BY <3>9 DEF Shape
  <2> QED
    BY <1>1, <2>1, <2>2
<1>9. PICK O : /\ LeafKeys(nodes) = O \cup KeysIn(nodes, {leaf, new})
               /\ LeafKeys(ms) = O \cup KeysIn(ms, {leaf, new})
               /\ O = KeysIn(nodes, DOMAIN nodes \ {leaf, new})
  <2>1. \A p : p \notin {leaf, new} => (p \in DOMAIN nodes <=> p \in DOMAIN ms)
    BY <1>4
  <2>2. \A p \in DOMAIN nodes \ {leaf, new} : /\ IsLeaf(nodes[p]) <=> IsLeaf(ms[p])
                                              /\ IsLeaf(nodes[p]) => nodes[p].keys = ms[p].keys
    BY <1>4
  <2> HIDE DEF t
  <2> DEFINE P == {leaf, new}
  <2>3. \A p : p \notin P => (p \in DOMAIN nodes <=> p \in DOMAIN ms)
    BY <2>1
  <2>4. \A p \in DOMAIN nodes \ P : /\ IsLeaf(nodes[p]) <=> IsLeaf(ms[p])
                                    /\ IsLeaf(nodes[p]) => nodes[p].keys = ms[p].keys
    BY <2>2
  <2> HIDE DEF P
  <2>5. \E O : /\ LeafKeys(nodes) = O \cup KeysIn(nodes, P)
               /\ LeafKeys(ms) = O \cup KeysIn(ms, P)
               /\ O = KeysIn(nodes, DOMAIN nodes \ P)
    BY ONLY <2>3, <2>4, KeysElsewhere
  <2> QED
    BY <2>5 DEF P
<1>10. IsLeaf(n1) /\ IsLeaf(n2)
  BY DEF Leaf, NewLeaf, IsLeaf
<1>11. KeysIn(nodes, {leaf, new}) = ToSet(nodes[leaf].keys)
  BY <1>3 DEF KeysIn
<1>12. KeysIn(ms, {leaf, new}) = ToSet(nodes[leaf].keys) \cup {k}
  <2>1. {q \in {leaf, new} \cap DOMAIN ms : IsLeaf(ms[q])} = {leaf, new}
    BY <1>3, <1>4, <1>10
  <2>2. KeysIn(ms, {leaf, new}) = UNION {ToSet(ms[p].keys) : p \in {leaf, new}}
    BY <2>1 DEF KeysIn
  <2>3. KeysIn(ms, {leaf, new}) = ToSet(ms[leaf].keys) \cup ToSet(ms[new].keys)
    <3>1. \A x : x \in KeysIn(ms, {leaf, new}) <=> x \in ToSet(ms[leaf].keys) \/ x \in ToSet(ms[new].keys)
      BY <2>2
    <3> QED
      BY <3>1
  <2> QED
    BY <2>3, <1>4
<1>13. DOMAIN nodes \ {leaf, new} = DOMAIN nodes \ {leaf}
  OBVIOUS
<1> QED
  <2>1. k \notin LeafKeys(nodes) /\ LeafKeys(ms) = LeafKeys(nodes) \cup {k}
    <3>1. k \notin O
      BY <1>3, <1>9, <1>13
    <3>2. LeafKeys(nodes) = O \cup ToSet(nodes[leaf].keys)
      BY <1>9, <1>11
    <3>3. LeafKeys(ms) = O \cup (ToSet(nodes[leaf].keys) \cup {k})
      BY <1>9, <1>12
    <3>4. k \notin ToSet(nodes[leaf].keys)
      OBVIOUS
    <3> QED
      BY ONLY <3>1, <3>2, <3>3, <3>4
  <2> QED
    BY <1>8, <2>1 DEF Adds

LEMMA SplitLeafKeeps ==
  ASSUME BPlusTreeConstants, TwoLevels, TreeInv, NEW k \in Key, SplitLeaf(k)
  PROVE  TreeInv' /\ k \notin LeafKeys(nodes) /\ LeafKeys(nodes') = LeafKeys(nodes) \cup {k}
<1> DEFINE leaf == FindLeafPage(k)
           new == NewPage(DOMAIN nodes)
           half == LeafHalves(nodes[leaf], new)
           right == k >= Head(half[2].keys)
           n1 == IF right THEN half[1] ELSE InsertKey(half[1], k)
           n2 == IF right THEN InsertKey(half[2], k) ELSE half[2]
           m == Head(n2.keys)
<1>1. /\ task = Idle /\ root # INVALID_PAGE_ID /\ PagesLeft
      /\ ~ Contains(nodes[leaf].keys, k) /\ ~ HasRoom(nodes[leaf])
      /\ nodes' = Put(new, n2, [nodes EXCEPT ![leaf] = n1])
      /\ task' = ParentTask(leaf, m, new)
      /\ root' = root /\ header_root' = header_root
  BY DEF SplitLeaf
<1>2. Shape(nodes, root, task) /\ header_root = root
  BY DEF TreeInv
<1>3. new \in Page \ DOMAIN nodes
  <2>1. Page \ DOMAIN nodes # {}
    <3> SUFFICES ASSUME Page \ DOMAIN nodes = {} PROVE FALSE
      OBVIOUS
    <3>1. Cardinality(Page \ DOMAIN nodes) = 0
      BY FS_EmptySet
    <3> QED
      BY <1>1, <3>1 DEF PagesLeft
  <2> QED
    BY <2>1, NewPageIs
<1>4. Leaf(nodes[leaf], nodes[leaf].parent, nodes[leaf].next)
  BY <1>1, <1>2, TheLeaf
<1>5. \/ /\ k >= Head(half[2].keys)
         /\ n1 = half[1] /\ n2 = InsertKey(half[2], k)
      \/ /\ ~ (k >= Head(half[2].keys))
         /\ n1 = InsertKey(half[1], k) /\ n2 = half[2]
  OBVIOUS
<1>6. leaf = FindLeafPage(k)
  OBVIOUS
<1>7. half = LeafHalves(nodes[leaf], new) /\ new \in PageId
  BY <1>3 DEF PageId
<1>8. m = Head(n2.keys)
  OBVIOUS
<1> HIDE DEF m, n1, n2, right, half, new, leaf
<1>9. InTwo(nodes[leaf], k, n1, n2, nodes[leaf].parent, new, nodes[leaf].next)
  <2> DEFINE l == nodes[leaf]
             par == l.parent
             nxt == l.next
  <2>1. Leaf(l, par, nxt) /\ ~ Contains(l.keys, k) /\ ~ HasRoom(l) /\ half = LeafHalves(l, new)
    BY <1>1, <1>4, <1>7
  <2> HIDE DEF l, par, nxt
  <2>2. InTwo(l, k, n1, n2, par, new, nxt)
    BY ONLY <2>1, <1>5, <1>7, k \in Key, BPlusTreeConstants, HalvesAre, Zenon
  <2> QED
    BY <2>2 DEF l, par, nxt
<1>10. Shape(nodes', root, ParentTask(leaf, m, new)) /\ Adds(nodes, nodes', k)
  <2> DEFINE ms == nodes'
  <2>1. ms = Put(new, n2, [nodes EXCEPT ![leaf] = n1])
    BY <1>1
  <2> HIDE DEF ms
  <2>2. Shape(ms, root, ParentTask(leaf, m, new)) /\ Adds(nodes, ms, k)
    BY <1>1, <1>2, <1>3, <1>6, <1>8, <1>9, <2>1, LeafInTwo, Zenon
  <2> QED
    BY <2>2 DEF ms
<1> QED
  BY <1>1, <1>2, <1>10 DEF TreeInv, Adds

-------------------------------------------------------------------------------
(* One step: what is left of an insertion. *)

LEMMA TasksAre ==
  ASSUME NEW ns, NEW r, NEW k, Shape(ns, r, k)
  PROVE  /\ k.op = "parent" => Halved(ns, r, k) \/ \E c, s, i : Growing(ns, r, k, c, s, i)
         /\ k.op = "rebalance" => \E c, s : /\ Full(ns, r, k, c, s)
                                            /\ \E p \in DOMAIN ns : k = RebalanceTask(p)
         /\ k.op = "none" => k = Idle
<1>1. Idle.op = "none"
  BY DEF Idle
<1>2. ASSUME NEW p, k = RebalanceTask(p) PROVE k.op = "rebalance"
  BY <1>2 DEF RebalanceTask, Idle
<1>3. ASSUME NEW p, NEW x, NEW q, k = ParentTask(p, x, q) PROVE k.op = "parent"
  BY <1>3 DEF ParentTask
<1>4. CASE Empty(ns, r, k) \/ Single(ns, r, k)
  BY <1>1, <1>4 DEF Empty, Single
<1>5. CASE Halved(ns, r, k)
  BY <1>3, <1>5 DEF Halved
<1>6. CASE \E c, s : Full(ns, r, k, c, s)
  <2>1. PICK c, s : Full(ns, r, k, c, s)
    BY <1>6
  <2>2. k = Idle \/ \E p \in DOMAIN ns : k = RebalanceTask(p)
    BY <2>1 DEF Full
  <2> QED
    BY <2>1, <2>2, <1>1, <1>2
<1>7. CASE \E c, s, i : Growing(ns, r, k, c, s, i)
  BY <1>3, <1>7 DEF Growing
<1> QED
  BY <1>4, <1>5, <1>6, <1>7 DEF Shape

LEMMA KeysKept ==
  ASSUME NEW ns, NEW ms,
         \A p : p \in DOMAIN ns /\ IsLeaf(ns[p]) => p \in DOMAIN ms /\ IsLeaf(ms[p]) /\ ms[p].keys = ns[p].keys,
         \A p : p \in DOMAIN ms /\ IsLeaf(ms[p]) => p \in DOMAIN ns /\ IsLeaf(ns[p])
  PROVE  LeafKeys(ms) = LeafKeys(ns)
<1>1. {q \in DOMAIN ns : IsLeaf(ns[q])} = {q \in DOMAIN ms : IsLeaf(ms[q])}
  OBVIOUS
<1>2. \A p \in {q \in DOMAIN ns : IsLeaf(ns[q])} : ns[p].keys = ms[p].keys
  OBVIOUS
<1> QED
  BY <1>1, <1>2 DEF LeafKeys

LEMMA InsertedBehind ==
  ASSUME NEW S, NEW s \in Seq(S), NEW i \in 1 .. Len(s), NEW e \in S
  PROVE  InsertAt(s, i + 1, e)[i] = s[i] /\ i \in 1 .. Len(InsertAt(s, i + 1, e))
<1> DEFINE h == i + 1
<1>1. h \in 1 .. Len(s) + 1 /\ i < h /\ i \in 1 .. Len(s) + 1
  OBVIOUS
<1> HIDE DEF h
<1>2. /\ Len(InsertAt(s, h, e)) = Len(s) + 1
      /\ \A j \in 1 .. Len(s) + 1 :
           InsertAt(s, h, e)[j] = IF j < h THEN s[j] ELSE IF j = h THEN e ELSE s[j - 1]
  BY <1>1, InsertAtIs
<1> QED
  BY <1>1, <1>2 DEF h

LEMMA GrowRootKeeps ==
  ASSUME BPlusTreeConstants, TwoLevels, TreeInv, GrowRoot
  PROVE  TreeInv' /\ LeafKeys(nodes') = LeafKeys(nodes)
<1> DEFINE p == NewPage(DOMAIN nodes)
           new == task.new
           key == task.key
           c == <<root, new>>
           s == <<key>>
<1>1. /\ task.op = "parent" /\ nodes[task.page].parent = INVALID_PAGE_ID
      /\ nodes' = Put(p, NewInternal(INVALID_PAGE_ID, <<key>>, <<task.page, new>>),
                      SetParent(nodes, {task.page, new}, p))
      /\ root' = p /\ task' = Idle /\ header_root' = root'
  BY Headers DEF GrowRoot
<1>2. Halved(nodes, root, task)
  <2>1. ASSUME NEW d, NEW t, NEW i, Growing(nodes, root, task, d, t, i) PROVE FALSE
    <3>1. task.page = d[i] /\ root \in Page /\ d \in Seq(Page) /\ i \in 1 .. Len(d) /\ new \in Page
      BY <2>1 DEF Growing, ParentTask, Inner
    <3> DEFINE e == InsertAt(d, i + 1, new)
    <3>2. \E u : Leaves(nodes, e, u, root)
      BY <2>1 DEF Growing
    <3>3. e[i] = d[i] /\ i \in 1 .. Len(e)
      BY <3>1, InsertedBehind
    <3> HIDE DEF e
    <3>5. e[i] = task.page /\ i \in 1 .. Len(e)
      BY <3>1, <3>3
    <3>6. \E z : Leaf(nodes[task.page], root, z)
      BY <3>2, <3>5 DEF Leaves
    <3>7. nodes[task.page].parent = root
      BY <3>6 DEF Leaf, NewLeaf
    <3> QED
      BY <1>1, <3>1, <3>7 DEF INVALID_PAGE_ID, Page
  <2> QED
    BY <1>1, <2>1, TasksAre DEF TreeInv
<1>3. /\ DOMAIN nodes = {root, new} /\ task.page = root
      /\ Leaves(nodes, c, s, INVALID_PAGE_ID) /\ Page \ DOMAIN nodes # {}
  BY <1>2 DEF Halved, ParentTask
<1>4. p \in Page \ DOMAIN nodes
  BY <1>3, NewPageIs
<1> HIDE DEF p
<1>5. /\ DOMAIN nodes' = {root, new, p}
      /\ nodes'[p] = NewInternal(INVALID_PAGE_ID, s, c)
      /\ nodes'[root] = [nodes[root] EXCEPT !.parent = p]
      /\ nodes'[new] = [nodes[new] EXCEPT !.parent = p]
  BY <1>1, <1>3, <1>4 DEF Put, SetParent
<1>6. /\ c \in Seq(Page) /\ Len(c) = 2 /\ c[1] = root /\ c[2] = new /\ ToSet(c) = {root, new}
      /\ Len(s) = 1
  <2>1. 1 \in 1 .. Len(c) /\ 2 \in 1 .. Len(c) /\ c \in Seq(Page)
    BY <1>3 DEF Leaves
  <2>2. root \in Page /\ new \in Page
    BY <2>1
  <2>3. ToSet(c) = {root, new}
    <3> HIDE DEF new
    <3>1. ToSet(<<root, new>>) = {root, new}
      BY SetsOfFew
    <3> QED
      BY <3>1
  <2> QED
    BY <2>1, <2>3
<1> HIDE DEF c, s
<1>7. Leaves(nodes', c, s, p)
  <2>1. \A j \in 1 .. Len(c) : c[j] \in DOMAIN nodes' /\ nodes'[c[j]] = [nodes[c[j]] EXCEPT !.parent = p]
    BY <1>5, <1>6
  <2>2. p \in PageId
    BY <1>4 DEF PageId
  <2> QED
    BY <1>3, <2>1, <2>2, LeavesReparented
<1>8. Full(nodes', p, Idle, c, s)
  <2>1. Inner(nodes', p, c, s)
    BY <1>3, <1>4, <1>5, <1>6 DEF Inner
  <2>2. DOMAIN nodes' = ToSet(c) \cup {p}
    BY <1>5, <1>6
  <2>3. Len(s) <= InternalMax
    BY <1>6 DEF BPlusTreeConstants
  <2> QED
    BY <1>7, <2>1, <2>2, <2>3 DEF Full
<1>9. TreeInv'
  BY <1>1, <1>8 DEF TreeInv, Shape
<1>10. LeafKeys(nodes') = LeafKeys(nodes)
  <2>1. /\ nodes[root] \in Node /\ nodes[new] \in Node
    BY <1>3, <1>6 DEF Leaves, Leaf
  <2>2. ASSUME NEW n \in Node
        PROVE  [n EXCEPT !.parent = p].keys = n.keys /\ (IsLeaf([n EXCEPT !.parent = p]) <=> IsLeaf(n))
    BY DEF IsLeaf, Node
  <2>3. ~ IsLeaf(nodes'[p])
    BY <1>5 DEF NewInternal, IsLeaf
  <2>4. ASSUME NEW q \in DOMAIN nodes
        PROVE  /\ q \in DOMAIN nodes' /\ nodes'[q].keys = nodes[q].keys
               /\ IsLeaf(nodes'[q]) <=> IsLeaf(nodes[q])
    <3>1. CASE q = root
      BY <3>1, <1>3, <1>5, <2>1, <2>2
    <3>2. CASE q = new
      BY <3>2, <1>3, <1>5, <2>1, <2>2
    <3> QED
      BY <1>3, <3>1, <3>2
  <2>5. \A q \in DOMAIN nodes' : q # p => q \in DOMAIN nodes
    BY <1>3, <1>5
  <2> QED
    BY <2>3, <2>4, <2>5, KeysKept
<1> QED
  BY <1>9, <1>10

(* A page that has just been made by a split has the root for a parent,    *)
(* which has room.                                                         *)
LEMMA WhatGrows ==
  ASSUME BPlusTreeConstants, NEW ns, NEW r, NEW k, NEW c, NEW s, NEW i, Growing(ns, r, k, c, s, i)
  PROVE  /\ k.page = c[i] /\ c[i] \in ToSet(c) /\ ns[c[i]].parent = r
         /\ k.new \in DOMAIN ns \ (ToSet(c) \cup {r}) /\ ns[k.new].parent = r /\ ns[k.new] \in Node
         /\ r \in Page /\ r \in DOMAIN ns \ ToSet(c) /\ ns[r] = NewInternal(INVALID_PAGE_ID, s, c)
         /\ HasRoom(ns[r]) /\ FindChildIndex(ns[r], c[i]) = i
<1> DEFINE d == InsertAt(c, i + 1, k.new)
<1>1. /\ k.page = c[i] /\ c \in Seq(Page) /\ i \in 1 .. Len(c) /\ k.new \in Page \ (ToSet(c) \cup {r})
      /\ k.new \in DOMAIN ns /\ Distinct(c) /\ Len(s) < InternalMax
      /\ r \in (DOMAIN ns) \cap Page /\ r \notin ToSet(c)
      /\ ns[r] = NewInternal(INVALID_PAGE_ID, s, c)
  BY DEF Growing, Inner, ParentTask
<1>2. PICK u : Leaves(ns, d, u, r)
  BY DEF Growing
<1>3. d[i] = c[i] /\ i \in 1 .. Len(d)
  BY <1>1, InsertedBehind
<1>4. d[i + 1] = k.new /\ i + 1 \in 1 .. Len(d)
  <2> DEFINE h == i + 1
  <2>1. h \in 1 .. Len(c) + 1 /\ k.new \in Page
    BY <1>1
  <2> HIDE DEF h
  <2>2. /\ Len(InsertAt(c, h, k.new)) = Len(c) + 1
        /\ \A j \in 1 .. Len(c) + 1 :
             InsertAt(c, h, k.new)[j] = IF j < h THEN c[j] ELSE IF j = h THEN k.new ELSE c[j - 1]
    <3> DEFINE e == k.new
    <3>1. e \in Page /\ c \in Seq(Page)
      BY <1>1
    <3> HIDE DEF e
    <3>2. Len(InsertAt(c, h, e)) = Len(c) + 1
      BY <2>1, <3>1, InsertAtIs
    <3>3. \A j \in 1 .. Len(c) + 1 :
             InsertAt(c, h, e)[j] = IF j < h THEN c[j] ELSE IF j = h THEN e ELSE c[j - 1]
      BY <2>1, <3>1, InsertAtIs
    <3> QED
      BY <3>2, <3>3 DEF e
  <2>3. InsertAt(c, h, k.new)[h] = k.new /\ h \in 1 .. Len(InsertAt(c, h, k.new))
    BY <2>1, <2>2
  <2> QED
    BY <2>3 DEF h
<1> HIDE DEF d
<1>5. \A j \in 1 .. Len(d) : ns[d[j]] \in Node /\ ns[d[j]].parent = r
  <2> SUFFICES ASSUME NEW j \in 1 .. Len(d) PROVE ns[d[j]] \in Node /\ ns[d[j]].parent = r
    OBVIOUS
  <2>1. Leaf(ns[d[j]], r, NextIn(d, j))
    BY <1>2 DEF Leaves
  <2> QED
    BY <2>1 DEF Leaf, NewLeaf
<1>6. HasRoom(ns[r])
  <2>1. ns[r].keys = s /\ ~ IsLeaf(ns[r])
    BY <1>1 DEF NewInternal, IsLeaf
  <2> QED
    BY <1>1, <2>1 DEF HasRoom, Size, MaxSize
<1>7. FindChildIndex(ns[r], c[i]) = i
  <2>1. ns[r].children = c
    BY <1>1 DEF NewInternal
  <2>2. FindChildIndex(ns[r], ns[r].children[i]) = i
    BY <1>1, <2>1, FindChildIndexIs
  <2> QED
    BY <2>1, <2>2
<1>8. c[i] \in ToSet(c)
  BY <1>1, Members
<1> QED
  BY <1>1, <1>3, <1>4, <1>5, <1>6, <1>7, <1>8

LEMMA InsertIntoParentKeeps ==
  ASSUME BPlusTreeConstants, TwoLevels, TreeInv, InsertIntoParent
  PROVE  TreeInv' /\ LeafKeys(nodes') = LeafKeys(nodes)
<1> DEFINE new == task.new
           key == task.key
<1>1. /\ task.op = "parent" /\ nodes[task.page].parent # INVALID_PAGE_ID
      /\ task' = Idle /\ root' = root /\ header_root' = header_root
  BY DEF InsertIntoParent
<1>2. PICK c, s, i : Growing(nodes, root, task, c, s, i)
  <2>1. ASSUME Halved(nodes, root, task) PROVE FALSE
    <3>1. task.page = root /\ Leaves(nodes, <<root, new>>, <<key>>, INVALID_PAGE_ID)
      BY <2>1 DEF Halved, ParentTask
    <3>2. 1 \in 1 .. Len(<<root, new>>) /\ <<root, new>>[1] = root
      OBVIOUS
    <3>3. \E z : Leaf(nodes[root], INVALID_PAGE_ID, z)
      BY <3>1, <3>2 DEF Leaves
    <3> QED
      BY <3>1, <3>3, <1>1 DEF Leaf, NewLeaf
  <2> QED
    BY <1>1, <2>1, TasksAre DEF TreeInv
<1>3. /\ task.page = c[i] /\ c[i] \in ToSet(c) /\ nodes[c[i]].parent = root
      /\ new \in DOMAIN nodes \ (ToSet(c) \cup {root}) /\ nodes[new].parent = root /\ nodes[new] \in Node
      /\ root \in Page /\ root \in DOMAIN nodes \ ToSet(c)
      /\ nodes[root] = NewInternal(INVALID_PAGE_ID, s, c)
      /\ FindChildIndex(nodes[root], c[i]) = i
  BY <1>2, WhatGrows
<1> DEFINE d == InsertAt(c, i + 1, new)
           t == InsertAt(s, i, key)
<1>4. /\ c \in Seq(Page) /\ s \in Seq(Key) /\ Len(c) = Len(s) + 1 /\ Increasing(s)
      /\ Len(s) < InternalMax /\ i \in 1 .. Len(c) /\ key \in Key /\ new \in Page
      /\ DOMAIN nodes = ToSet(c) \cup {root, new}
      /\ Leaves(nodes, d, t, root)
  BY <1>2 DEF Growing
<1>5. Increasing(t) /\ t \in Seq(Key) /\ Len(t) = Len(s) + 1
      /\ \A j \in 1 .. Len(s) + 1 : t[j] = IF j < i THEN s[j] ELSE IF j = i THEN key ELSE s[j - 1]
  <2>1. i \in 1 .. Len(s) + 1 /\ Increasing(t)
    BY <1>4 DEF Leaves
  <2> HIDE DEF key
  <2>2. t \in Seq(Key) /\ Len(t) = Len(s) + 1
    BY <1>4, <2>1, InsertAtIs
  <2>3. \A j \in 1 .. Len(s) + 1 : t[j] = IF j < i THEN s[j] ELSE IF j = i THEN key ELSE s[j - 1]
    BY <1>4, <2>1, InsertAtIs
  <2> QED
    BY <2>1, <2>2, <2>3
<1> HIDE DEF t, new, key
<1>6. CanInsertAfter(nodes[root], c[i], key)
  <2>1. nodes[root].keys = s
    BY <1>3 DEF NewInternal
  <2>2. HasRoom(nodes[root])
    BY <1>2, WhatGrows
  <2>3. Len(s) \in Nat /\ InternalMax \in Nat /\ key \in Nat /\ \A j \in 1 .. Len(s) : s[j] \in Nat
    BY <1>4, KeysAreNumbers DEF BPlusTreeConstants
  <2>4. i <= Len(s) => key <= s[i]
    <3> SUFFICES ASSUME i <= Len(s) PROVE key <= s[i]
      OBVIOUS
    <3>1. i \in 1 .. Len(t) /\ i + 1 \in 1 .. Len(t) /\ i < i + 1 /\ (i + 1) - 1 = i
      BY <1>4, <1>5, <2>3
    <3>2. t[i] = key /\ t[i + 1] = s[i]
      BY <1>5, <3>1
    <3>3. t[i] < t[i + 1]
      BY <1>5, <3>1 DEF Increasing
    <3> QED
      BY <3>2, <3>3, <2>3, <1>4
  <2>5. i > 1 => s[i - 1] <= key
    <3> SUFFICES ASSUME i > 1 PROVE s[i - 1] <= key
      OBVIOUS
    <3>1. i \in 1 .. Len(t) /\ i - 1 \in 1 .. Len(t) /\ i - 1 < i /\ i - 1 \in 1 .. Len(s)
      BY <1>4, <1>5, <2>3
    <3>2. t[i] = key /\ t[i - 1] = s[i - 1]
      BY <1>5, <3>1
    <3>3. t[i - 1] < t[i]
      BY <1>5, <3>1 DEF Increasing
    <3> QED
      BY <3>1, <3>2, <3>3, <2>3
  <2>6. i # 0
    BY <1>4
  <2> QED
    BY <1>3, <2>1, <2>2, <2>4, <2>5, <2>6 DEF CanInsertAfter, Size
<1>7. InsertAfter(nodes[root], c[i], key, new) = NewInternal(INVALID_PAGE_ID, t, d)
  <2> DEFINE n == nodes[root]
  <2>1. n.keys = s /\ n.children = c /\ FindChildIndex(n, c[i]) = i
    BY <1>3 DEF NewInternal
  <2>2. InsertAfter(n, c[i], key, new) = [n EXCEPT !.keys = t, !.children = d]
    <3> HIDE DEF n
    <3>1. InsertAfter(n, c[i], key, new) =
            [n EXCEPT !.keys = InsertAt(n.keys, i, key), !.children = InsertAt(n.children, i + 1, new)]
      BY <2>1 DEF InsertAfter
    <3> QED
      BY <2>1, <3>1 DEF t
  <2> HIDE DEF d
  <2>3. n = NewInternal(INVALID_PAGE_ID, s, c)
    BY <1>3
  <2> HIDE DEF n
  <2>4. [n EXCEPT !.keys = t, !.children = d] = NewInternal(INVALID_PAGE_ID, t, d)
    <3>1. [n EXCEPT !.keys = t] = NewInternal(INVALID_PAGE_ID, t, c)
      BY <2>3 DEF NewInternal
    <3>2. [NewInternal(INVALID_PAGE_ID, t, c) EXCEPT !.children = d] = NewInternal(INVALID_PAGE_ID, t, d)
      BY DEF NewInternal
    <3>3. [n EXCEPT !.keys = t, !.children = d] = [[n EXCEPT !.keys = t] EXCEPT !.children = d]
      OBVIOUS
    <3> QED
      BY <3>1, <3>2, <3>3
  <2> QED
    BY <2>2, <2>4 DEF n
<1>8. nodes' = SetParent([nodes EXCEPT ![root] = NewInternal(INVALID_PAGE_ID, t, d)], {new}, root)
  <2>1. nodes' = LET p == nodes[task.page].parent
                 IN  IF CanInsertAfter(nodes[p], task.page, task.key)
                     THEN SetParent([nodes EXCEPT ![p] =
                            InsertAfter(@, task.page, task.key, task.new)],
                            {task.new}, p)
                     ELSE nodes
    BY DEF InsertIntoParent
  <2> QED
    BY <1>3, <1>6, <1>7, <2>1 DEF key, new
<1> HIDE DEF d
<1>9. /\ DOMAIN nodes' = DOMAIN nodes /\ nodes'[root] = NewInternal(INVALID_PAGE_ID, t, d)
      /\ \A q \in DOMAIN nodes \ {root} : nodes'[q] = nodes[q]
  <2>1. [nodes[new] EXCEPT !.parent = root] = nodes[new]
    BY <1>3 DEF Node
  <2>2. root # new
    BY <1>3
  <2> QED
    BY <1>8, <1>3, <2>1, <2>2 DEF SetParent
<1>10. d \in Seq(Page) /\ ToSet(d) = ToSet(c) \cup {new}
  <2> DEFINE h == i + 1
  <2>1. h \in 1 .. Len(c) + 1
    BY <1>4
  <2> HIDE DEF h
  <2>2. InsertAt(c, h, new) \in Seq(Page) /\ ToSet(InsertAt(c, h, new)) = ToSet(c) \cup {new}
    BY <1>4, <2>1, InsertAtIs
  <2> QED
    BY <2>2 DEF d, h
<1>11. Leaves(nodes', d, t, root)
  <2>1. \A j \in 1 .. Len(d) : d[j] \in DOMAIN nodes' /\ nodes'[d[j]] = nodes[d[j]]
    <3> SUFFICES ASSUME NEW j \in 1 .. Len(d)
                 PROVE  d[j] \in DOMAIN nodes' /\ nodes'[d[j]] = nodes[d[j]]
      OBVIOUS
    <3>1. d[j] \in DOMAIN nodes
      BY <1>4 DEF Leaves
    <3>2. d[j] \in ToSet(d)
      BY <1>10, Members
    <3>3. d[j] # root
      BY <3>2, <1>3, <1>10
    <3> QED
      BY <1>9, <3>1, <3>3
  <2>2. \A j \in (1 .. Len(d)) \cap {} : /\ Leaf(nodes'[d[j]], root, NextIn(d, j))
                                        /\ \A x \in ToSet(nodes'[d[j]].keys) : Fits(x, t, j)
    OBVIOUS
  <2>3. \A j \in (1 .. Len(d)) \ {} : nodes'[d[j]] = nodes[d[j]]
    BY <2>1
  <2>4. \A j \in 1 .. Len(d) : d[j] \in DOMAIN nodes'
    BY <2>1
  <2> QED
    BY <1>4, <2>2, <2>3, <2>4, LeavesChanged
<1>12. Full(nodes', root, Idle, d, t)
  <2>1. Inner(nodes', root, d, t)
    BY <1>3, <1>9, <1>10 DEF Inner
  <2>2. DOMAIN nodes' = ToSet(d) \cup {root}
    BY <1>4, <1>9, <1>10
  <2>3. Len(t) <= InternalMax
    BY <1>4, <1>5 DEF BPlusTreeConstants
  <2> QED
    BY <1>11, <2>1, <2>2, <2>3 DEF Full
<1>13. TreeInv'
  BY <1>1, <1>12 DEF TreeInv, Shape
<1>14. LeafKeys(nodes') = LeafKeys(nodes)
  <2>1. ~ IsLeaf(nodes[root]) /\ ~ IsLeaf(nodes'[root])
    BY <1>3, <1>9 DEF NewInternal, IsLeaf
  <2> QED
    BY <2>1, <1>9, KeysKept
<1> QED
  BY <1>13, <1>14

LEMMA SplitInternalNever ==
  ASSUME BPlusTreeConstants, TreeInv, SplitInternal PROVE FALSE
<1>1. task.op = "parent" /\ nodes[task.page].parent # INVALID_PAGE_ID
      /\ ~ HasRoom(nodes[nodes[task.page].parent])
  BY DEF SplitInternal
<1>2. PICK c, s, i : Growing(nodes, root, task, c, s, i)
  <2>1. ASSUME Halved(nodes, root, task) PROVE FALSE
    <3>1. task.page = root /\ Leaves(nodes, <<root, task.new>>, <<task.key>>, INVALID_PAGE_ID)
      BY <2>1 DEF Halved, ParentTask
    <3>2. 1 \in 1 .. Len(<<root, task.new>>) /\ <<root, task.new>>[1] = root
      OBVIOUS
    <3>3. \E z : Leaf(nodes[root], INVALID_PAGE_ID, z)
      BY <3>1, <3>2 DEF Leaves
    <3> QED
      BY <3>1, <3>3, <1>1 DEF Leaf, NewLeaf
  <2> QED
    BY <1>1, <2>1, TasksAre DEF TreeInv
<1> QED
  BY <1>1, <1>2, WhatGrows

LEMMA TaskDropped ==
  ASSUME NEW ns, NEW r, NEW k, Shape(ns, r, k), k.op = "rebalance"
  PROVE  Shape(ns, r, Idle)
<1>1. PICK c, s : Full(ns, r, k, c, s)
  BY TasksAre
<1>2. Full(ns, r, Idle, c, s)
  BY <1>1 DEF Full
<1> QED
  BY <1>2 DEF Shape

LEMMA StepFailsKeeps ==
  ASSUME BPlusTreeConstants, TwoLevels, TreeInv, StepFails
  PROVE  TreeInv' /\ nodes' = nodes
<1>1. task.op = "rebalance" /\ task' = Idle
      /\ nodes' = nodes /\ root' = root /\ header_root' = header_root
  BY DEF StepFails, TwoLevels
<1> QED
  BY <1>1, TaskDropped DEF TreeInv

LEMMA ReopenKeeps ==
  ASSUME TreeInv, Reopen PROVE TreeInv' /\ nodes' = nodes
BY DEF TreeInv, Reopen

-------------------------------------------------------------------------------
(* One step: what is left of a removal. *)

LEMMA FrontIs ==
  ASSUME BPlusTreeConstants, NEW r \in Seq(Key), Increasing(r), Len(r) > 0
  PROVE  /\ Front(r) \in Seq(Key) /\ Increasing(Front(r)) /\ Len(Front(r)) = Len(r) - 1
         /\ Last(r) \in Key /\ ToSet(r) = ToSet(Front(r)) \cup {Last(r)}
         /\ \A x \in ToSet(Front(r)) : x < Last(r)
<1> DEFINE n == Len(r)
           m == n - 1
           f == Front(r)
           l == Last(r)
<1>1. n \in Nat /\ n >= 1 /\ 1 \in 1 .. n + 1 /\ m \in (1 - 1) .. n /\ n \in 1 .. n /\ l = r[n]
      /\ m - 1 + 1 = m /\ m \in Nat /\ n = m + 1
  BY DEF Last
<1>2. f = SubSeq(r, 1, m)
  BY DEF Front
<1>3. r[n] \in Key
  BY <1>1
<1> HIDE DEF n, m, f, l
<1>4. /\ f \in Seq(Key) /\ Increasing(f) /\ Len(f) = m - 1 + 1
      /\ \A x : x \in ToSet(f) <=> \E j \in 1 .. m : x = r[j]
  BY <1>1, <1>2, PartIs DEF n
<1>5. \A x : x \in ToSet(r) <=> \E j \in 1 .. n : x = r[j]
  BY Members DEF n
<1>6. \A x \in ToSet(f) : x < l
  <2> SUFFICES ASSUME NEW x \in ToSet(f) PROVE x < l
    OBVIOUS
  <2>1. PICK j \in 1 .. m : x = r[j]
    BY <1>4
  <2>2. j \in 1 .. n /\ j < n /\ n \in 1 .. n
    BY <1>1
  <2> QED
    BY <1>1, <2>1, <2>2 DEF Increasing, n
<1>7. ToSet(r) = ToSet(f) \cup {l}
  <2>1. \A j : j \in 1 .. n <=> j \in 1 .. m \/ j = n
    BY <1>1
  <2>2. \A x : x \in ToSet(r) <=> x \in ToSet(f) \/ x = l
    BY <1>1, <1>4, <1>5, <2>1
  <2> QED
    BY <2>2
<1>8. Len(f) = n - 1
  BY <1>1, <1>4
<1> QED
  BY <1>1, <1>3, <1>4, <1>6, <1>7, <1>8 DEF f, l, n

LEMMA TailIs ==
  ASSUME BPlusTreeConstants, NEW r \in Seq(Key), Increasing(r), Len(r) > 0
  PROVE  /\ Tail(r) \in Seq(Key) /\ Increasing(Tail(r)) /\ Len(Tail(r)) = Len(r) - 1
         /\ ToSet(r) = ToSet(Tail(r)) \cup {Head(r)} /\ Head(r) \in Key
         /\ Len(r) > 1 => /\ r[2] \in Key /\ Head(r) < r[2] /\ r[2] \in ToSet(r)
                          /\ \A x \in ToSet(Tail(r)) : r[2] <= x
<1> DEFINE n == Len(r)
           f == Tail(r)
           h == Head(r)
<1>1. n \in Nat /\ n >= 1 /\ 2 \in 1 .. n + 1 /\ n \in (2 - 1) .. n /\ 1 \in 1 .. n /\ n - 2 + 1 = n - 1
  OBVIOUS
<1>2. h = r[1] /\ r[1] \in Key
  BY <1>1
<1>3. f = SubSeq(r, 2, n)
  <2>1. f \in Seq(Key) /\ Len(f) = n - 1 /\ \A j \in 1 .. n - 1 : f[j] = r[j + 1]
    BY <1>1
  <2> DEFINE g == SubSeq(r, 2, n)
  <2>2. g \in Seq(Key) /\ Len(g) = n - 1 /\ \A j \in 1 .. n - 1 : g[j] = r[j + 1]
    BY <1>1
  <2> HIDE DEF f, g, n
  <2>3. Len(f) = Len(g) /\ \A j \in 1 .. Len(f) : f[j] = g[j]
    BY <2>1, <2>2
  <2>4. f = g
    BY <2>1, <2>2, <2>3, SeqEqual
  <2> QED
    BY <2>4 DEF g
<1> DEFINE two == 2
<1>4. two \in 1 .. Len(r) + 1 /\ n \in (two - 1) .. Len(r) /\ f = SubSeq(r, two, n)
  BY <1>1, <1>3
<1>5. two = 2
  OBVIOUS
<1> HIDE DEF n, f, h, two
<1>6. /\ f \in Seq(Key) /\ Increasing(f) /\ Len(f) = n - two + 1
      /\ \A x : x \in ToSet(f) <=> \E j \in two .. n : x = r[j]
  BY <1>4, PartIs
<1>7. \A x : x \in ToSet(r) <=> \E j \in 1 .. n : x = r[j]
  BY Members DEF n
<1>8. ToSet(r) = ToSet(f) \cup {h}
  <2>1. \A j : j \in 1 .. n <=> j \in two .. n \/ j = 1
    BY <1>1, <1>5
  <2>2. \A x : x \in ToSet(r) <=> x \in ToSet(f) \/ x = h
    BY <1>2, <1>6, <1>7, <2>1
  <2> QED
    BY <2>2
<1>9. Len(f) = n - 1
  BY <1>1, <1>5, <1>6
<1>10. ASSUME n > 1
       PROVE  /\ r[2] \in Key /\ h < r[2] /\ r[2] \in ToSet(r)
              /\ \A x \in ToSet(f) : r[2] <= x
  <2>1. 2 \in 1 .. n
    BY <1>1, <1>10
  <2>2. \A j \in 1 .. n : r[j] \in Key /\ r[j] \in Nat
    BY KeysAreNumbers DEF n
  <2>3. h < r[2]
    BY <1>1, <1>2, <2>1 DEF Increasing, n
  <2>4. ASSUME NEW x \in ToSet(f) PROVE r[2] <= x
    <3>1. PICK j \in two .. n : x = r[j]
      BY <1>6
    <3>2. j \in 1 .. n /\ (j = 2 \/ 2 < j)
      BY <1>1, <1>5
    <3>3. j = 2 \/ r[2] < r[j]
      BY <2>1, <3>2 DEF Increasing, n
    <3>4. r[j] \in Nat /\ r[2] \in Nat
      BY <2>1, <2>2, <3>2
    <3> QED
      BY <3>1, <3>3, <3>4
  <2> QED
    BY <2>1, <2>2, <2>3, <2>4, <1>7
<1> QED
  BY <1>2, <1>6, <1>8, <1>9, <1>10 DEF f, h, n

LEMMA LastAdded ==
  ASSUME BPlusTreeConstants, NEW r \in Seq(Key), Increasing(r), NEW k \in Key,
         \A x \in ToSet(r) : x < k
  PROVE  /\ Append(r, k) \in Seq(Key) /\ Increasing(Append(r, k)) /\ Len(Append(r, k)) = Len(r) + 1
         /\ ToSet(Append(r, k)) = ToSet(r) \cup {k}
<1> DEFINE q == <<k>>
<1>1. q \in Seq(Key) /\ Len(q) = 1 /\ q[1] = k
  OBVIOUS
<1>2. Append(r, k) = r \o q
  OBVIOUS
<1>3. ToSet(q) = {k}
  BY SmallSeqs
<1> HIDE DEF q
<1>4. Increasing(q)
  BY <1>1 DEF Increasing
<1>5. Increasing(r \o q)
  BY <1>1, <1>3, <1>4, ConcatIncreasing
<1>6. r \o q \in Seq(Key) /\ Len(r \o q) = Len(r) + Len(q) /\ ToSet(r \o q) = ToSet(r) \cup ToSet(q)
  <2>1. r \in Seq(Key) /\ q \in Seq(Key)
    BY <1>1
  <2>2. ToSet(r \o q) = ToSet(r) \cup ToSet(q)
    BY ONLY <2>1, ConcatIs
  <2> QED
    BY <2>1, <2>2
<1> QED
  BY <1>1, <1>2, <1>3, <1>5, <1>6

LEMMA FirstAdded ==
  ASSUME BPlusTreeConstants, NEW r \in Seq(Key), Increasing(r), NEW k \in Key,
         \A x \in ToSet(r) : k < x
  PROVE  /\ <<k>> \o r \in Seq(Key) /\ Increasing(<<k>> \o r) /\ Len(<<k>> \o r) = Len(r) + 1
         /\ ToSet(<<k>> \o r) = ToSet(r) \cup {k}
<1> DEFINE q == <<k>>
<1>1. q \in Seq(Key) /\ Len(q) = 1 /\ q[1] = k
  OBVIOUS
<1>3. ToSet(q) = {k}
  BY SmallSeqs
<1> HIDE DEF q
<1>4. Increasing(q)
  BY <1>1 DEF Increasing
<1>5. Increasing(q \o r)
  BY <1>1, <1>3, <1>4, ConcatIncreasing
<1>6. q \o r \in Seq(Key) /\ Len(q \o r) = Len(q) + Len(r) /\ ToSet(q \o r) = ToSet(q) \cup ToSet(r)
  <2>1. r \in Seq(Key) /\ q \in Seq(Key)
    BY <1>1
  <2>2. ToSet(q \o r) = ToSet(q) \cup ToSet(r)
    BY ONLY <2>1, ConcatIs
  <2> QED
    BY <2>1, <2>2
<1>7. Len(q \o r) = Len(r) + 1
  BY <1>1, <1>6
<1> QED
  BY <1>3, <1>5, <1>6, <1>7 DEF q

LEMMA LeafAt ==
  ASSUME BPlusTreeConstants, NEW ns, NEW c, NEW s, NEW par, Leaves(ns, c, s, par), NEW i \in 1 .. Len(c)
  PROVE  /\ c[i] \in DOMAIN ns /\ c[i] \in ToSet(c) /\ c[i] \in Page
         /\ Leaf(ns[c[i]], par, NextIn(c, i)) /\ IsLeaf(ns[c[i]]) /\ ns[c[i]].type = "LEAF"
         /\ ns[c[i]].parent = par /\ ns[c[i]].next = NextIn(c, i) /\ ns[c[i]].children = <<>>
         /\ ns[c[i]].keys \in Seq(Key) /\ Increasing(ns[c[i]].keys) /\ Len(ns[c[i]].keys) <= LeafMax
         /\ \A x \in ToSet(ns[c[i]].keys) : x \in Key /\ x \in Nat /\ Fits(x, s, i)
<1> DEFINE n == ns[c[i]]
<1>1. c[i] \in DOMAIN ns /\ c \in Seq(Page) /\ Leaf(n, par, NextIn(c, i)) /\ \A x \in ToSet(n.keys) : Fits(x, s, i)
  BY DEF Leaves
<1> HIDE DEF n
<1>2. n \in Node /\ n = NewLeaf(par, n.keys, NextIn(c, i)) /\ Increasing(n.keys) /\ Len(n.keys) <= LeafMax
  BY <1>1 DEF Leaf
<1>3. /\ n.type = "LEAF" /\ n.parent = par /\ n.next = NextIn(c, i) /\ n.children = <<>> /\ IsLeaf(n)
  BY <1>2 DEF NewLeaf, IsLeaf
<1>4. n.keys \in Seq(Key)
  BY <1>2 DEF Node
<1>5. ToSet(n.keys) \subseteq Key /\ \A x \in Key : x \in Nat
  BY <1>4, Members DEF BPlusTreeConstants
<1>6. c[i] \in ToSet(c) /\ c[i] \in Page
  BY <1>1, Members
<1> QED
  BY <1>1, <1>2, <1>3, <1>4, <1>5, <1>6 DEF n

(* Where a page is rebalanced. *)
LEMMA AtFault ==
  ASSUME BPlusTreeConstants, Shape(nodes, root, task), Rebalancing
  PROVE  \E c, s : /\ Full(nodes, root, task, c, s)
                   /\ \E i \in 1 .. Len(c) : /\ task.page = c[i] /\ Current.parent = root
                                             /\ Parent = NewInternal(INVALID_PAGE_ID, s, c)
                                             /\ Position = i
<1>1. /\ task.op = "rebalance" /\ task.page # root /\ nodes[task.page].parent # INVALID_PAGE_ID
  BY DEF Rebalancing, AtRoot
<1>2. PICK c, s : /\ Full(nodes, root, task, c, s)
                  /\ \E p \in DOMAIN nodes : task = RebalanceTask(p)
  BY <1>1, TasksAre
<1>3. /\ DOMAIN nodes = ToSet(c) \cup {root} /\ Leaves(nodes, c, s, root) /\ Inner(nodes, root, c, s)
  BY <1>2 DEF Full
<1>4. c \in Seq(Page) /\ Distinct(c)
  BY <1>3 DEF Leaves
<1>5. task.page \in DOMAIN nodes
  BY <1>2 DEF RebalanceTask, Idle
<1>6. PICK i \in 1 .. Len(c) : task.page = c[i]
  BY <1>1, <1>3, <1>4, <1>5, Members
<1>7. nodes[c[i]].parent = root
  BY <1>3, LeafAt
<1>8. Current.parent = root /\ Parent = nodes[root]
  BY <1>6, <1>7 DEF Current, Parent
<1>9. nodes[root] = NewInternal(INVALID_PAGE_ID, s, c)
  BY <1>3 DEF Inner
<1>10. nodes[root].children = c
  BY <1>9 DEF NewInternal
<1>11. Position = i
  <2>1. FindChildIndex(nodes[root], nodes[root].children[i]) = i
    BY <1>4, <1>10, FindChildIndexIs
  <2> QED
    BY <2>1, <1>6, <1>8, <1>10 DEF Position
<1> QED
  BY <1>2, <1>6, <1>8, <1>9, <1>11

LEMMA StopRebalancingKeeps ==
  ASSUME TreeInv, StopRebalancing PROVE TreeInv' /\ nodes' = nodes
<1>1. task.op = "rebalance" /\ task' = Idle
      /\ nodes' = nodes /\ root' = root /\ header_root' = header_root
  BY DEF StopRebalancing
<1> QED
  BY <1>1, TaskDropped DEF TreeInv

LEMMA AdjustRootKeeps ==
  ASSUME BPlusTreeConstants, TwoLevels, TreeInv, AdjustRootAfterDelete
  PROVE  TreeInv' /\ LeafKeys(nodes') = LeafKeys(nodes)
<1>1. task.op = "rebalance" /\ task' = Idle /\ AtRoot(task.page)
  BY DEF AdjustRootAfterDelete
<1>2. PICK c, s : /\ Full(nodes, root, task, c, s)
                  /\ \E p \in DOMAIN nodes : task = RebalanceTask(p)
  BY <1>1, TasksAre DEF TreeInv
<1>3. /\ DOMAIN nodes = ToSet(c) \cup {root} /\ Leaves(nodes, c, s, root)
      /\ root \in (DOMAIN nodes) \cap Page /\ root \notin ToSet(c)
      /\ nodes[root] = NewInternal(INVALID_PAGE_ID, s, c)
  BY <1>2 DEF Full, Inner
<1>4. c \in Seq(Page) /\ s \in Seq(Key) /\ Len(c) = Len(s) + 1 /\ Distinct(c)
  BY <1>3 DEF Leaves
<1>5. task.page = root
  <2>1. task.page \in DOMAIN nodes
    BY <1>2 DEF RebalanceTask, Idle
  <2>2. ASSUME task.page # root PROVE FALSE
    <3>1. PICK i \in 1 .. Len(c) : task.page = c[i]
      BY <1>3, <1>4, <2>1, <2>2, Members
    <3>2. nodes[c[i]].parent = root
      BY <1>3, LeafAt
    <3> QED
      BY <1>1, <1>3, <2>2, <3>1, <3>2 DEF AtRoot, INVALID_PAGE_ID, Page
  <2> QED
    BY <2>2
<1>6. nodes[root].keys = s /\ nodes[root].children = c /\ ~ IsLeaf(nodes[root])
  BY <1>3 DEF NewInternal, IsLeaf
<1>7. CASE Len(s) > 0
  <2>1. nodes' = nodes /\ root' = root /\ header_root' = header_root
    BY <1>5, <1>6, <1>7 DEF AdjustRootAfterDelete, Size
  <2> QED
    BY <1>1, <2>1, TaskDropped DEF TreeInv
<1>8. CASE ~ (Len(s) > 0)
  <2> DEFINE b == c[1]
  <2>1. Len(s) = 0 /\ Len(c) = 1
    BY <1>4, <1>8
  <2>2. root' = b /\ header_root' = root'
        /\ nodes' = Without(SetParent(nodes, {b}, INVALID_PAGE_ID), root)
    <3>1. /\ root' = b
          /\ \E saved \in HeaderWrites, deleted \in Deletions :
               /\ PersistRoot(saved)
               /\ nodes' = Deleted(SetParent(nodes, {b}, INVALID_PAGE_ID), root, saved /\ deleted)
      BY <1>5, <1>6, <1>8 DEF AdjustRootAfterDelete, Size
    <3>2. PICK saved \in HeaderWrites, deleted \in Deletions :
            /\ PersistRoot(saved)
            /\ nodes' = Deleted(SetParent(nodes, {b}, INVALID_PAGE_ID), root, saved /\ deleted)
      BY <3>1
    <3>3. saved = TRUE /\ deleted = TRUE /\ header_root' = root'
      BY <3>2, Headers
    <3>4. nodes' = Without(SetParent(nodes, {b}, INVALID_PAGE_ID), root)
      <4> HIDE DEF b
      <4>1. nodes' = IF saved /\ deleted THEN Without(SetParent(nodes, {b}, INVALID_PAGE_ID), root)
                                         ELSE SetParent(nodes, {b}, INVALID_PAGE_ID)
        BY <3>2 DEF Deleted
      <4> QED
        BY <3>3, <4>1
    <3> QED
      BY <3>1, <3>3, <3>4
  <2>3. s = <<>> /\ c = <<b>> /\ ToSet(c) = {b} /\ b \in Page /\ b \in DOMAIN nodes
    <3>1. b \in Page /\ 1 \in 1 .. Len(c)
      BY <1>4, <2>1
    <3>2. <<b>> \in Seq(Page) /\ Len(<<b>>) = 1 /\ <<b>>[1] = b
      BY <3>1
    <3> HIDE DEF b
    <3>3. \A j \in 1 .. Len(c) : c[j] = <<b>>[j]
      BY <2>1, <3>2 DEF b
    <3>4. c = <<b>>
      BY <1>4, <2>1, <3>2, <3>3, SeqEqual
    <3>5. ToSet(<<b>>) = {b}
      BY ONLY <3>1, SmallSeqs, Zenon
    <3>6. s = <<>>
      BY <1>4, <2>1
    <3>7. c[1] \in DOMAIN nodes
      BY <1>3, <3>1 DEF Leaves
    <3> QED
      BY <3>1, <3>4, <3>5, <3>6, <3>7 DEF b
  <2> HIDE DEF b
  <2>4. /\ DOMAIN nodes' = {b} /\ nodes'[b] = [nodes[b] EXCEPT !.parent = INVALID_PAGE_ID]
        /\ b # root
    BY <1>3, <2>2, <2>3 DEF Without, SetParent
  <2>5. Leaves(nodes', c, s, INVALID_PAGE_ID)
    <3>1. \A j \in 1 .. Len(c) : c[j] = b
      BY <2>1 DEF b
    <3>2. \A j \in 1 .. Len(c) : c[j] \in DOMAIN nodes' /\ nodes'[c[j]] = [nodes[c[j]] EXCEPT !.parent = INVALID_PAGE_ID]
      BY <2>4, <3>1
    <3>3. INVALID_PAGE_ID \in PageId
      BY DEF PageId
    <3> QED
      BY <1>3, <3>2, <3>3, LeavesReparented
  <2>6. Single(nodes', b, Idle)
    <3>1. Leaves(nodes', <<b>>, <<>>, INVALID_PAGE_ID)
      BY <2>3, <2>5
    <3> QED
      BY <3>1, <2>4 DEF Single
  <2>7. TreeInv'
    BY <1>1, <2>2, <2>6 DEF TreeInv, Shape
  <2>8. LeafKeys(nodes') = LeafKeys(nodes)
    <3>1. nodes[b] \in Node /\ IsLeaf(nodes[b])
      <4>1. 1 \in 1 .. Len(c)
        BY <2>1
      <4> QED
        BY <1>3, <4>1, LeafAt DEF b, Leaf
    <3>2. nodes'[b].keys = nodes[b].keys /\ IsLeaf(nodes'[b])
      BY <2>4, <3>1 DEF IsLeaf, Node
    <3>3. DOMAIN nodes = {b, root}
      BY <1>3, <2>3
    <3> QED
      BY <1>6, <2>4, <3>1, <3>2, <3>3, KeysKept
  <2> QED
    BY <2>7, <2>8
<1> QED
  BY <1>7, <1>8

LEMMA LeafRewritten ==
  ASSUME NEW m, NEW par, NEW nxt, Leaf(m, par, nxt), NEW r \in Seq(Key), Increasing(r), Len(r) <= LeafMax
  PROVE  /\ Leaf([m EXCEPT !.keys = r, !.children = <<>>], par, nxt)
         /\ [m EXCEPT !.keys = r, !.children = <<>>].keys = r
<1> DEFINE n == [m EXCEPT !.keys = r]
<1>1. Leaf(n, par, nxt) /\ n.keys = r
  BY LeafRekeyed
<1>2. [m EXCEPT !.keys = r, !.children = <<>>] = [n EXCEPT !.children = <<>>]
  OBVIOUS
<1> HIDE DEF n
<1>3. [n EXCEPT !.children = <<>>] = n
  <2>1. n = NewLeaf(par, r, nxt)
    BY <1>1 DEF Leaf
  <2> QED
    BY <2>1 DEF NewLeaf
<1> QED
  BY <1>1, <1>2, <1>3

(* Keys move between two leaves next to each other. *)
Lends(ns, ms, r, c, s, i, k) ==
  /\ DOMAIN ms = DOMAIN ns
  /\ ms[r] = NewInternal(INVALID_PAGE_ID, [s EXCEPT ![i] = k], c)
  /\ \A p \in DOMAIN ns \ {c[i], c[i + 1], r} : ms[p] = ns[p]
  /\ Leaf(ms[c[i]], r, NextIn(c, i)) /\ Leaf(ms[c[i + 1]], r, NextIn(c, i + 1))
  /\ ToSet(ms[c[i]].keys) \cup ToSet(ms[c[i + 1]].keys)
       = ToSet(ns[c[i]].keys) \cup ToSet(ns[c[i + 1]].keys)
  /\ i > 1 => s[i - 1] < k
  /\ i < Len(s) => k < s[i + 1]
  /\ \A x \in ToSet(ms[c[i]].keys) : x < k /\ (i > 1 => s[i - 1] <= x)
  /\ \A x \in ToSet(ms[c[i + 1]].keys) : k <= x /\ (i < Len(s) => x < s[i + 1])

LEMMA Lent ==
  ASSUME BPlusTreeConstants, NEW k \in Key, NEW c, NEW s, Full(nodes, root, task, c, s),
         NEW i \in 1 .. Len(s), NEW ms, Lends(nodes, ms, root, c, s, i, k)
  PROVE  Shape(ms, root, Idle) /\ LeafKeys(ms) = LeafKeys(nodes)
<1> DEFINE n1 == ms[c[i]]
           n2 == ms[c[i + 1]]
<1>0. /\ DOMAIN ms = DOMAIN nodes
      /\ ms[root] = NewInternal(INVALID_PAGE_ID, [s EXCEPT ![i] = k], c)
      /\ \A p \in DOMAIN nodes \ {c[i], c[i + 1], root} : ms[p] = nodes[p]
      /\ Leaf(n1, root, NextIn(c, i)) /\ Leaf(n2, root, NextIn(c, i + 1))
      /\ ToSet(n1.keys) \cup ToSet(n2.keys) = ToSet(nodes[c[i]].keys) \cup ToSet(nodes[c[i + 1]].keys)
      /\ i > 1 => s[i - 1] < k
      /\ i < Len(s) => k < s[i + 1]
      /\ \A x \in ToSet(n1.keys) : x < k /\ (i > 1 => s[i - 1] <= x)
      /\ \A x \in ToSet(n2.keys) : k <= x /\ (i < Len(s) => x < s[i + 1])
  BY DEF Lends
<1> USE <1>0
<1> DEFINE t == [s EXCEPT ![i] = k]
           h == i + 1
<1>1. /\ DOMAIN nodes = ToSet(c) \cup {root} /\ Leaves(nodes, c, s, root)
      /\ root \in (DOMAIN nodes) \cap Page /\ root \notin ToSet(c) /\ Len(s) <= InternalMax
      /\ nodes[root] = NewInternal(INVALID_PAGE_ID, s, c)
  BY DEF Full, Inner
<1>2. c \in Seq(Page) /\ s \in Seq(Key) /\ Len(c) = Len(s) + 1 /\ Distinct(c)
  BY <1>1 DEF Leaves
<1>3. i \in 1 .. Len(c) /\ h \in 1 .. Len(c) /\ i # h
  BY <1>2
<1>4. \A j \in 1 .. Len(c) : c[j] \in DOMAIN nodes /\ c[j] \in ToSet(c) /\ c[j] # root
  BY <1>1, <1>2, Members
<1>5. \A j \in 1 .. Len(c) : j \notin {i, h} => ms[c[j]] = nodes[c[j]]
  <2> SUFFICES ASSUME NEW j \in 1 .. Len(c), j \notin {i, h} PROVE ms[c[j]] = nodes[c[j]]
    OBVIOUS
  <2>1. c[j] # c[i] /\ c[j] # c[h]
    BY <1>2, <1>3 DEF Distinct
  <2> QED
    BY <2>1, <1>4
<1>6. Leaves(ms, c, t, root)
  <2>1. Leaf(ms[c[i]], root, NextIn(c, i)) /\ Leaf(ms[c[i + 1]], root, NextIn(c, i + 1))
    OBVIOUS
  <2>2. \A j \in 1 .. Len(c) : c[j] \in DOMAIN ms
    BY <1>4
  <2>3. \A j \in 1 .. Len(c) : j \notin {i, i + 1} => ms[c[j]] = nodes[c[j]]
    BY <1>5
  <2>4. \A x \in ToSet(ms[c[i]].keys) : x < k /\ (i > 1 => s[i - 1] <= x)
    OBVIOUS
  <2>5. \A x \in ToSet(ms[c[i + 1]].keys) : k <= x /\ (i < Len(s) => x < s[i + 1])
    OBVIOUS
  <2> QED
    BY <1>1, <2>1, <2>2, <2>3, <2>4, <2>5, LeavesBorrowed
<1>7. Full(ms, root, Idle, c, t)
  <2>1. Inner(ms, root, c, t)
    BY <1>1 DEF Inner
  <2>2. Len(t) <= InternalMax
    BY <1>1, <1>2
  <2> HIDE DEF t
  <2> QED
    BY <1>1, <1>6, <2>1, <2>2 DEF Full
<1>8. Shape(ms, root, Idle)
  <2> HIDE DEF t
  <2> QED
    BY <1>7 DEF Shape
<1> DEFINE P == {c[i], c[h]}
<1>9. /\ IsLeaf(nodes[c[i]]) /\ IsLeaf(nodes[c[h]]) /\ IsLeaf(n1) /\ IsLeaf(n2)
  <2>1. IsLeaf(nodes[c[i]]) /\ IsLeaf(nodes[c[h]])
    BY <1>1, <1>3, LeafAt
  <2>2. ASSUME NEW n, NEW z, Leaf(n, root, z) PROVE IsLeaf(n)
    BY <2>2 DEF Leaf, NewLeaf, IsLeaf
  <2> QED
    BY <2>1, <2>2
<1>10. KeysIn(nodes, P) = ToSet(nodes[c[i]].keys) \cup ToSet(nodes[c[h]].keys)
  <2>1. {p \in P \cap DOMAIN nodes : IsLeaf(nodes[p])} = P
    BY <1>3, <1>4, <1>9
  <2>2. \A x : x \in KeysIn(nodes, P) <=> x \in ToSet(nodes[c[i]].keys) \/ x \in ToSet(nodes[c[h]].keys)
    BY <2>1 DEF KeysIn
  <2> QED
    BY <2>2
<1>11. KeysIn(ms, P) = ToSet(n1.keys) \cup ToSet(n2.keys)
  <2>1. {p \in P \cap DOMAIN ms : IsLeaf(ms[p])} = P
    BY <1>3, <1>4, <1>9
  <2>2. \A x : x \in KeysIn(ms, P) <=> x \in ToSet(ms[c[i]].keys) \/ x \in ToSet(ms[c[h]].keys)
    BY <2>1 DEF KeysIn
  <2> QED
    BY <2>2
<1>12. \E O : /\ LeafKeys(nodes) = O \cup KeysIn(nodes, P)
              /\ LeafKeys(ms) = O \cup KeysIn(ms, P)
              /\ O = KeysIn(nodes, DOMAIN nodes \ P)
  <2>1. ~ IsLeaf(nodes[root]) /\ ~ IsLeaf(ms[root])
    BY <1>1 DEF NewInternal, IsLeaf
  <2>2. \A p : p \notin P => (p \in DOMAIN nodes <=> p \in DOMAIN ms)
    OBVIOUS
  <2>3. \A p \in DOMAIN nodes \ P : /\ IsLeaf(nodes[p]) <=> IsLeaf(ms[p])
                                    /\ IsLeaf(nodes[p]) => nodes[p].keys = ms[p].keys
    BY <2>1
  <2> HIDE DEF P
  <2> QED
    BY ONLY <2>2, <2>3, KeysElsewhere
<1>13. LeafKeys(ms) = LeafKeys(nodes)
  <2> HIDE DEF P
  <2> QED
    BY <1>10, <1>11, <1>12
<1> QED
  BY <1>8, <1>13

(* How short a leaf is that has to be rebalanced, and how long one that    *)
(* can lend.                                                               *)
LEMMA Shortage ==
  ASSUME BPlusTreeConstants, NEW n, IsLeaf(n), n.parent # INVALID_PAGE_ID, n.keys \in Seq(Key)
  PROVE  /\ GetMinSize(n) = LeafMax \div 2 /\ Size(n) = Len(n.keys)
         /\ GetMinSize(n) \in Nat /\ GetMinSize(n) >= 1 /\ GetMinSize(n) + GetMinSize(n) <= LeafMax
<1>1. LeafMax \in Nat /\ LeafMax >= 2
  BY DEF BPlusTreeConstants
<1>2. GetMinSize(n) = LeafMax \div 2
  BY DEF GetMinSize, MaxSize
<1> QED
  BY <1>1, <1>2 DEF Size

LEMMA BorrowFromLeftKeeps ==
  ASSUME BPlusTreeConstants, TwoLevels, TreeInv, BorrowFromLeft
  PROVE  TreeInv' /\ LeafKeys(nodes') = LeafKeys(nodes)
<1>1. Rebalancing /\ HasLeft /\ CanLend(LeftPage) /\ task' = Idle
      /\ root' = root /\ header_root' = header_root
  BY DEF BorrowFromLeft
<1>2. PICK c, s, h :
        /\ h \in 1 .. Len(c)
        /\ Full(nodes, root, task, c, s) /\ task.page = c[h] /\ Current.parent = root
        /\ Parent = NewInternal(INVALID_PAGE_ID, s, c) /\ Position = h
  BY <1>1, AtFault DEF TreeInv
<1>3. Parent.keys = s /\ Parent.children = c
  BY <1>2 DEF NewInternal
<1>4. /\ DOMAIN nodes = ToSet(c) \cup {root} /\ Leaves(nodes, c, s, root) /\ root \in Page
      /\ root \notin ToSet(c)
  BY <1>2 DEF Full, Inner
<1>5. c \in Seq(Page) /\ s \in Seq(Key) /\ Len(c) = Len(s) + 1 /\ Distinct(c) /\ Increasing(s)
      /\ Len(s) \in Nat
  BY <1>4 DEF Leaves
<1>6. PICK i \in 1 .. Len(s) : h = i + 1 /\ i = h - 1
  <2>1. h > 1
    BY <1>1, <1>2 DEF HasLeft
  <2>2. h - 1 \in 1 .. Len(s) /\ h = (h - 1) + 1
    BY <1>2, <1>5, <2>1
  <2> QED
    BY <2>2
<1> DEFINE left == nodes[c[i]]
           cur == nodes[c[h]]
           k == Last(left.keys)
           f == Front(left.keys)
           g == <<k>> \o cur.keys
           n1 == [left EXCEPT !.keys = f, !.children = <<>>]
           n2 == [cur EXCEPT !.keys = g, !.children = <<>>]
           t == [s EXCEPT ![i] = k]
<1>7. /\ i \in 1 .. Len(c) /\ i < h
  BY <1>5, <1>6
<1>8. LeftPage = c[i] /\ Current = cur
  BY <1>2, <1>3, <1>6 DEF LeftPage, Current
<1>9. /\ c[i] \in DOMAIN nodes /\ c[i] \in ToSet(c)
      /\ Leaf(left, root, NextIn(c, i)) /\ IsLeaf(left) /\ left.parent = root /\ left.children = <<>>
      /\ left.keys \in Seq(Key) /\ Increasing(left.keys) /\ Len(left.keys) <= LeafMax
      /\ \A x \in ToSet(left.keys) : x \in Key /\ x \in Nat /\ Fits(x, s, i)
  BY <1>4, <1>7, LeafAt
<1>10. /\ c[h] \in DOMAIN nodes /\ c[h] \in ToSet(c)
       /\ Leaf(cur, root, NextIn(c, h)) /\ IsLeaf(cur) /\ cur.parent = root /\ cur.children = <<>>
       /\ cur.keys \in Seq(Key) /\ Increasing(cur.keys) /\ Len(cur.keys) <= LeafMax
       /\ \A x \in ToSet(cur.keys) : x \in Key /\ x \in Nat /\ Fits(x, s, h)
  BY <1>2, <1>4, LeafAt
<1>11. c[i] # c[h] /\ c[i] # root /\ c[h] # root /\ root # INVALID_PAGE_ID
  BY <1>2, <1>4, <1>5, <1>7, <1>9, <1>10 DEF Distinct, INVALID_PAGE_ID, Page
<1>12. Len(left.keys) >= 2 /\ Len(cur.keys) + 1 <= LeafMax
  <2>1. Size(left) > GetMinSize(left) /\ Size(cur) < GetMinSize(cur)
    BY <1>1, <1>8 DEF CanLend, Rebalancing
  <2>2. /\ GetMinSize(left) = LeafMax \div 2 /\ Size(left) = Len(left.keys)
        /\ GetMinSize(left) \in Nat /\ GetMinSize(left) >= 1 /\ GetMinSize(left) + GetMinSize(left) <= LeafMax
    BY <1>9, <1>11, Shortage
  <2>3. GetMinSize(cur) = LeafMax \div 2 /\ Size(cur) = Len(cur.keys)
    BY <1>10, <1>11, Shortage
  <2> HIDE DEF left, cur
  <2>4. Len(left.keys) \in Nat /\ Len(cur.keys) \in Nat /\ LeafMax \in Nat
    BY <1>9, <1>10 DEF BPlusTreeConstants
  <2> QED
    BY <2>1, <2>2, <2>3, <2>4
<1>13. nodes' = SetParent([nodes EXCEPT ![c[i]] = n1, ![c[h]] = n2,
                                       ![root] = NewInternal(INVALID_PAGE_ID, t, c)], {}, c[h])
  <2> DEFINE sep == Parent.keys[Position - 1]
             lent == IF IsLeaf(left) THEN << >> ELSE <<Last(left.children)>>
             received == IF IsLeaf(left) THEN Last(left.keys) ELSE sep
             left_rest == [left EXCEPT !.keys = Front(left.keys),
                                       !.children = SubSeq(left.children, 1, Len(left.children) - Len(lent))]
             grown == [cur EXCEPT !.keys = <<received>> \o cur.keys,
                                  !.children = lent \o cur.children]
             parent == [Parent EXCEPT !.keys[Position - 1] = Last(left.keys)]
  <2>1. nodes' = SetParent([nodes EXCEPT ![c[i]] = left_rest, ![c[h]] = grown, ![root] = parent],
                           ToSet(lent), c[h])
    BY <1>2, <1>8 DEF BorrowFromLeft
  <2>2. lent = <<>> /\ received = k
    BY <1>9
  <2>3. ToSet(<<>>) = {}
    BY DEF ToSet
  <2>4. left_rest = n1
    <3>1. SubSeq(left.children, 1, Len(left.children) - Len(lent)) = <<>>
      BY <1>9, <2>2
    <3> QED
      BY <3>1
  <2>5. grown = n2
    <3>1. lent \o cur.children = <<>>
      BY <1>10, <2>2
    <3> QED
      BY <2>2, <3>1
  <2>6. parent = NewInternal(INVALID_PAGE_ID, t, c)
    <3>1. Position - 1 = i
      BY <1>2, <1>6
    <3> HIDE DEF k
    <3>2. [NewInternal(INVALID_PAGE_ID, s, c) EXCEPT !.keys[i] = k] = NewInternal(INVALID_PAGE_ID, t, c)
      BY DEF NewInternal
    <3> QED
      BY <1>2, <3>1, <3>2 DEF k
  <2> HIDE DEF left_rest, grown, parent, lent
  <2> QED
    BY <2>1, <2>2, <2>3, <2>4, <2>5, <2>6
<1>14. /\ f \in Seq(Key) /\ Increasing(f) /\ Len(f) = Len(left.keys) - 1
       /\ k \in Key /\ ToSet(left.keys) = ToSet(f) \cup {k}
       /\ \A x \in ToSet(f) : x < k
  <2> HIDE DEF left
  <2>1. Len(left.keys) > 0
    BY <1>12, <1>9
  <2> QED
    BY <1>9, <2>1, FrontIs
<1>15. \A x \in ToSet(cur.keys) : k < x
  <2>1. k \in ToSet(left.keys)
    BY <1>14
  <2> QED
    BY <1>2, <1>4, <1>7, <2>1, LeavesInOrder
<1>16. /\ g \in Seq(Key) /\ Increasing(g) /\ Len(g) = Len(cur.keys) + 1
       /\ ToSet(g) = ToSet(cur.keys) \cup {k}
  <2> HIDE DEF cur, k
  <2> QED
    BY <1>10, <1>14, <1>15, FirstAdded
<1> HIDE DEF k, f, g
<1>17. Leaf(n1, root, NextIn(c, i)) /\ n1.keys = f /\ Leaf(n2, root, NextIn(c, h)) /\ n2.keys = g
  <2> HIDE DEF left, cur
  <2>1. Len(f) <= LeafMax /\ Len(g) <= LeafMax
    BY <1>9, <1>10, <1>12, <1>14, <1>16 DEF BPlusTreeConstants
  <2> QED
    BY <1>9, <1>10, <1>14, <1>16, <2>1, LeafRewritten
<1> HIDE DEF n1, n2, t
<1>18. /\ DOMAIN nodes' = DOMAIN nodes /\ nodes'[c[i]] = n1 /\ nodes'[c[h]] = n2
       /\ nodes'[root] = NewInternal(INVALID_PAGE_ID, t, c)
       /\ \A p \in DOMAIN nodes \ {c[i], c[h], root} : nodes'[p] = nodes[p]
  BY <1>4, <1>9, <1>10, <1>11, <1>13 DEF SetParent
<1> HIDE DEF left, cur
<1>19. /\ i > 1 => s[i - 1] < k
       /\ i < Len(s) => k < s[i + 1]
       /\ k \in Nat
  <2>1. k \in Nat /\ \A j \in 1 .. Len(s) : s[j] \in Nat
    BY <1>5, <1>9, <1>14, KeysAreNumbers
  <2>2. Fits(k, s, i)
    BY <1>9, <1>14
  <2>3. ASSUME i > 1 PROVE s[i - 1] < k
    <3>1. f[1] \in ToSet(f)
      <4>1. 1 \in 1 .. Len(f)
        BY <1>9, <1>12, <1>14
      <4> QED
        BY <1>14, <4>1, Members
    <3>2. f[1] < k /\ f[1] \in Nat /\ s[i - 1] <= f[1]
      BY <1>9, <1>14, <2>3, <3>1 DEF Fits
    <3>3. s[i - 1] \in Nat
      BY <1>5, <2>1, <2>3
    <3> QED
      BY <2>1, <3>2, <3>3
  <2>4. ASSUME i < Len(s) PROVE k < s[i + 1]
    <3>1. i + 1 \in 1 .. Len(s) /\ i < i + 1
      BY <1>5, <2>4
    <3>2. s[i] < s[i + 1]
      BY <1>5, <3>1 DEF Increasing
    <3>3. k < s[i]
      BY <2>2 DEF Fits
    <3> QED
      BY <2>1, <3>1, <3>2, <3>3
  <2> QED
    BY <2>1, <2>3, <2>4
<1>20. \A x \in ToSet(n1.keys) : x < k /\ (i > 1 => s[i - 1] <= x)
  BY <1>9, <1>14, <1>17 DEF Fits
<1>21. \A x \in ToSet(n2.keys) : k <= x /\ (i < Len(s) => x < s[i + 1])
  <2> SUFFICES ASSUME NEW x \in ToSet(n2.keys)
               PROVE  k <= x /\ (i < Len(s) => x < s[i + 1])
    OBVIOUS
  <2>1. CASE x = k
    BY <1>19, <2>1
  <2>2. CASE x \in ToSet(cur.keys)
    <3>1. k < x /\ x \in Nat /\ Fits(x, s, h)
      BY <1>10, <1>15, <2>2
    <3>2. h <= Len(s) => x < s[h]
      BY <3>1 DEF Fits
    <3> QED
      BY <1>5, <1>6, <1>19, <3>1, <3>2
  <2> QED
    BY <1>16, <1>17, <2>1, <2>2
<1>22. ToSet(n1.keys) \cup ToSet(n2.keys) = ToSet(nodes[c[i]].keys) \cup ToSet(nodes[c[h]].keys)
  BY <1>14, <1>16, <1>17 DEF left, cur
<1>23. Shape(nodes', root, Idle) /\ LeafKeys(nodes') = LeafKeys(nodes)
  <2> DEFINE ms == nodes'
  <2>1. /\ DOMAIN ms = DOMAIN nodes /\ ms[c[i]] = n1 /\ ms[c[i + 1]] = n2
        /\ ms[root] = NewInternal(INVALID_PAGE_ID, [s EXCEPT ![i] = k], c)
        /\ \A p \in DOMAIN nodes \ {c[i], c[i + 1], root} : ms[p] = nodes[p]
    BY <1>6, <1>18 DEF t
  <2>2. /\ Leaf(n1, root, NextIn(c, i)) /\ Leaf(n2, root, NextIn(c, i + 1))
        /\ ToSet(n1.keys) \cup ToSet(n2.keys) = ToSet(nodes[c[i]].keys) \cup ToSet(nodes[c[i + 1]].keys)
    BY <1>6, <1>17, <1>22
  <2> HIDE DEF ms
  <2>3. Lends(nodes, ms, root, c, s, i, k)
    <3>1. h = i + 1
      BY <1>6
    <3> QED
      BY <1>19, <1>20, <1>21, <2>1, <2>2 DEF Lends
  <2>4. Shape(ms, root, Idle) /\ LeafKeys(ms) = LeafKeys(nodes)
    BY ONLY BPlusTreeConstants, <1>2, <1>14, <2>3, i \in 1 .. Len(s), Lent
  <2> QED
    BY <2>4 DEF ms
<1> QED
  BY <1>1, <1>23 DEF TreeInv

LEMMA BorrowFromRightKeeps ==
  ASSUME BPlusTreeConstants, TwoLevels, TreeInv, BorrowFromRight
  PROVE  TreeInv' /\ LeafKeys(nodes') = LeafKeys(nodes)
<1>1. Rebalancing /\ HasRight /\ CanLend(RightPage) /\ task' = Idle
      /\ root' = root /\ header_root' = header_root
  BY DEF BorrowFromRight
<1>2. PICK c, s, i :
        /\ i \in 1 .. Len(c)
        /\ Full(nodes, root, task, c, s) /\ task.page = c[i] /\ Current.parent = root
        /\ Parent = NewInternal(INVALID_PAGE_ID, s, c) /\ Position = i
  BY <1>1, AtFault DEF TreeInv
<1>3. Parent.keys = s /\ Parent.children = c
  BY <1>2 DEF NewInternal
<1>4. /\ DOMAIN nodes = ToSet(c) \cup {root} /\ Leaves(nodes, c, s, root) /\ root \in Page
      /\ root \notin ToSet(c)
  BY <1>2 DEF Full, Inner
<1>5. c \in Seq(Page) /\ s \in Seq(Key) /\ Len(c) = Len(s) + 1 /\ Distinct(c) /\ Increasing(s)
      /\ Len(s) \in Nat
  BY <1>4 DEF Leaves
<1> DEFINE h == i + 1
           cur == nodes[c[i]]
           right == nodes[c[h]]
           x1 == Head(right.keys)
           k == right.keys[2]
           f == Append(cur.keys, x1)
           g == Tail(right.keys)
           n1 == [cur EXCEPT !.keys = f, !.children = <<>>]
           n2 == [right EXCEPT !.keys = g, !.children = <<>>]
           t == [s EXCEPT ![i] = k]
<1>6. i < Len(c)
  BY <1>1, <1>2, <1>3 DEF HasRight
<1>7. /\ i \in 1 .. Len(s) /\ i < h /\ h \in 1 .. Len(c)
  BY <1>2, <1>5, <1>6
<1>8. RightPage = c[h] /\ Current = cur
  BY <1>2, <1>3 DEF RightPage, Current
<1>9. h = i + 1
  OBVIOUS
<1> HIDE DEF h
<1>10. /\ c[h] \in DOMAIN nodes /\ c[h] \in ToSet(c)
       /\ Leaf(right, root, NextIn(c, h)) /\ IsLeaf(right) /\ right.parent = root /\ right.children = <<>>
       /\ right.keys \in Seq(Key) /\ Increasing(right.keys) /\ Len(right.keys) <= LeafMax
       /\ \A x \in ToSet(right.keys) : x \in Key /\ x \in Nat /\ Fits(x, s, h)
  BY <1>4, <1>7, LeafAt
<1>11. /\ c[i] \in DOMAIN nodes /\ c[i] \in ToSet(c)
       /\ Leaf(cur, root, NextIn(c, i)) /\ IsLeaf(cur) /\ cur.parent = root /\ cur.children = <<>>
       /\ cur.keys \in Seq(Key) /\ Increasing(cur.keys) /\ Len(cur.keys) <= LeafMax
       /\ \A x \in ToSet(cur.keys) : x \in Key /\ x \in Nat /\ Fits(x, s, i)
  BY <1>2, <1>4, LeafAt
<1>12. c[i] # c[h] /\ c[i] # root /\ c[h] # root /\ root # INVALID_PAGE_ID
  BY <1>2, <1>4, <1>5, <1>7, <1>10, <1>11 DEF Distinct, INVALID_PAGE_ID, Page
<1>13. Len(right.keys) >= 2 /\ Len(cur.keys) + 1 <= LeafMax
  <2>1. Size(right) > GetMinSize(right) /\ Size(cur) < GetMinSize(cur)
    BY <1>1, <1>8 DEF CanLend, Rebalancing
  <2>2. /\ GetMinSize(right) = LeafMax \div 2 /\ Size(right) = Len(right.keys)
        /\ GetMinSize(right) \in Nat /\ GetMinSize(right) >= 1 /\ GetMinSize(right) + GetMinSize(right) <= LeafMax
    BY <1>10, <1>12, Shortage
  <2>3. GetMinSize(cur) = LeafMax \div 2 /\ Size(cur) = Len(cur.keys)
    BY <1>11, <1>12, Shortage
  <2> HIDE DEF right, cur
  <2>4. Len(right.keys) \in Nat /\ Len(cur.keys) \in Nat /\ LeafMax \in Nat
    BY <1>10, <1>11 DEF BPlusTreeConstants
  <2> QED
    BY <2>1, <2>2, <2>3, <2>4
<1>14. nodes' = SetParent([nodes EXCEPT ![c[h]] = n2, ![c[i]] = n1,
                                       ![root] = NewInternal(INVALID_PAGE_ID, t, c)], {}, c[i])
  <2> DEFINE sep == Parent.keys[Position]
             lent == IF IsLeaf(right) THEN << >> ELSE <<Head(right.children)>>
             received == IF IsLeaf(right) THEN Head(right.keys) ELSE sep
             risen == IF IsLeaf(right) THEN right.keys[2] ELSE Head(right.keys)
             right_rest == [right EXCEPT !.keys = Tail(right.keys),
                              !.children = SubSeq(right.children, Len(lent) + 1, Len(right.children))]
             grown == [cur EXCEPT !.keys = Append(cur.keys, received),
                                  !.children = cur.children \o lent]
             parent == [Parent EXCEPT !.keys[Position] = risen]
  <2>1. nodes' = SetParent([nodes EXCEPT ![c[h]] = right_rest, ![c[i]] = grown, ![root] = parent],
                           ToSet(lent), c[i])
    BY <1>2, <1>8 DEF BorrowFromRight
  <2>2. lent = <<>> /\ received = x1 /\ risen = k
    BY <1>10
  <2>3. ToSet(<<>>) = {}
    BY DEF ToSet
  <2>4. right_rest = n2
    <3>1. SubSeq(right.children, Len(lent) + 1, Len(right.children)) = <<>>
      BY <1>10, <2>2
    <3> QED
      BY <3>1
  <2>5. grown = n1
    <3>1. cur.children \o lent = <<>>
      BY <1>11, <2>2
    <3> QED
      BY <2>2, <3>1
  <2>6. parent = NewInternal(INVALID_PAGE_ID, t, c)
    <3> HIDE DEF k
    <3>1. parent = [Parent EXCEPT !.keys[i] = k]
      BY <1>2, <2>2
    <3>2. [NewInternal(INVALID_PAGE_ID, s, c) EXCEPT !.keys[i] = k] = NewInternal(INVALID_PAGE_ID, t, c)
      BY DEF NewInternal
    <3> QED
      BY <1>2, <3>1, <3>2
  <2> HIDE DEF right_rest, grown, parent, lent
  <2> QED
    BY <2>1, <2>2, <2>3, <2>4, <2>5, <2>6
<1>15. /\ g \in Seq(Key) /\ Increasing(g) /\ Len(g) = Len(right.keys) - 1
       /\ ToSet(right.keys) = ToSet(g) \cup {x1} /\ x1 \in Key
       /\ k \in Key /\ x1 < k /\ k \in ToSet(right.keys)
       /\ \A x \in ToSet(g) : k <= x
  <2> HIDE DEF right
  <2>1. Len(right.keys) > 0 /\ Len(right.keys) > 1
    BY <1>13, <1>10
  <2> QED
    BY <1>10, <2>1, TailIs
<1>16. \A x \in ToSet(cur.keys) : x < x1
  <2>1. x1 \in ToSet(right.keys)
    BY <1>15
  <2> QED
    BY <1>2, <1>4, <1>7, <2>1, LeavesInOrder
<1>17. /\ f \in Seq(Key) /\ Increasing(f) /\ Len(f) = Len(cur.keys) + 1
       /\ ToSet(f) = ToSet(cur.keys) \cup {x1}
  <2> HIDE DEF cur, x1
  <2> QED
    BY <1>11, <1>15, <1>16, LastAdded
<1> HIDE DEF k, x1, f, g
<1>18. Leaf(n1, root, NextIn(c, i)) /\ n1.keys = f /\ Leaf(n2, root, NextIn(c, h)) /\ n2.keys = g
  <2> HIDE DEF right, cur
  <2>1. Len(f) <= LeafMax /\ Len(g) <= LeafMax
    BY <1>10, <1>11, <1>13, <1>15, <1>17 DEF BPlusTreeConstants
  <2> QED
    BY <1>10, <1>11, <1>15, <1>17, <2>1, LeafRewritten
<1> HIDE DEF n1, n2, t
<1>19. /\ DOMAIN nodes' = DOMAIN nodes /\ nodes'[c[i]] = n1 /\ nodes'[c[h]] = n2
       /\ nodes'[root] = NewInternal(INVALID_PAGE_ID, t, c)
       /\ \A p \in DOMAIN nodes \ {c[i], c[h], root} : nodes'[p] = nodes[p]
  BY <1>4, <1>10, <1>11, <1>12, <1>14 DEF SetParent
<1> HIDE DEF right, cur
<1>20. k \in Nat /\ x1 \in Nat /\ \A j \in 1 .. Len(s) : s[j] \in Nat
  BY <1>5, <1>10, <1>15, KeysAreNumbers
<1>21. s[i] <= x1
  <2>1. Fits(x1, s, h)
    BY <1>10, <1>15
  <2>2. h > 1 /\ h - 1 = i
    BY <1>7, <1>9
  <2> QED
    BY <2>1, <2>2 DEF Fits
<1>22. i > 1 => s[i - 1] < s[i]
  <2> SUFFICES ASSUME i > 1 PROVE s[i - 1] < s[i]
    OBVIOUS
  <2>1. i - 1 \in 1 .. Len(s) /\ i - 1 < i /\ i \in 1 .. Len(s)
    BY <1>7
  <2> QED
    BY <1>5, <2>1 DEF Increasing
<1>23. /\ i > 1 => s[i - 1] < k
       /\ i < Len(s) => k < s[i + 1]
  <2>1. ASSUME i > 1 PROVE s[i - 1] < k
    <3>1. s[i - 1] < s[i] /\ s[i - 1] \in Nat /\ s[i] \in Nat
      BY <1>7, <1>20, <1>22, <2>1
    <3> QED
      BY <1>15, <1>20, <1>21, <3>1
  <2>2. ASSUME i < Len(s) PROVE k < s[i + 1]
    <3>1. h <= Len(s)
      BY <1>5, <1>7, <1>9, <2>2
    <3>2. Fits(k, s, h)
      BY <1>10, <1>15
    <3> QED
      BY <1>9, <3>1, <3>2 DEF Fits
  <2> QED
    BY <2>1, <2>2
<1>24. \A x \in ToSet(n1.keys) : x < k /\ (i > 1 => s[i - 1] <= x)
  <2> SUFFICES ASSUME NEW x \in ToSet(n1.keys)
               PROVE  x < k /\ (i > 1 => s[i - 1] <= x)
    OBVIOUS
  <2>1. CASE x = x1
    <3>1. ASSUME i > 1 PROVE s[i - 1] <= x1
      <4>1. s[i - 1] < s[i] /\ s[i - 1] \in Nat /\ s[i] \in Nat
        BY <1>7, <1>20, <1>22, <3>1
      <4> QED
        BY <1>20, <1>21, <4>1
    <3> QED
      BY <1>15, <2>1, <3>1
  <2>2. CASE x \in ToSet(cur.keys)
    <3>1. x < x1 /\ x \in Nat /\ Fits(x, s, i)
      BY <1>11, <1>16, <2>2
    <3> QED
      BY <1>15, <1>20, <3>1 DEF Fits
  <2> QED
    BY <1>17, <1>18, <2>1, <2>2
<1>25. \A x \in ToSet(n2.keys) : k <= x /\ (i < Len(s) => x < s[i + 1])
  <2> SUFFICES ASSUME NEW x \in ToSet(n2.keys)
               PROVE  k <= x /\ (i < Len(s) => x < s[i + 1])
    OBVIOUS
  <2>1. x \in ToSet(g) /\ k <= x /\ Fits(x, s, h)
    BY <1>10, <1>15, <1>18
  <2>2. h <= Len(s) => x < s[h]
    BY <2>1 DEF Fits
  <2> QED
    BY <1>5, <1>7, <1>9, <2>1, <2>2
<1>26. ToSet(n1.keys) \cup ToSet(n2.keys) = ToSet(nodes[c[i]].keys) \cup ToSet(nodes[c[h]].keys)
  BY <1>15, <1>17, <1>18 DEF right, cur
<1>27. Shape(nodes', root, Idle) /\ LeafKeys(nodes') = LeafKeys(nodes)
  <2> DEFINE ms == nodes'
  <2>1. /\ DOMAIN ms = DOMAIN nodes /\ ms[c[i]] = n1 /\ ms[c[i + 1]] = n2
        /\ ms[root] = NewInternal(INVALID_PAGE_ID, [s EXCEPT ![i] = k], c)
        /\ \A p \in DOMAIN nodes \ {c[i], c[i + 1], root} : ms[p] = nodes[p]
    BY <1>9, <1>19 DEF t
  <2>2. /\ Leaf(n1, root, NextIn(c, i)) /\ Leaf(n2, root, NextIn(c, i + 1))
        /\ ToSet(n1.keys) \cup ToSet(n2.keys) = ToSet(nodes[c[i]].keys) \cup ToSet(nodes[c[i + 1]].keys)
    BY <1>9, <1>18, <1>26
  <2> HIDE DEF ms
  <2>3. Lends(nodes, ms, root, c, s, i, k)
    BY <1>23, <1>24, <1>25, <2>1, <2>2 DEF Lends
  <2>4. Shape(ms, root, Idle) /\ LeafKeys(ms) = LeafKeys(nodes)
    BY ONLY BPlusTreeConstants, <1>2, <1>7, <1>15, <2>3, Lent
  <2> QED
    BY <2>4 DEF ms
<1> QED
  BY <1>1, <1>27 DEF TreeInv

(* A leaf goes into the one before it. *)
Joins(ns, ms, r, c, s, i) ==
  /\ DOMAIN ms = DOMAIN ns \ {c[i + 1]}
  /\ ms[r] = NewInternal(INVALID_PAGE_ID, RemoveAt(s, i), RemoveAt(c, i + 1))
  /\ \A p \in DOMAIN ms \ {c[i], r} : ms[p] = ns[p]
  /\ Leaf(ms[c[i]], r, NextIn(c, i + 1))
  /\ ToSet(ms[c[i]].keys) = ToSet(ns[c[i]].keys) \cup ToSet(ns[c[i + 1]].keys)

LEMMA Joined ==
  ASSUME BPlusTreeConstants, NEW c, NEW s, Full(nodes, root, task, c, s),
         NEW i \in 1 .. Len(s), NEW ms, Joins(nodes, ms, root, c, s, i)
  PROVE  Shape(ms, root, RebalanceTask(root)) /\ LeafKeys(ms) = LeafKeys(nodes)
<1> DEFINE h == i + 1
           d == RemoveAt(c, h)
           t == RemoveAt(s, i)
<1>1. /\ DOMAIN nodes = ToSet(c) \cup {root} /\ Leaves(nodes, c, s, root)
      /\ root \in (DOMAIN nodes) \cap Page /\ root \notin ToSet(c) /\ Len(s) <= InternalMax
      /\ nodes[root] = NewInternal(INVALID_PAGE_ID, s, c)
  BY DEF Full, Inner
<1>2. c \in Seq(Page) /\ s \in Seq(Key) /\ Len(c) = Len(s) + 1 /\ Distinct(c)
  BY <1>1 DEF Leaves
<1>3. i \in 1 .. Len(c) /\ h \in 1 .. Len(c) /\ i # h /\ i \in 1 .. Len(c) - 1
  BY <1>2
<1>4. \A j \in 1 .. Len(c) : c[j] \in DOMAIN nodes /\ c[j] \in ToSet(c) /\ c[j] # root
  BY <1>1, <1>2, Members
<1>5. /\ DOMAIN ms = DOMAIN nodes \ {c[h]}
      /\ ms[root] = NewInternal(INVALID_PAGE_ID, t, d)
      /\ \A p \in DOMAIN ms \ {c[i], root} : ms[p] = nodes[p]
      /\ Leaf(ms[c[i]], root, NextIn(c, h))
      /\ ToSet(ms[c[i]].keys) = ToSet(nodes[c[i]].keys) \cup ToSet(nodes[c[h]].keys)
  BY DEF Joins
<1>6. h = i + 1
  OBVIOUS
<1> HIDE DEF h
<1>7. \A j \in 1 .. Len(c) : j # h => c[j] # c[h] /\ c[j] \in DOMAIN ms
  BY <1>2, <1>3, <1>4, <1>5 DEF Distinct
<1>8. \A j \in 1 .. Len(c) : j \notin {i, h} => ms[c[j]] = nodes[c[j]]
  <2> SUFFICES ASSUME NEW j \in 1 .. Len(c), j \notin {i, h} PROVE ms[c[j]] = nodes[c[j]]
    OBVIOUS
  <2>1. c[j] # c[i] /\ c[j] # root /\ c[j] \in DOMAIN ms
    BY <1>2, <1>3, <1>4, <1>7 DEF Distinct
  <2> QED
    BY <2>1, <1>5
<1>9. Leaves(ms, d, t, root)
  <2>1. \A j \in 1 .. Len(c) : j # i + 1 => c[j] \in DOMAIN ms
    BY <1>6, <1>7
  <2>2. \A j \in 1 .. Len(c) : j \notin {i, i + 1} => ms[c[j]] = nodes[c[j]]
    BY <1>6, <1>8
  <2>3. Leaf(ms[c[i]], root, NextIn(c, i + 1))
    BY <1>5, <1>6
  <2>4. /\ \A x \in ToSet(nodes[c[i]].keys) : x \in Nat /\ Fits(x, s, i)
        /\ \A x \in ToSet(nodes[c[h]].keys) : x \in Nat /\ Fits(x, s, h)
    BY <1>1, <1>3, LeafAt
  <2>5. \A x \in ToSet(ms[c[i]].keys) : x \in Nat /\ (Fits(x, s, i) \/ Fits(x, s, i + 1))
    BY <1>5, <1>6, <2>4
  <2>6. Leaves(ms, RemoveAt(c, i + 1), RemoveAt(s, i), root)
    <3>1. Leaves(nodes, c, s, root) /\ i \in 1 .. Len(c) - 1
      BY <1>1, <1>3
    <3> QED
      BY ONLY BPlusTreeConstants, <3>1, <2>1, <2>2, <2>3, <2>5, LeavesMerged
  <2> QED
    BY <1>6, <2>6
<1>10. d \in Seq(Page) /\ ToSet(d) = ToSet(c) \ {c[h]}
  BY <1>2, <1>3, RemoveAtIs
<1>11. Len(t) = Len(s) - 1
  BY <1>2, RemoveAtIs
<1> HIDE DEF d, t
<1>12. Full(ms, root, RebalanceTask(root), d, t)
  <2>1. root \in DOMAIN ms /\ root # c[h]
    BY <1>1, <1>3, <1>4, <1>5
  <2>2. Inner(ms, root, d, t)
    BY <1>1, <1>5, <1>10, <2>1 DEF Inner
  <2>3. Len(t) <= InternalMax
    BY <1>1, <1>2, <1>11 DEF BPlusTreeConstants
  <2>4. DOMAIN ms = ToSet(d) \cup {root}
    BY <1>1, <1>5, <1>10, <2>1
  <2> QED
    BY <1>9, <2>1, <2>2, <2>3, <2>4 DEF Full
<1>13. Shape(ms, root, RebalanceTask(root))
  BY <1>12 DEF Shape
<1> DEFINE P == {c[i], c[h]}
<1>14. IsLeaf(nodes[c[i]]) /\ IsLeaf(nodes[c[h]]) /\ IsLeaf(ms[c[i]])
  <2>1. IsLeaf(nodes[c[i]]) /\ IsLeaf(nodes[c[h]])
    BY <1>1, <1>3, LeafAt
  <2>2. ASSUME NEW n, NEW z, Leaf(n, root, z) PROVE IsLeaf(n)
    BY <2>2 DEF Leaf, NewLeaf, IsLeaf
  <2> QED
    BY <1>5, <2>1, <2>2
<1>15. KeysIn(nodes, P) = ToSet(nodes[c[i]].keys) \cup ToSet(nodes[c[h]].keys)
  <2>1. {p \in P \cap DOMAIN nodes : IsLeaf(nodes[p])} = P
    BY <1>3, <1>4, <1>14
  <2>2. \A x : x \in KeysIn(nodes, P) <=> x \in ToSet(nodes[c[i]].keys) \/ x \in ToSet(nodes[c[h]].keys)
    BY <2>1 DEF KeysIn
  <2> QED
    BY <2>2
<1>16. KeysIn(ms, P) = ToSet(ms[c[i]].keys)
  <2>1. P \cap DOMAIN ms = {c[i]}
    BY <1>3, <1>5, <1>7
  <2>2. {p \in P \cap DOMAIN ms : IsLeaf(ms[p])} = {c[i]}
    BY <2>1, <1>14
  <2> HIDE DEF P
  <2>3. \A x : x \in KeysIn(ms, P) <=> x \in ToSet(ms[c[i]].keys)
    BY <2>2 DEF KeysIn
  <2> QED
    BY <2>3
<1>17. \E O : /\ LeafKeys(nodes) = O \cup KeysIn(nodes, P)
              /\ LeafKeys(ms) = O \cup KeysIn(ms, P)
              /\ O = KeysIn(nodes, DOMAIN nodes \ P)
  <2>1. ~ IsLeaf(nodes[root]) /\ ~ IsLeaf(ms[root])
    BY <1>1, <1>5 DEF NewInternal, IsLeaf
  <2>2. \A p : p \notin P => (p \in DOMAIN nodes <=> p \in DOMAIN ms)
    BY <1>5
  <2>3. \A p \in DOMAIN nodes \ P : /\ IsLeaf(nodes[p]) <=> IsLeaf(ms[p])
                                    /\ IsLeaf(nodes[p]) => nodes[p].keys = ms[p].keys
    BY <1>5, <2>1, <2>2
  <2> HIDE DEF P
  <2> QED
    BY ONLY <2>2, <2>3, KeysElsewhere
<1>18. LeafKeys(ms) = LeafKeys(nodes)
  <2> HIDE DEF P
  <2> QED
    BY <1>5, <1>15, <1>16, <1>17
<1> QED
  BY <1>13, <1>18

LEMMA MergeKeeps ==
  ASSUME BPlusTreeConstants, TwoLevels, TreeInv, NEW c, NEW s, Full(nodes, root, task, c, s),
         Current.parent = root, Parent = NewInternal(INVALID_PAGE_ID, s, c),
         NEW i \in 1 .. Len(s), NEW h, h = i + 1,
         Size(nodes[c[i]]) + Size(nodes[c[h]]) <= LeafMax,
         MergeInto(c[i], c[h], h), root' = root, header_root' = header_root
  PROVE  TreeInv' /\ LeafKeys(nodes') = LeafKeys(nodes)
<1>1. /\ DOMAIN nodes = ToSet(c) \cup {root} /\ Leaves(nodes, c, s, root)
      /\ root \in (DOMAIN nodes) \cap Page /\ root \notin ToSet(c)
      /\ nodes[root] = NewInternal(INVALID_PAGE_ID, s, c)
  BY DEF Full, Inner
<1>2. c \in Seq(Page) /\ s \in Seq(Key) /\ Len(c) = Len(s) + 1 /\ Distinct(c)
  BY <1>1 DEF Leaves
<1>3. i \in 1 .. Len(c) /\ h \in 1 .. Len(c) /\ i < h /\ h - 1 = i
  BY <1>2
<1> DEFINE dst == nodes[c[i]]
           src == nodes[c[h]]
           q == dst.keys \o src.keys
           n == [dst EXCEPT !.keys = q, !.next = src.next]
           d == RemoveAt(c, h)
           t == RemoveAt(s, i)
<1>4. /\ c[i] \in DOMAIN nodes /\ c[i] \in ToSet(c)
      /\ Leaf(dst, root, NextIn(c, i)) /\ IsLeaf(dst)
      /\ dst.keys \in Seq(Key) /\ Increasing(dst.keys) /\ dst.children = <<>>
  BY <1>1, <1>3, LeafAt
<1>5. /\ c[h] \in DOMAIN nodes /\ c[h] \in ToSet(c)
      /\ src.keys \in Seq(Key) /\ Increasing(src.keys) /\ src.next = NextIn(c, h)
      /\ Leaf(src, root, NextIn(c, h))
  BY <1>1, <1>3, LeafAt
<1>6. c[i] # c[h] /\ c[i] # root /\ c[h] # root
  BY <1>1, <1>2, <1>3, <1>4, <1>5 DEF Distinct
<1>7. /\ q \in Seq(Key) /\ Increasing(q) /\ Len(q) <= LeafMax
      /\ ToSet(q) = ToSet(dst.keys) \cup ToSet(src.keys)
  <2>1. \A x \in ToSet(dst.keys), y \in ToSet(src.keys) : x < y
    BY <1>1, <1>3, LeavesInOrder
  <2> DEFINE a == dst.keys
             b == src.keys
  <2>2. a \in Seq(Key) /\ b \in Seq(Key) /\ Increasing(a) /\ Increasing(b)
        /\ Len(a) + Len(b) <= LeafMax
    BY <1>4, <1>5 DEF Size
  <2>3. \A x \in ToSet(a), y \in ToSet(b) : x < y
    BY <2>1
  <2> HIDE DEF a, b
  <2>4. Increasing(a \o b)
    BY <2>2, <2>3, ConcatIncreasing
  <2>5. ToSet(a \o b) = ToSet(a) \cup ToSet(b)
    BY ONLY <2>2, ConcatIs
  <2>6. a \o b \in Seq(Key) /\ Len(a \o b) = Len(a) + Len(b)
    BY <2>2
  <2> QED
    BY <2>2, <2>4, <2>5, <2>6 DEF a, b
<1>8. Merged(dst, src, Parent.keys[h - 1]) = n
  <2> HIDE DEF dst, src
  <2>1. Size(dst) + Size(src) <= LeafMax
    BY DEF dst, src
  <2>2. Size(dst) \in Nat /\ Size(src) \in Nat /\ LeafMax \in Nat
    BY <1>4, <1>5 DEF Size, BPlusTreeConstants
  <2>3. ~ (Size(dst) + Size(src) > LeafMax)
    BY <2>1, <2>2
  <2> QED
    BY <1>4, <2>3 DEF Merged
<1>9. RemoveChildAt(Parent, h) = NewInternal(INVALID_PAGE_ID, t, d)
  <2>1. Parent.keys = s /\ Parent.children = c
    BY DEF NewInternal
  <2>2. RemoveChildAt(Parent, h) = [Parent EXCEPT !.keys = t, !.children = d]
    <3> DEFINE p == Parent
    <3>1. p.keys = s /\ p.children = c
      BY <2>1
    <3> HIDE DEF p
    <3>2. RemoveChildAt(p, h) = [p EXCEPT !.keys = RemoveAt(p.keys, h - 1), !.children = RemoveAt(p.children, h)]
      BY DEF RemoveChildAt
    <3>3. RemoveChildAt(p, h) = [p EXCEPT !.keys = t, !.children = d]
      BY <1>3, <3>1, <3>2
    <3> QED
      BY <3>3 DEF p
  <2> HIDE DEF t, d
  <2>3. [NewInternal(INVALID_PAGE_ID, s, c) EXCEPT !.keys = t] = NewInternal(INVALID_PAGE_ID, t, c)
    BY DEF NewInternal
  <2>4. [NewInternal(INVALID_PAGE_ID, t, c) EXCEPT !.children = d] = NewInternal(INVALID_PAGE_ID, t, d)
    BY DEF NewInternal
  <2>5. [Parent EXCEPT !.keys = t, !.children = d] = [[Parent EXCEPT !.keys = t] EXCEPT !.children = d]
    OBVIOUS
  <2> QED
    BY <2>2, <2>3, <2>4, <2>5
<1>10. Leaf(n, root, NextIn(c, h)) /\ n.keys = q /\ n.children = <<>>
  <2> DEFINE m == [dst EXCEPT !.keys = q]
  <2> HIDE DEF q
  <2>1. Leaf(m, root, NextIn(c, i)) /\ m.keys = q
    BY <1>4, <1>7, LeafRekeyed
  <2>2. n = [m EXCEPT !.next = src.next]
    OBVIOUS
  <2> HIDE DEF m, n
  <2>3. m \in Node /\ m = NewLeaf(root, q, NextIn(c, i))
    BY <2>1 DEF Leaf
  <2>4. src.next \in PageId
    BY <1>5 DEF Leaf, Node
  <2>5. n = NewLeaf(root, q, NextIn(c, h)) /\ n \in Node
    <3>1. n = [m EXCEPT !.next = NextIn(c, h)] /\ NextIn(c, h) \in PageId
      BY <1>5, <2>2, <2>4
    <3>2. n \in Node
      BY <2>3, <3>1 DEF Node
    <3>3. [NewLeaf(root, q, NextIn(c, i)) EXCEPT !.next = NextIn(c, h)] = NewLeaf(root, q, NextIn(c, h))
      BY DEF NewLeaf
    <3> QED
      BY <2>3, <3>1, <3>2, <3>3
  <2>6. n.keys = q /\ n.children = <<>>
    BY <2>5 DEF NewLeaf
  <2> QED
    BY <1>7, <2>5, <2>6 DEF Leaf
<1> HIDE DEF q, n, d, t
<1> DEFINE j == [nodes EXCEPT ![c[i]] = n, ![root] = NewInternal(INVALID_PAGE_ID, t, d)]
<1>11. nodes' = Without(SetParent(j, {}, c[i]), c[h]) /\ task' = RebalanceTask(root)
  <2>1. ToSet(<<>>) = {}
    BY DEF ToSet
  <2> DEFINE merged == Merged(nodes[c[i]], nodes[c[h]], Parent.keys[h - 1])
             joined == SetParent([nodes EXCEPT ![c[i]] = merged,
                                        ![Current.parent] = RemoveChildAt(Parent, h)],
                          ToSet(merged.children), c[i])
  <2>2. PICK deleted \in Deletions :
          /\ nodes' = Deleted(joined, c[h], deleted)
          /\ task' = IF deleted THEN RebalanceTask(Current.parent) ELSE Idle
    BY DEF MergeInto
  <2>3. merged = n
    BY <1>8
  <2> HIDE DEF merged
  <2>4. joined = SetParent(j, {}, c[i])
    BY <1>9, <1>10, <2>1, <2>3
  <2> HIDE DEF joined, j
  <2>5. deleted = TRUE
    BY Headers
  <2> QED
    BY <2>2, <2>4, <2>5 DEF Deleted
<1>12. Joins(nodes, nodes', root, c, s, i)
  <2> HIDE DEF dst, src
  <2>1. /\ DOMAIN nodes' = DOMAIN nodes \ {c[h]} /\ nodes'[c[i]] = n
        /\ nodes'[root] = NewInternal(INVALID_PAGE_ID, t, d)
        /\ \A p \in DOMAIN nodes' \ {c[i], root} : nodes'[p] = nodes[p]
    BY <1>1, <1>4, <1>5, <1>6, <1>11 DEF Without, SetParent
  <2>2. Leaf(n, root, NextIn(c, h))
        /\ ToSet(n.keys) = ToSet(nodes[c[i]].keys) \cup ToSet(nodes[c[h]].keys)
    BY <1>7, <1>10 DEF dst, src
  <2> HIDE DEF j
  <2> QED
    BY <2>1, <2>2 DEF Joins, t, d
<1>13. Shape(nodes', root, RebalanceTask(root)) /\ LeafKeys(nodes') = LeafKeys(nodes)
  <2> DEFINE ms == nodes'
  <2>1. Joins(nodes, ms, root, c, s, i)
    BY <1>12
  <2> HIDE DEF ms
  <2>2. Shape(ms, root, RebalanceTask(root)) /\ LeafKeys(ms) = LeafKeys(nodes)
    BY <2>1, Joined
  <2> QED
    BY <2>2 DEF ms
<1> QED
  BY <1>11, <1>13 DEF TreeInv

LEMMA MergeLeftKeeps ==
  ASSUME BPlusTreeConstants, TwoLevels, TreeInv, MergeLeft
  PROVE  TreeInv' /\ LeafKeys(nodes') = LeafKeys(nodes)
<1>1. Rebalancing /\ HasLeft /\ ~ CanLend(LeftPage) /\ LeftPage # task.page
      /\ MergeInto(LeftPage, task.page, Position) /\ root' = root /\ header_root' = header_root
  BY DEF MergeLeft
<1>2. PICK c, s, h :
        /\ h \in 1 .. Len(c)
        /\ Full(nodes, root, task, c, s) /\ task.page = c[h] /\ Current.parent = root
        /\ Parent = NewInternal(INVALID_PAGE_ID, s, c) /\ Position = h
  BY <1>1, AtFault DEF TreeInv
<1>3. Parent.keys = s /\ Parent.children = c
  BY <1>2 DEF NewInternal
<1>4. Leaves(nodes, c, s, root) /\ root # INVALID_PAGE_ID
  BY <1>2 DEF Full, Inner, INVALID_PAGE_ID, Page
<1>5. Len(c) = Len(s) + 1 /\ s \in Seq(Key)
  BY <1>4 DEF Leaves
<1>6. PICK i \in 1 .. Len(s) : h = i + 1 /\ i = h - 1
  <2>1. h > 1
    BY <1>1, <1>2 DEF HasLeft
  <2>2. h - 1 \in 1 .. Len(s) /\ h = (h - 1) + 1
    BY <1>2, <1>5, <2>1
  <2> QED
    BY <2>2
<1>7. LeftPage = c[i] /\ Current = nodes[c[h]] /\ i \in 1 .. Len(c)
  BY <1>2, <1>3, <1>5, <1>6 DEF LeftPage, Current
<1>8. Size(nodes[c[i]]) + Size(nodes[c[h]]) <= LeafMax
  <2> DEFINE left == nodes[c[i]]
             cur == nodes[c[h]]
  <2>1. /\ IsLeaf(left) /\ left.parent = root /\ left.keys \in Seq(Key) /\ left.type = "LEAF"
    BY <1>4, <1>7, LeafAt
  <2>2. /\ IsLeaf(cur) /\ cur.parent = root /\ cur.keys \in Seq(Key) /\ cur.type = "LEAF"
    BY <1>2, <1>4, LeafAt
  <2>3. ~ (Size(left) > GetMinSize(left)) /\ Size(cur) < GetMinSize(cur)
    BY <1>1, <1>7, <2>1, <2>2 DEF CanLend, Rebalancing
  <2>4. /\ GetMinSize(left) = LeafMax \div 2 /\ Size(left) = Len(left.keys)
        /\ GetMinSize(left) \in Nat /\ GetMinSize(left) >= 1 /\ GetMinSize(left) + GetMinSize(left) <= LeafMax
    BY <1>4, <2>1, Shortage
  <2>5. GetMinSize(cur) = LeafMax \div 2 /\ Size(cur) = Len(cur.keys)
    BY <1>4, <2>2, Shortage
  <2> HIDE DEF left, cur
  <2>6. Size(left) \in Nat /\ Size(cur) \in Nat /\ LeafMax \in Nat
    BY <2>1, <2>2, <2>4, <2>5 DEF BPlusTreeConstants
  <2>7. Size(left) + Size(cur) <= LeafMax
    <3>1. GetMinSize(cur) = GetMinSize(left)
      BY <2>4, <2>5
    <3>2. GetMinSize(left) \in Nat /\ GetMinSize(left) + GetMinSize(left) <= LeafMax
      BY <2>4
    <3> DEFINE m == GetMinSize(left)
    <3>3. m \in Nat /\ m + m <= LeafMax /\ ~ (Size(left) > m) /\ Size(cur) < m
      BY <2>3, <3>1, <3>2
    <3> HIDE DEF m
    <3> QED
      BY ONLY <2>6, <3>3
  <2> QED
    BY <2>7 DEF left, cur
<1>9. MergeInto(c[i], c[h], h)
  BY <1>1, <1>2, <1>7
<1> QED
  BY <1>1, <1>2, <1>6, <1>8, <1>9, MergeKeeps

LEMMA MergeRightKeeps ==
  ASSUME BPlusTreeConstants, TwoLevels, TreeInv, MergeRight
  PROVE  TreeInv' /\ LeafKeys(nodes') = LeafKeys(nodes)
<1>1. Rebalancing /\ HasRight /\ ~ CanLend(RightPage) /\ RightPage # task.page
      /\ MergeInto(task.page, RightPage, Position + 1) /\ root' = root /\ header_root' = header_root
  BY DEF MergeRight
<1>2. PICK c, s, i :
        /\ i \in 1 .. Len(c)
        /\ Full(nodes, root, task, c, s) /\ task.page = c[i] /\ Current.parent = root
        /\ Parent = NewInternal(INVALID_PAGE_ID, s, c) /\ Position = i
  BY <1>1, AtFault DEF TreeInv
<1>3. Parent.keys = s /\ Parent.children = c
  BY <1>2 DEF NewInternal
<1>4. Leaves(nodes, c, s, root) /\ root # INVALID_PAGE_ID
  BY <1>2 DEF Full, Inner, INVALID_PAGE_ID, Page
<1>5. Len(c) = Len(s) + 1 /\ s \in Seq(Key)
  BY <1>4 DEF Leaves
<1> DEFINE h == i + 1
<1>6. i \in 1 .. Len(s) /\ h \in 1 .. Len(c) /\ h = i + 1
  <2>1. i < Len(c)
    BY <1>1, <1>2, <1>3 DEF HasRight
  <2> QED
    BY <1>2, <1>5, <2>1
<1>7. RightPage = c[h] /\ Current = nodes[c[i]] /\ Position + 1 = h
  BY <1>2, <1>3 DEF RightPage, Current
<1> HIDE DEF h
<1>8. Size(nodes[c[i]]) + Size(nodes[c[h]]) <= LeafMax
  <2> DEFINE right == nodes[c[h]]
             cur == nodes[c[i]]
  <2>1. /\ IsLeaf(right) /\ right.parent = root /\ right.keys \in Seq(Key) /\ right.type = "LEAF"
    BY <1>4, <1>6, LeafAt
  <2>2. /\ IsLeaf(cur) /\ cur.parent = root /\ cur.keys \in Seq(Key) /\ cur.type = "LEAF"
    BY <1>2, <1>4, LeafAt
  <2>3. ~ (Size(right) > GetMinSize(right)) /\ Size(cur) < GetMinSize(cur)
    BY <1>1, <1>7, <2>1, <2>2 DEF CanLend, Rebalancing
  <2>4. /\ GetMinSize(right) = LeafMax \div 2 /\ Size(right) = Len(right.keys)
        /\ GetMinSize(right) \in Nat /\ GetMinSize(right) >= 1 /\ GetMinSize(right) + GetMinSize(right) <= LeafMax
    BY <1>4, <2>1, Shortage
  <2>5. GetMinSize(cur) = LeafMax \div 2 /\ Size(cur) = Len(cur.keys)
    BY <1>4, <2>2, Shortage
  <2> HIDE DEF right, cur
  <2>6. Size(right) \in Nat /\ Size(cur) \in Nat /\ LeafMax \in Nat
    BY <2>1, <2>2, <2>4, <2>5 DEF BPlusTreeConstants
  <2>7. Size(cur) + Size(right) <= LeafMax
    <3>1. GetMinSize(cur) = GetMinSize(right)
      BY <2>4, <2>5
    <3>2. GetMinSize(right) \in Nat /\ GetMinSize(right) + GetMinSize(right) <= LeafMax
      BY <2>4
    <3> DEFINE m == GetMinSize(right)
    <3>3. m \in Nat /\ m + m <= LeafMax /\ ~ (Size(right) > m) /\ Size(cur) < m
      BY <2>3, <3>1, <3>2
    <3> HIDE DEF m
    <3> QED
      BY ONLY <2>6, <3>3
  <2> QED
    BY <2>7 DEF right, cur
<1>9. MergeInto(c[i], c[h], h)
  BY <1>1, <1>2, <1>7
<1> QED
  BY <1>1, <1>2, <1>6, <1>8, <1>9, MergeKeeps

(* Every step keeps the shape, and adds a key, takes one out, or leaves    *)
(* the keys alone.                                                         *)
LEMMA StepKeeps ==
  ASSUME BPlusTreeConstants, TwoLevels, TreeInv, [Next]_vars
  PROVE  /\ TreeInv'
         /\ \/ LeafKeys(nodes') = LeafKeys(nodes)
            \/ \E k \in Key : k \notin LeafKeys(nodes) /\ LeafKeys(nodes') = LeafKeys(nodes) \cup {k}
            \/ \E k \in Key : k \in LeafKeys(nodes) /\ LeafKeys(nodes') = LeafKeys(nodes) \ {k}
<1>1. CASE \E k \in Key : StartNewTree(k) \/ InsertIntoLeaf(k) \/ SplitLeaf(k)
  BY <1>1, StartNewTreeKeeps, InsertIntoLeafKeeps, SplitLeafKeeps
<1>2. CASE \E k \in Key : RemoveFromRoot(k) \/ RemoveFromLeaf(k)
  BY <1>2, RemoveFromRootKeeps, RemoveFromLeafKeeps
<1>3. CASE GrowRoot
  BY <1>3, GrowRootKeeps
<1>4. CASE InsertIntoParent
  BY <1>4, InsertIntoParentKeeps
<1>5. CASE SplitInternal
  BY <1>5, SplitInternalNever
<1>6. CASE AdjustRootAfterDelete
  BY <1>6, AdjustRootKeeps
<1>7. CASE StopRebalancing
  BY <1>7, StopRebalancingKeeps
<1>8. CASE BorrowFromLeft
  BY <1>8, BorrowFromLeftKeeps
<1>9. CASE BorrowFromRight
  BY <1>9, BorrowFromRightKeeps
<1>10. CASE MergeLeft
  BY <1>10, MergeLeftKeeps
<1>11. CASE MergeRight
  BY <1>11, MergeRightKeeps
<1>12. CASE StepFails
  BY <1>12, StepFailsKeeps
<1>13. CASE Reopen
  BY <1>13, ReopenKeeps
<1>14. CASE UNCHANGED vars
  BY <1>14 DEF vars, TreeInv
<1> QED
  BY <1>1, <1>2, <1>3, <1>4, <1>5, <1>6, <1>7, <1>8, <1>9, <1>10, <1>11, <1>12, <1>13, <1>14 DEF Next

LEMMA InitShape == ASSUME Init PROVE TreeInv
<1>1. DOMAIN nodes = {} /\ root = INVALID_PAGE_ID /\ task = Idle /\ header_root = root
  BY DEF Init
<1> QED
  BY <1>1 DEF TreeInv, Shape, Empty

(* A tree of at most two levels is, between any two steps of its           *)
(* operations, empty, one leaf, two leaves that wait for their root, or a  *)
(* root over leaves, one of which may wait for its entry in the root or to *)
(* be rebalanced: whatever is inserted, removed, borrowed, merged or given *)
(* up half way.                                                            *)
THEOREM TreeKeepsItsShape == TwoLevels => (Spec => []TreeInv)
<1> SUFFICES ASSUME TwoLevels PROVE Spec => []TreeInv
  OBVIOUS
<1>1. Init => TreeInv
  BY InitShape
<1>2. TreeInv /\ [Next]_vars => TreeInv'
  BY BPlusTreeConstants, StepKeeps
<1> QED
  BY <1>1, <1>2, PTL DEF Spec

(* Separators, parent links, the chain of leaves and the header page       *)
(* describe one tree of sorted pages, none of them leaked, after every     *)
(* step.                                                                   *)
THEOREM TreesAreSound == TwoLevels => (Spec => []TreeIsSound)
<1> SUFFICES ASSUME TwoLevels PROVE Spec => []TreeIsSound
  OBVIOUS
<1>1. TreeInv => TreeIsSound
  BY BPlusTreeConstants, TreeSound DEF TreeInv
<1>2. Spec => []TreeInv
  BY TreeKeepsItsShape
<1> QED
  BY <1>1, <1>2, PTL

(* GetValue finds every key whose entry is in a leaf, also before the      *)
(* parent knows the leaf that has it.                                      *)
THEOREM KeysAreFound == TwoLevels => (Spec => []LookupFindsEveryKey)
<1> SUFFICES ASSUME TwoLevels PROVE Spec => []LookupFindsEveryKey
  OBVIOUS
<1>1. TreeInv => LookupFindsEveryKey
  BY BPlusTreeConstants, LookupIsSound DEF TreeInv
<1>2. Spec => []TreeInv
  BY TreeKeepsItsShape
<1> QED
  BY <1>1, <1>2, PTL

(* Insert refuses a key that is in the tree: between two operations no two *)
(* leaves hold the same one.                                               *)
THEOREM KeysAreThereOnce == TwoLevels => (Spec => []KeysAreUnique)
<1> SUFFICES ASSUME TwoLevels PROVE Spec => []KeysAreUnique
  OBVIOUS
<1>1. TreeInv => KeysAreUnique
  BY BPlusTreeConstants, NoKeyTwice
<1>2. Spec => []TreeInv
  BY TreeKeepsItsShape
<1> QED
  BY <1>1, <1>2, PTL

(* Begin() and Begin(key) and the chain behind them yield the keys of the  *)
(* leaves, each once and in order.                                         *)
THEOREM KeysComeInOrder == TwoLevels => (Spec => []ScanYieldsKeysInOrder)
<1> SUFFICES ASSUME TwoLevels PROVE Spec => []ScanYieldsKeysInOrder
  OBVIOUS
<1>1. TreeInv => ScanYieldsKeysInOrder
  BY BPlusTreeConstants, ScanIsSound DEF TreeInv
<1>2. Spec => []TreeInv
  BY TreeKeepsItsShape
<1> QED
  BY <1>1, <1>2, PTL

(* An insertion adds its key at one step and a removal takes its key out   *)
(* at one; splitting, borrowing and merging change no key: the tree is the *)
(* set of keys that Index promises.                                        *)
THEOREM TreeIsAnIndex == TwoLevels => (Spec => ImplementsIndex)
<1> SUFFICES ASSUME TwoLevels PROVE Spec => ImplementsIndex
  OBVIOUS
<1> DEFINE Says == ToSet(Scan) = LeafKeys(nodes)
<1>1. Spec => []TreeInv
  BY TreeKeepsItsShape
<1>2. TreeInv => Says
  BY BPlusTreeConstants, ScanIs DEF TreeInv
<1>3. Init => Abstract!Init
  <2> SUFFICES ASSUME Init PROVE ToSet(Scan) = {}
    BY DEF Abstract!Init
  <2>1. DOMAIN nodes = {}
    BY DEF Init
  <2>2. LeafKeys(nodes) = {}
    BY <2>1 DEF LeafKeys
  <2>3. Says
    BY <1>2, InitShape
  <2> QED
    BY <2>2, <2>3
<1>4. TreeInv /\ Says /\ Says' /\ [Next]_vars => [Abstract!Next]_(ToSet(Scan))
  <2> SUFFICES ASSUME TreeInv, Says, Says', [Next]_vars PROVE [Abstract!Next]_(ToSet(Scan))
    OBVIOUS
  <2>1. ToSet(Scan) = LeafKeys(nodes) /\ ToSet(Scan)' = LeafKeys(nodes')
    BY DEF LeafKeys
  <2>2. \/ LeafKeys(nodes') = LeafKeys(nodes)
        \/ \E k \in Key : k \notin LeafKeys(nodes) /\ LeafKeys(nodes') = LeafKeys(nodes) \cup {k}
        \/ \E k \in Key : k \in LeafKeys(nodes) /\ LeafKeys(nodes') = LeafKeys(nodes) \ {k}
    BY BPlusTreeConstants, StepKeeps
  <2> QED
    BY <2>1, <2>2 DEF Abstract!Next, Abstract!Add, Abstract!Drop
<1>5. Abstract!Init /\ [][Abstract!Next]_(ToSet(Scan)) => Abstract!Spec
  BY DEF Abstract!Spec
<1> HIDE DEF Says
<1> QED
  BY <1>1, <1>2, <1>3, <1>4, <1>5, PTL DEF Spec, ImplementsIndex

-------------------------------------------------------------------------------
(* A scan while the tree grows: what can be read from a page on. *)

Reached(p) == ToSet(KeysFrom(p))

(* A leaf leads to the next, and to the keys of both. *)
LEMMA ReadsOn ==
  ASSUME BPlusTreeConstants, Shape(nodes, root, task)
  PROVE  /\ KeysFrom(INVALID_PAGE_ID) = <<>> /\ Reached(INVALID_PAGE_ID) = {}
         /\ LeafPages(nodes) \subseteq Page /\ INVALID_PAGE_ID \notin DOMAIN nodes
         /\ \A p \in LeafPages(nodes) :
              /\ nodes[p].keys \in Seq(Key) /\ Increasing(nodes[p].keys)
              /\ nodes[p].next \in LeafPages(nodes) \cup {INVALID_PAGE_ID}
              /\ KeysFrom(p) \in Seq(Key)
              /\ KeysFrom(p) = nodes[p].keys \o KeysFrom(nodes[p].next)
              /\ Reached(p) = ToSet(nodes[p].keys) \cup Reached(nodes[p].next)
<1>1. INVALID_PAGE_ID \notin Page
  BY DEF Page, INVALID_PAGE_ID, BPlusTreeConstants
<1>2. CASE Empty(nodes, root, task)
  <2>1. DOMAIN nodes = {} /\ KeysFrom(INVALID_PAGE_ID) = <<>>
    BY <1>2, NothingToRead DEF Empty, Scan
  <2>2. ToSet(<<>>) = {}
    BY DEF ToSet
  <2> QED
    BY <2>1, <2>2 DEF LeafPages, Reached
<1>3. ASSUME NEW c, NEW s, Chained(nodes, root, c, s)
      PROVE  /\ KeysFrom(INVALID_PAGE_ID) = <<>>
             /\ LeafPages(nodes) \subseteq Page /\ DOMAIN nodes \subseteq Page
             /\ \A p \in LeafPages(nodes) :
                  /\ nodes[p].keys \in Seq(Key) /\ Increasing(nodes[p].keys)
                  /\ nodes[p].next \in LeafPages(nodes) \cup {INVALID_PAGE_ID}
                  /\ KeysFrom(p) \in Seq(Key) /\ KeysFrom(nodes[p].next) \in Seq(Key)
                  /\ KeysFrom(p) = nodes[p].keys \o KeysFrom(nodes[p].next)
  <2>1. PICK par : Leaves(nodes, c, s, par)
    BY <1>3 DEF Chained
  <2>2. /\ DOMAIN nodes \subseteq Page /\ Len(c) \in Nat
        /\ \A p \in DOMAIN nodes : IsLeaf(nodes[p]) <=> p \in ToSet(c)
    BY <1>3, ChainedPages
  <2>3. c \in Seq(Page)
    BY <2>1 DEF Leaves
  <2>4. /\ KeysFrom(INVALID_PAGE_ID) = <<>>
        /\ \A i \in 1 .. Len(c) : KeysFrom(c[i]) = nodes[c[i]].keys \o KeysFrom(NextIn(c, i))
    BY <1>3, KeysFromIs
  <2>5. <<>> \in Seq(Key)
    OBVIOUS
  <2>6. ASSUME NEW p \in LeafPages(nodes)
        PROVE  /\ nodes[p].keys \in Seq(Key) /\ Increasing(nodes[p].keys)
               /\ nodes[p].next \in LeafPages(nodes) \cup {INVALID_PAGE_ID}
               /\ KeysFrom(p) \in Seq(Key) /\ KeysFrom(nodes[p].next) \in Seq(Key)
               /\ KeysFrom(p) = nodes[p].keys \o KeysFrom(nodes[p].next)
    <3>1. p \in ToSet(c)
      BY <2>2 DEF LeafPages
    <3>2. PICK i \in 1 .. Len(c) : c[i] = p
      BY <2>3, <3>1, Members
    <3>3. /\ nodes[p].keys \in Seq(Key) /\ Increasing(nodes[p].keys)
          /\ nodes[p].next = NextIn(c, i)
      BY <2>1, <3>2, LeafAt
    <3>4. KeysFrom(p) \in Seq(Key)
      BY <1>3, <3>2, SuffixIs
    <3>5. CASE i < Len(c)
      <4>1. i + 1 \in 1 .. Len(c) /\ nodes[p].next = c[i + 1]
        BY <2>2, <3>3, <3>5 DEF NextIn
      <4>2. KeysFrom(c[i + 1]) \in Seq(Key)
        BY <1>3, <4>1, SuffixIs
      <4>3. c[i + 1] \in DOMAIN nodes /\ IsLeaf(nodes[c[i + 1]])
        BY <2>1, <4>1, LeafAt
      <4> QED
        BY <2>4, <3>2, <3>3, <3>4, <4>1, <4>2, <4>3 DEF LeafPages
    <3>6. CASE ~ (i < Len(c))
      BY <2>4, <2>5, <3>2, <3>3, <3>4, <3>6 DEF NextIn
    <3> QED
      BY <3>5, <3>6
  <2> QED
    BY <2>2, <2>4, <2>6 DEF LeafPages
<1>4. ASSUME NEW c, NEW s, Chained(nodes, root, c, s), NEW p \in LeafPages(nodes)
      PROVE  Reached(p) = ToSet(nodes[p].keys) \cup Reached(nodes[p].next)
  <2> DEFINE a == nodes[p].keys
             b == KeysFrom(nodes[p].next)
  <2>1. a \in Seq(Key) /\ b \in Seq(Key) /\ KeysFrom(p) = a \o b
    BY <1>3, <1>4
  <2> HIDE DEF a, b
  <2>2. ToSet(a \o b) = ToSet(a) \cup ToSet(b)
    BY <2>1, ConcatIs
  <2> QED
    BY <2>1, <2>2 DEF Reached, a, b
<1>5. ToSet(<<>>) = {}
  BY DEF ToSet
<1>6. CASE ~ Empty(nodes, root, task)
  <2>1. PICK c, s : Chained(nodes, root, c, s)
    BY <1>6, ShapeChained
  <2>2. KeysFrom(INVALID_PAGE_ID) = <<>> /\ Reached(INVALID_PAGE_ID) = {}
    BY <1>3, <1>5, <2>1 DEF Reached
  <2> QED
    BY <1>1, <1>3, <1>4, <2>1, <2>2
<1> QED
  BY <1>2, <1>6

(* Along the chain, from its end to its beginning. *)
LEMMA AlongTheChain ==
  ASSUME BPlusTreeConstants, Shape(nodes, root, task), NEW P, INVALID_PAGE_ID \in P,
         \A p \in LeafPages(nodes) : nodes[p].next \in P => p \in P
  PROVE  LeafPages(nodes) \subseteq P
<1> SUFFICES ASSUME NEW q \in LeafPages(nodes) PROVE q \in P
  OBVIOUS
<1>1. ~ Empty(nodes, root, task)
  BY DEF Empty, LeafPages
<1>2. PICK c, s : Chained(nodes, root, c, s)
  BY <1>1, ShapeChained
<1>3. PICK par : Leaves(nodes, c, s, par)
  BY <1>2 DEF Chained
<1>4. c \in Seq(Page) /\ Len(c) \in Nat /\ q \in ToSet(c)
  BY <1>2, <1>3, ChainedPages DEF Leaves, LeafPages
<1> DEFINE n == Len(c)
           S == {m \in Nat : m < n => c[n - m] \in P}
<1>5. \A i \in 1 .. n : c[i] \in LeafPages(nodes) /\ nodes[c[i]].next = NextIn(c, i)
  BY <1>3, LeafAt DEF LeafPages
<1>6. 0 \in S
  <2> SUFFICES ASSUME 0 < n PROVE c[n - 0] \in P
    BY <1>4
  <2>1. n \in 1 .. n /\ n - 0 = n /\ NextIn(c, n) = INVALID_PAGE_ID
    BY <1>4 DEF NextIn
  <2> HIDE DEF n
  <2> QED
    BY <1>5, <2>1
<1>7. ASSUME NEW m \in Nat, m \in S PROVE m + 1 \in S
  <2> SUFFICES ASSUME m + 1 < n PROVE c[n - (m + 1)] \in P
    OBVIOUS
  <2>1. n - (m + 1) \in 1 .. n /\ n - (m + 1) < n /\ n - (m + 1) + 1 = n - m /\ m < n
    BY <1>4
  <2>2. c[n - m] \in P
    BY <1>7, <2>1
  <2>3. NextIn(c, n - (m + 1)) = c[n - m]
    BY <2>1 DEF NextIn
  <2> HIDE DEF n
  <2> QED
    BY <1>5, <2>1, <2>2, <2>3
<1>8. Nat \subseteq S
  <2> HIDE DEF S
  <2> QED
    BY <1>6, <1>7, AllNumbers
<1>9. PICK i \in 1 .. n : c[i] = q
  BY <1>4, Members
<1>10. n - i \in Nat /\ n - i < n /\ n - (n - i) = i
  BY <1>4
<1> QED
  BY <1>8, <1>9, <1>10

(* What is still to come from index i of page p on. *)
ToCome(p, i) ==
  {x \in Reached(p) :
     IsReadable(p) => \A j \in 1 .. Size(nodes[p]) : nodes[p].keys[j] = x => i <= j}

LEMMA ComesFrom ==
  ASSUME BPlusTreeConstants, Shape(nodes, root, task)
  PROVE  /\ \A p : ToCome(p, 1) = Reached(p)
         /\ \A p : IsReadable(p) <=> p \in LeafPages(nodes)
         /\ ToCome(INVALID_PAGE_ID, 1) = {}
         /\ \A p \in LeafPages(nodes), i \in Nat :
              i > Size(nodes[p]) => ToCome(p, i) \subseteq Reached(nodes[p].next)
         /\ \A p \in LeafPages(nodes) : Size(nodes[p]) \in Nat
<1>1. \A p : IsReadable(p) <=> p \in LeafPages(nodes)
  BY DEF IsReadable, LeafPages
<1>2. \A p : ToCome(p, 1) = Reached(p)
  BY DEF ToCome
<1>3. Reached(INVALID_PAGE_ID) = {}
  BY ReadsOn
<1>4. ASSUME NEW p \in LeafPages(nodes)
      PROVE  /\ Size(nodes[p]) \in Nat
             /\ \A i \in Nat : i > Size(nodes[p]) => ToCome(p, i) \subseteq Reached(nodes[p].next)
  <2>1. /\ nodes[p].keys \in Seq(Key)
        /\ Reached(p) = ToSet(nodes[p].keys) \cup Reached(nodes[p].next)
    BY ReadsOn
  <2>2. Size(nodes[p]) \in Nat /\ Size(nodes[p]) = Len(nodes[p].keys)
    BY <2>1 DEF Size
  <2>3. ASSUME NEW i \in Nat, i > Size(nodes[p]), NEW x \in ToCome(p, i)
        PROVE  x \in Reached(nodes[p].next)
    <3> SUFFICES ASSUME x \in ToSet(nodes[p].keys) PROVE FALSE
      BY <2>1 DEF ToCome
    <3>1. PICK j \in 1 .. Len(nodes[p].keys) : nodes[p].keys[j] = x
      BY <2>1, Members
    <3>2. i <= j
      BY <1>1, <2>2, <2>3, <3>1 DEF ToCome
    <3> QED
      BY <2>2, <2>3, <3>1, <3>2
  <2> QED
    BY <2>2, <2>3
<1> QED
  BY <1>1, <1>2, <1>3, <1>4

(* Where an iterator stands with all of X to come: at an entry, or at the  *)
(* end of the chain, where there is nothing to come.                       *)
Stands(at, X) ==
  \/ at = AtEnd /\ X = {}
  \/ \E q \in LeafPages(nodes), j \in Nat \ {0} : at = At(q, j, "read") /\ X \subseteq ToCome(q, j)

(* One turn of AdvanceToValid. *)
LEMMA ValidIs ==
  ASSUME BPlusTreeConstants, Shape(nodes, root, task),
         NEW p \in LeafPages(nodes) \cup {INVALID_PAGE_ID}, NEW i \in Nat \ {0},
         p = INVALID_PAGE_ID => i = 1
  PROVE  \/ Stands(Valid(p, i), ToCome(p, i)) /\ Valid(p, i).pc # "settle"
         \/ /\ p \in LeafPages(nodes) /\ Valid(p, i) = At(nodes[p].next, 1, "settle")
            /\ ToCome(p, i) \subseteq Reached(nodes[p].next)
<1>1. /\ INVALID_PAGE_ID \notin DOMAIN nodes
      /\ IsReadable(p) <=> p \in LeafPages(nodes)
      /\ ToCome(INVALID_PAGE_ID, 1) = {}
      /\ p \in LeafPages(nodes) => Size(nodes[p]) \in Nat
      /\ p \in LeafPages(nodes) /\ i > Size(nodes[p]) => ToCome(p, i) \subseteq Reached(nodes[p].next)
  BY ComesFrom, ReadsOn
<1>2. CASE p = INVALID_PAGE_ID
  <2>1. Valid(p, i) = AtEnd /\ AtEnd.pc = "end" /\ ToCome(p, i) = {}
    BY <1>1, <1>2 DEF Valid, IsReadable, AtEnd, At
  <2> QED
    BY <2>1 DEF Stands
<1>3. CASE p \in LeafPages(nodes) /\ i <= Size(nodes[p])
  <2>1. Valid(p, i) = At(p, i, "read") /\ At(p, i, "read").pc = "read"
    BY <1>1, <1>3 DEF Valid, At
  <2> QED
    BY <1>3, <2>1 DEF Stands
<1>4. CASE p \in LeafPages(nodes) /\ ~ (i <= Size(nodes[p]))
  <2>1. Valid(p, i) = At(nodes[p].next, 1, "settle")
    BY <1>1, <1>4 DEF Valid
  <2> QED
    BY <1>1, <1>4, <2>1
<1> QED
  BY <1>2, <1>3, <1>4

(* All its turns: the iterator comes to an entry or to the end. *)
LEMMA FirstValidIs ==
  ASSUME BPlusTreeConstants, Shape(nodes, root, task),
         NEW p \in LeafPages(nodes) \cup {INVALID_PAGE_ID}, NEW i \in Nat \ {0},
         p = INVALID_PAGE_ID => i = 1
  PROVE  Stands(FirstValid(p, i), ToCome(p, i))
<1> DEFINE V(q) == Valid(q, 1)
           Is(f) == f = [q \in PageId |-> IF V(q).pc = "settle" THEN f[V(q).page] ELSE V(q)]
           home(q) == CHOOSE r \in LeafPages(nodes) : KeysFrom(q)[1] \in ToSet(nodes[r].keys)
           g == [q \in PageId |-> IF q \in LeafPages(nodes) /\ KeysFrom(q) # <<>>
                                  THEN At(home(q), 1, "read") ELSE AtEnd]
           h == CHOOSE f : Is(f)
<1>1. /\ INVALID_PAGE_ID \notin DOMAIN nodes /\ KeysFrom(INVALID_PAGE_ID) = <<>>
      /\ LeafPages(nodes) \subseteq PageId /\ INVALID_PAGE_ID \in PageId
      /\ \A q : IsReadable(q) <=> q \in LeafPages(nodes)
  BY ReadsOn, ComesFrom DEF PageId
<1>2. ASSUME NEW q \in LeafPages(nodes)
      PROVE  /\ nodes[q].keys \in Seq(Key) /\ nodes[q].next \in LeafPages(nodes) \cup {INVALID_PAGE_ID}
             /\ KeysFrom(q) = nodes[q].keys \o KeysFrom(nodes[q].next)
             /\ Size(nodes[q]) \in Nat /\ Size(nodes[q]) = Len(nodes[q].keys)
             /\ KeysFrom(nodes[q].next) \in Seq(Key)
  <2>1. /\ nodes[q].keys \in Seq(Key) /\ nodes[q].next \in LeafPages(nodes) \cup {INVALID_PAGE_ID}
        /\ KeysFrom(q) = nodes[q].keys \o KeysFrom(nodes[q].next)
    BY ReadsOn
  <2>2. <<>> \in Seq(Key)
    OBVIOUS
  <2>3. KeysFrom(nodes[q].next) \in Seq(Key)
    BY <2>1, <2>2, ReadsOn
  <2> QED
    BY <2>1, <2>3 DEF Size
<1>3. \A q \in PageId : g[q] = IF V(q).pc = "settle" THEN g[V(q).page] ELSE V(q)
  <2> SUFFICES ASSUME NEW q \in PageId PROVE g[q] = IF V(q).pc = "settle" THEN g[V(q).page] ELSE V(q)
    OBVIOUS
  <2>1. CASE q \notin LeafPages(nodes)
    <3>1. V(q) = AtEnd /\ AtEnd.pc = "end"
      BY <1>1, <2>1 DEF Valid, AtEnd, At
    <3> QED
      BY <2>1, <3>1
  <2>2. CASE q \in LeafPages(nodes) /\ 1 <= Size(nodes[q])
    <3>1. V(q) = At(q, 1, "read") /\ V(q).pc = "read"
      BY <1>1, <2>2 DEF Valid, At
    <3> DEFINE a == nodes[q].keys
               b == KeysFrom(nodes[q].next)
    <3>2. a \in Seq(Key) /\ b \in Seq(Key) /\ KeysFrom(q) = a \o b /\ 1 \in 1 .. Len(a)
      <4>1. a \in Seq(Key) /\ b \in Seq(Key) /\ KeysFrom(q) = a \o b
        BY <1>2, <2>2
      <4>2. Len(a) \in Nat /\ 1 <= Len(a)
        BY <1>2, <2>2
      <4> QED
        BY <4>1, <4>2
    <3> HIDE DEF a, b
    <3>3. (a \o b)[1] = a[1] /\ Len(a \o b) = Len(a) + Len(b) /\ Len(a) \in Nat /\ Len(b) \in Nat
      BY <3>2, ConcatIs
    <3>4. a \o b # <<>> /\ a[1] \in ToSet(a)
      <4>1. Len(<<>>) = 0 /\ Len(a \o b) # 0
        BY <3>2, <3>3
      <4> QED
        BY <3>2, <4>1, Members
    <3>5. KeysFrom(q) # <<>> /\ KeysFrom(q)[1] \in ToSet(nodes[q].keys)
      BY <3>2, <3>3, <3>4 DEF a
    <3>6. home(q) = q
      BY <2>2, <3>5, OneLeafPerKey
    <3> HIDE DEF home
    <3> QED
      BY <2>2, <3>1, <3>5, <3>6
  <2>3. CASE q \in LeafPages(nodes) /\ ~ (1 <= Size(nodes[q]))
    <3>1. V(q) = At(nodes[q].next, 1, "settle") /\ V(q).pc = "settle" /\ V(q).page = nodes[q].next
      BY <1>1, <2>3 DEF Valid, At
    <3>2. nodes[q].keys = <<>> /\ nodes[q].next \in PageId
      <4>1. Size(nodes[q]) = 0
        <5>1. Size(nodes[q]) \in Nat
          BY <1>2, <2>3
        <5> QED
          BY ONLY <5>1, <2>3
      <4>2. nodes[q].keys \in Seq(Key) /\ Len(nodes[q].keys) = 0
        BY <1>2, <2>3, <4>1
      <4>3. nodes[q].keys = <<>>
        BY <4>2, EmptySeq
      <4> QED
        BY <1>1, <1>2, <2>3, <4>3
    <3>3. KeysFrom(q) = KeysFrom(nodes[q].next)
      <4> DEFINE b == KeysFrom(nodes[q].next)
      <4>1. b \in Seq(Key) /\ KeysFrom(q) = <<>> \o b
        BY <1>2, <2>3, <3>2
      <4> HIDE DEF b
      <4>2. <<>> \o b = b
        BY <4>1, ConcatEmptySeq
      <4> QED
        BY <4>1, <4>2 DEF b
    <3>4. g[q] = g[nodes[q].next]
      <4>1. CASE nodes[q].next \in LeafPages(nodes)
        <5>1. home(q) = home(nodes[q].next)
          BY <3>3
        <5> HIDE DEF home
        <5> QED
          BY <2>3, <3>2, <3>3, <4>1, <5>1
      <4>2. CASE nodes[q].next = INVALID_PAGE_ID
        <5>1. KeysFrom(q) = <<>> /\ nodes[q].next \notin LeafPages(nodes)
          BY <1>1, <3>3, <4>2 DEF LeafPages
        <5> QED
          BY <3>2, <5>1
      <4> QED
        BY <1>2, <2>3, <4>1, <4>2
    <3> HIDE DEF g
    <3> QED
      BY <3>1, <3>4
  <2> QED
    BY <1>2, <2>1, <2>2, <2>3
<1>4. Is(h)
  <2>1. Is(g)
    <3>1. g = [q \in PageId |-> g[q]]
      OBVIOUS
    <3> QED
      BY <3>1, <1>3
  <2> HIDE DEF g
  <2> QED
    BY <2>1
<1>5. FirstValid(p, i) = IF Valid(p, i).pc = "settle" THEN h[Valid(p, i).page] ELSE Valid(p, i)
  BY DEF FirstValid
<1> HIDE DEF h
<1>6. \A q \in PageId : h[q] = IF V(q).pc = "settle" THEN h[V(q).page] ELSE V(q)
  BY <1>4
<1> DEFINE P == {q \in PageId : Stands(h[q], Reached(q))}
<1>7. INVALID_PAGE_ID \in P
  <2>1. V(INVALID_PAGE_ID) = AtEnd /\ AtEnd.pc = "end" /\ Reached(INVALID_PAGE_ID) = {}
    BY <1>1, ReadsOn DEF Valid, IsReadable, AtEnd, At
  <2> QED
    BY <1>1, <1>6, <2>1 DEF Stands
<1>8. \A q \in LeafPages(nodes) : nodes[q].next \in P => q \in P
  <2> SUFFICES ASSUME NEW q \in LeafPages(nodes), nodes[q].next \in P PROVE q \in P
    OBVIOUS
  <2>1. 1 \in Nat \ {0} /\ ToCome(q, 1) = Reached(q) /\ q # INVALID_PAGE_ID /\ q \in PageId
    BY <1>1, ComesFrom DEF LeafPages
  <2>2. \/ Stands(V(q), Reached(q)) /\ V(q).pc # "settle"
        \/ V(q) = At(nodes[q].next, 1, "settle") /\ Reached(q) \subseteq Reached(nodes[q].next)
    BY <2>1, ValidIs
  <2>3. CASE Stands(V(q), Reached(q)) /\ V(q).pc # "settle"
    BY <1>6, <2>1, <2>3
  <2>4. CASE V(q) = At(nodes[q].next, 1, "settle") /\ Reached(q) \subseteq Reached(nodes[q].next)
    <3>1. V(q).pc = "settle" /\ V(q).page = nodes[q].next
      BY <2>4 DEF At
    <3>2. h[q] = h[nodes[q].next]
      BY <1>6, <2>1, <3>1
    <3>3. Stands(h[q], Reached(nodes[q].next))
      BY <3>2
    <3> QED
      BY <2>1, <2>4, <3>3 DEF Stands
  <2> QED
    BY <2>2, <2>3, <2>4
<1>9. LeafPages(nodes) \subseteq P
  <2> HIDE DEF P
  <2> QED
    BY <1>7, <1>8, AlongTheChain
<1>10. \/ Stands(Valid(p, i), ToCome(p, i)) /\ Valid(p, i).pc # "settle"
       \/ /\ p \in LeafPages(nodes) /\ Valid(p, i) = At(nodes[p].next, 1, "settle")
          /\ ToCome(p, i) \subseteq Reached(nodes[p].next)
  BY ValidIs
<1>11. CASE /\ p \in LeafPages(nodes) /\ Valid(p, i) = At(nodes[p].next, 1, "settle")
            /\ ToCome(p, i) \subseteq Reached(nodes[p].next)
  <2>1. Valid(p, i).pc = "settle" /\ Valid(p, i).page = nodes[p].next
    BY <1>11 DEF At
  <2>2. nodes[p].next \in P
    <3> HIDE DEF P
    <3> QED
      BY <1>2, <1>7, <1>9, <1>11
  <2>3. Stands(h[nodes[p].next], Reached(nodes[p].next))
    BY <2>2
  <2>4. FirstValid(p, i) = h[nodes[p].next]
    BY <1>5, <2>1
  <2> QED
    BY <1>11, <2>3, <2>4 DEF Stands
<1> QED
  BY <1>5, <1>10, <1>11

-------------------------------------------------------------------------------
(* Steps of the tree while a scan is open. *)

(* Keys that stay in a page move to the right in it. *)
Rightward(r, t) == \A j \in 1 .. Len(r), h \in 1 .. Len(t) : r[j] = t[h] => j <= h

(* Leaf p of ns is still there in ms, and so is what it led to: in it, in  *)
(* the next leaf or in a new one between them.                             *)
LeadsOn(ns, ms, p) ==
  /\ p \in LeafPages(ms)
  /\ Rightward(ns[p].keys, ms[p].keys)
  /\ \A x \in ToSet(ms[p].keys) : x \in ToSet(ns[p].keys) \/ x \notin LeafKeys(ns)
  /\ \/ ms[p].next = ns[p].next /\ ToSet(ns[p].keys) \subseteq ToSet(ms[p].keys)
     \/ \E q \in LeafPages(ms) :
          /\ ms[p].next = q /\ ms[q].next = ns[p].next
          /\ ToSet(ns[p].keys) \subseteq ToSet(ms[p].keys) \cup ToSet(ms[q].keys)

ReadingOn ==
  /\ Reached(INVALID_PAGE_ID) = {}
  /\ \A p \in LeafPages(nodes) :
       /\ nodes[p].keys \in Seq(Key)
       /\ nodes[p].next \in LeafPages(nodes) \cup {INVALID_PAGE_ID}
       /\ \A r : r = nodes[p].next => Reached(p) = ToSet(nodes[p].keys) \cup Reached(r)
       /\ IsReadable(p) /\ Size(nodes[p]) = Len(nodes[p].keys)
       /\ Reached(p) \subseteq LeafKeys(nodes)

LEMMA ReadingOnAlways == TreeInv => ReadingOn
<1> SUFFICES ASSUME TreeInv PROVE ReadingOn
  OBVIOUS
<1>1. BPlusTreeConstants /\ Shape(nodes, root, task)
  BY BPlusTreeConstants DEF TreeInv
<1>2. /\ Reached(INVALID_PAGE_ID) = {} /\ INVALID_PAGE_ID \notin DOMAIN nodes
      /\ \A p \in LeafPages(nodes) :
           /\ nodes[p].keys \in Seq(Key)
           /\ nodes[p].next \in LeafPages(nodes) \cup {INVALID_PAGE_ID}
           /\ Reached(p) = ToSet(nodes[p].keys) \cup Reached(nodes[p].next)
  BY <1>1, ReadsOn
<1>3. \A p \in LeafPages(nodes) : IsReadable(p) /\ Size(nodes[p]) = Len(nodes[p].keys)
  BY <1>1, ComesFrom DEF Size
<1> DEFINE P == {q \in LeafPages(nodes) \cup {INVALID_PAGE_ID} : Reached(q) \subseteq LeafKeys(nodes)}
<1>4. INVALID_PAGE_ID \in P
  BY <1>2
<1>5. \A p \in LeafPages(nodes) : nodes[p].next \in P => p \in P
  <2> SUFFICES ASSUME NEW p \in LeafPages(nodes), nodes[p].next \in P PROVE p \in P
    OBVIOUS
  <2>1. ToSet(nodes[p].keys) \subseteq LeafKeys(nodes)
    BY DEF LeafKeys, LeafPages
  <2> QED
    BY <1>2, <2>1
<1>6. LeafPages(nodes) \subseteq P
  <2> HIDE DEF P
  <2> QED
    BY <1>1, <1>4, <1>5, AlongTheChain
<1> QED
  BY <1>2, <1>3, <1>6 DEF ReadingOn

(* What is to come stays to come. *)
LEMMA StaysToCome ==
  ASSUME BPlusTreeConstants, TreeInv, TreeInv',
         \A p \in LeafPages(nodes) : LeadsOn(nodes, nodes', p),
         NEW p \in LeafPages(nodes), NEW i \in Nat
  PROVE  p \in LeafPages(nodes') /\ ToCome(p, i) \subseteq ToCome(p, i)'
<1>1. ReadingOn /\ ReadingOn'
  BY ReadingOnAlways, PTL
<1>2. Shape(nodes, root, task)
  BY DEF TreeInv
<1>3. /\ Reached(INVALID_PAGE_ID) = {}
      /\ \A q \in LeafPages(nodes) :
           /\ nodes[q].keys \in Seq(Key)
           /\ nodes[q].next \in LeafPages(nodes) \cup {INVALID_PAGE_ID}
           /\ \A r : r = nodes[q].next => Reached(q) = ToSet(nodes[q].keys) \cup Reached(r)
           /\ IsReadable(q) /\ Size(nodes[q]) = Len(nodes[q].keys)
           /\ Reached(q) \subseteq LeafKeys(nodes)
  BY <1>1 DEF ReadingOn
<1>4. \A q \in LeafPages(nodes') :
         /\ nodes'[q].keys \in Seq(Key)
         /\ \A r : r = nodes'[q].next => Reached(q)' = ToSet(nodes'[q].keys) \cup Reached(r)'
         /\ IsReadable(q)' /\ Size(nodes'[q]) = Len(nodes'[q].keys)
  BY <1>1 DEF ReadingOn, LeafPages, IsLeaf, Size
<1> DEFINE P == {q \in LeafPages(nodes) \cup {INVALID_PAGE_ID} : Reached(q) \subseteq Reached(q)'}
<1>5. INVALID_PAGE_ID \in P
  BY <1>3
<1>6. \A q \in LeafPages(nodes) : nodes[q].next \in P => q \in P
  <2> SUFFICES ASSUME NEW q \in LeafPages(nodes), NEW n, n = nodes[q].next, n \in P
               PROVE  Reached(q) \subseteq Reached(q)'
    OBVIOUS
  <2>1. LeadsOn(nodes, nodes', q) /\ q \in LeafPages(nodes')
    BY DEF LeadsOn
  <2>2. Reached(n) \subseteq Reached(n)'
    OBVIOUS
  <2>3. CASE /\ nodes'[q].next = nodes[q].next /\ ToSet(nodes[q].keys) \subseteq ToSet(nodes'[q].keys)
    BY <1>3, <1>4, <2>1, <2>2, <2>3
  <2>4. ASSUME NEW r \in LeafPages(nodes'), nodes'[q].next = r, nodes'[r].next = nodes[q].next,
               ToSet(nodes[q].keys) \subseteq ToSet(nodes'[q].keys) \cup ToSet(nodes'[r].keys)
        PROVE  Reached(q) \subseteq Reached(q)'
    BY <1>3, <1>4, <2>1, <2>2, <2>4
  <2> QED
    BY <2>1, <2>3, <2>4 DEF LeadsOn
<1>7. Reached(p) \subseteq Reached(p)'
  <2>1. LeafPages(nodes) \subseteq P
    <3> HIDE DEF P
    <3> QED
      BY <1>2, <1>5, <1>6, AlongTheChain
  <2> QED
    BY <2>1
<1>8. LeadsOn(nodes, nodes', p) /\ p \in LeafPages(nodes')
  BY DEF LeadsOn
<1>9. ASSUME NEW x \in ToCome(p, i), NEW h \in 1 .. Size(nodes'[p]), nodes'[p].keys[h] = x
      PROVE  i <= h
  <2>1. h \in 1 .. Len(nodes'[p].keys) /\ nodes'[p].keys \in Seq(Key) /\ nodes[p].keys \in Seq(Key)
    BY <1>3, <1>4, <1>8
  <2>2. x \in ToSet(nodes'[p].keys) /\ x \in LeafKeys(nodes)
    BY <1>3, <1>9, <2>1, Members DEF ToCome
  <2>3. x \in ToSet(nodes[p].keys)
    BY <1>8, <2>2 DEF LeadsOn
  <2>4. PICK j \in 1 .. Len(nodes[p].keys) : nodes[p].keys[j] = x
    BY <2>1, <2>3, Members
  <2>5. i <= j
    BY <1>3, <1>9, <2>4 DEF ToCome
  <2>6. j <= h
    BY <1>8, <1>9, <2>1, <2>4 DEF LeadsOn, Rightward
  <2>7. j \in Nat /\ h \in Nat
    OBVIOUS
  <2> QED
    BY <2>5, <2>6, <2>7
<1> QED
  BY <1>7, <1>8, <1>9 DEF ToCome

LEMMA MovedRight ==
  ASSUME BPlusTreeConstants, NEW r \in Seq(Key), NEW t \in Seq(Key), Increasing(r), Increasing(t),
         \A x \in ToSet(r), y \in ToSet(t) : x < y => x \in ToSet(t)
  PROVE  Rightward(r, t)
<1> DEFINE S == {j \in Nat : j \in 1 .. Len(r) => \A h \in 1 .. Len(t) : r[j] = t[h] => j <= h}
<1>1. 0 \in S
  OBVIOUS
<1>2. ASSUME NEW m \in Nat, m \in S PROVE m + 1 \in S
  <2> SUFFICES ASSUME m + 1 \in 1 .. Len(r), NEW h \in 1 .. Len(t), r[m + 1] = t[h]
               PROVE  m + 1 <= h
    OBVIOUS
  <2>1. CASE m = 0
    BY <2>1
  <2>2. CASE m # 0
    <3>1. m \in 1 .. Len(r) /\ m < m + 1
      BY <2>2
    <3>2. r[m] < t[h]
      BY <3>1 DEF Increasing
    <3>3. r[m] \in ToSet(r) /\ t[h] \in ToSet(t)
      BY <3>1, Members
    <3>4. r[m] \in ToSet(t)
      BY <3>2, <3>3
    <3>5. PICK g \in 1 .. Len(t) : t[g] = r[m]
      BY <3>4, Members
    <3>6. m <= g
      BY <1>2, <3>1, <3>5
    <3>7. t[h] \in Nat /\ t[g] \in Nat
      BY KeysAreNumbers
    <3>8. g # h /\ ~ (h < g)
      <4>1. t[g] < t[h]
        BY <3>2, <3>5
      <4>2. h < g => t[h] < t[g]
        BY DEF Increasing
      <4> QED
        BY <3>7, <4>1, <4>2
    <3>9. g \in Nat /\ h \in Nat
      OBVIOUS
    <3> QED
      BY <3>6, <3>8, <3>9
  <2> QED
    BY <2>1, <2>2
<1>3. Nat \subseteq S
  <2> HIDE DEF S
  <2> QED
    BY <1>1, <1>2, AllNumbers
<1> QED
  BY <1>3 DEF Rightward

LEMMA SameLeadsOn ==
  ASSUME BPlusTreeConstants, NEW ns, NEW ms, NEW p \in LeafPages(ms),
         ms[p].keys = ns[p].keys, ms[p].next = ns[p].next,
         ns[p].keys \in Seq(Key), Increasing(ns[p].keys)
  PROVE  LeadsOn(ns, ms, p)
<1>1. Rightward(ns[p].keys, ms[p].keys)
  BY MovedRight
<1> QED
  BY <1>1 DEF LeadsOn

(* A tree that grows leads on from every leaf of it. *)
LEMMA InsertIntoLeafLeads ==
  ASSUME BPlusTreeConstants, TwoLevels, TreeInv, NEW k \in Key, InsertIntoLeaf(k),
         NEW p \in LeafPages(nodes)
  PROVE  LeadsOn(nodes, nodes', p)
<1> DEFINE leaf == FindLeafPage(k)
           n == InsertKey(nodes[leaf], k)
<1>1. /\ task = Idle /\ root # INVALID_PAGE_ID
      /\ ~Contains(nodes[leaf].keys, k)
      /\ nodes' = [nodes EXCEPT ![leaf] = n]
  BY DEF InsertIntoLeaf
<1>2. Shape(nodes, root, task)
  BY DEF TreeInv
<1>3. /\ leaf \in DOMAIN nodes /\ IsLeaf(nodes[leaf])
      /\ Leaf(nodes[leaf], nodes[leaf].parent, nodes[leaf].next)
  BY <1>1, <1>2, TheLeaf
<1> HIDE DEF leaf
<1>4. /\ nodes[leaf] \in Node /\ Increasing(nodes[leaf].keys) /\ nodes[leaf].keys \in Seq(Key)
      /\ k \notin ToSet(nodes[leaf].keys)
  <2>1. /\ nodes[leaf] \in Node /\ Increasing(nodes[leaf].keys) /\ nodes[leaf].keys \in Seq(Key)
    BY <1>3 DEF Leaf, Node
  <2> QED
    BY <2>1, <1>1, Members
<1>5. /\ n = [nodes[leaf] EXCEPT !.keys = InsertAt(nodes[leaf].keys, KeyIndex(nodes[leaf], k), k)]
      /\ n \in Node /\ Increasing(n.keys)
      /\ ToSet(n.keys) = ToSet(nodes[leaf].keys) \cup {k}
  BY <1>4, InsertKeyIs
<1>6. n.next = nodes[leaf].next /\ n.type = nodes[leaf].type /\ n.keys \in Seq(Key)
  BY <1>4, <1>5 DEF Node
<1> HIDE DEF n
<1>7. IsLeaf(n)
  BY <1>3, <1>6 DEF IsLeaf
<1>8. CASE p # leaf
  <2>1. p \in LeafPages(nodes') /\ nodes'[p] = nodes[p]
    BY <1>1, <1>8 DEF LeafPages
  <2>2. nodes[p].keys \in Seq(Key) /\ Increasing(nodes[p].keys)
    BY <1>2, ReadsOn
  <2> QED
    BY <2>1, <2>2, SameLeadsOn
<1>9. CASE p = leaf
  <2>1. p \in LeafPages(nodes') /\ nodes'[p] = n
    BY <1>1, <1>3, <1>7, <1>9 DEF LeafPages
  <2>2. \A x \in ToSet(nodes[p].keys), y \in ToSet(n.keys) : x < y => x \in ToSet(n.keys)
    BY <1>5, <1>9
  <2>3. Rightward(nodes[p].keys, n.keys)
    BY <1>4, <1>5, <1>6, <1>9, <2>2, MovedRight
  <2>4. k \notin LeafKeys(nodes)
    BY InsertIntoLeafKeeps
  <2> QED
    BY <1>5, <1>6, <1>9, <2>1, <2>3, <2>4 DEF LeadsOn
<1> QED
  BY <1>8, <1>9

LEMMA SplitLeafLeads ==
  ASSUME BPlusTreeConstants, TwoLevels, TreeInv, NEW k \in Key, SplitLeaf(k),
         NEW p \in LeafPages(nodes)
  PROVE  LeadsOn(nodes, nodes', p)
<1> DEFINE leaf == FindLeafPage(k)
           new == NewPage(DOMAIN nodes)
           half == LeafHalves(nodes[leaf], new)
           right == k >= Head(half[2].keys)
           n1 == IF right THEN half[1] ELSE InsertKey(half[1], k)
           n2 == IF right THEN InsertKey(half[2], k) ELSE half[2]
<1>1. /\ task = Idle /\ root # INVALID_PAGE_ID /\ PagesLeft
      /\ ~ Contains(nodes[leaf].keys, k) /\ ~ HasRoom(nodes[leaf])
      /\ nodes' = Put(new, n2, [nodes EXCEPT ![leaf] = n1])
  BY DEF SplitLeaf
<1>2. Shape(nodes, root, task)
  BY DEF TreeInv
<1>3. new \in Page \ DOMAIN nodes
  <2>1. Page \ DOMAIN nodes # {}
    <3> SUFFICES ASSUME Page \ DOMAIN nodes = {} PROVE FALSE
      OBVIOUS
    <3>1. Cardinality(Page \ DOMAIN nodes) = 0
      BY FS_EmptySet
    <3> QED
      BY <1>1, <3>1 DEF PagesLeft
  <2> QED
    BY <2>1, NewPageIs
<1>4. leaf \in DOMAIN nodes /\ Leaf(nodes[leaf], nodes[leaf].parent, nodes[leaf].next)
  BY <1>1, <1>2, TheLeaf
<1>5. \/ /\ k >= Head(half[2].keys)
         /\ n1 = half[1] /\ n2 = InsertKey(half[2], k)
      \/ /\ ~ (k >= Head(half[2].keys))
         /\ n1 = InsertKey(half[1], k) /\ n2 = half[2]
  OBVIOUS
<1>6. half = LeafHalves(nodes[leaf], new) /\ new \in PageId
  BY <1>3 DEF PageId
<1> HIDE DEF n1, n2, right, half, new, leaf
<1>7. InTwo(nodes[leaf], k, n1, n2, nodes[leaf].parent, new, nodes[leaf].next)
  <2> DEFINE l == nodes[leaf]
             par == l.parent
             nxt == l.next
  <2>1. Leaf(l, par, nxt) /\ ~ Contains(l.keys, k) /\ ~ HasRoom(l) /\ half = LeafHalves(l, new)
    BY <1>1, <1>4, <1>6
  <2> HIDE DEF l, par, nxt
  <2>2. InTwo(l, k, n1, n2, par, new, nxt)
    BY ONLY <2>1, <1>5, <1>6, k \in Key, BPlusTreeConstants, HalvesAre, Zenon
  <2> QED
    BY <2>2 DEF l, par, nxt
<1>8. /\ n1.next = new /\ n2.next = nodes[leaf].next /\ IsLeaf(n1) /\ IsLeaf(n2)
      /\ n1.keys \in Seq(Key) /\ Increasing(n1.keys) /\ n2.keys \in Seq(Key)
  <2>1. Leaf(n1, nodes[leaf].parent, new) /\ Leaf(n2, nodes[leaf].parent, nodes[leaf].next)
    BY <1>7 DEF InTwo
  <2> QED
    BY <2>1 DEF Leaf, NewLeaf, IsLeaf, Node
<1>9. CASE p # leaf
  <2>1. p \in LeafPages(nodes') /\ nodes'[p] = nodes[p]
    BY <1>1, <1>3, <1>9 DEF LeafPages, Put
  <2>2. nodes[p].keys \in Seq(Key) /\ Increasing(nodes[p].keys)
    BY <1>2, ReadsOn
  <2> QED
    BY <2>1, <2>2, SameLeadsOn
<1>10. CASE p = leaf
  <2>1. /\ p \in LeafPages(nodes') /\ nodes'[p] = n1
        /\ new \in LeafPages(nodes') /\ nodes'[new] = n2
    BY <1>1, <1>3, <1>4, <1>8, <1>10 DEF LeafPages, Put
  <2>2. /\ ToSet(n1.keys) \cup ToSet(n2.keys) = ToSet(nodes[p].keys) \cup {k}
        /\ Head(n2.keys) \in Key
        /\ \A x \in ToSet(n1.keys) : x < Head(n2.keys)
        /\ \A x \in ToSet(n2.keys) : Head(n2.keys) <= x
    BY <1>7, <1>10 DEF InTwo
  <2>3. nodes[p].keys \in Seq(Key) /\ Increasing(nodes[p].keys)
    BY <1>2, ReadsOn
  <2>4. ASSUME NEW x \in ToSet(nodes[p].keys), NEW y \in ToSet(n1.keys), x < y
        PROVE  x \in ToSet(n1.keys)
    <3> SUFFICES ASSUME x \in ToSet(n2.keys) PROVE FALSE
      BY <2>2
    <3> DEFINE m == Head(n2.keys)
    <3>1. m <= x /\ y < m /\ x < y /\ m \in Key
      BY <2>2, <2>4
    <3>2. x \in Key /\ y \in Key
      BY <1>8, <2>3, Members
    <3> HIDE DEF m
    <3>3. m \in Nat /\ x \in Nat /\ y \in Nat
      BY <3>1, <3>2 DEF BPlusTreeConstants
    <3> QED
      BY <3>1, <3>3
  <2>5. Rightward(nodes[p].keys, n1.keys)
    BY <1>8, <2>3, <2>4, MovedRight
  <2>6. k \notin LeafKeys(nodes)
    BY SplitLeafKeeps
  <2>7. \A x \in ToSet(n1.keys) : x \in ToSet(nodes[p].keys) \/ x \notin LeafKeys(nodes)
    BY <2>2, <2>6
  <2> QED
    BY <1>8, <1>10, <2>1, <2>2, <2>5, <2>7 DEF LeadsOn
<1> QED
  BY <1>9, <1>10

LEMMA ReparentedLeads ==
  ASSUME BPlusTreeConstants, NEW ns, NEW ms, NEW p \in LeafPages(ns), p \in DOMAIN ms,
         ns[p] \in Node, Increasing(ns[p].keys), NEW q,
         ms[p] = ns[p] \/ ms[p] = [ns[p] EXCEPT !.parent = q]
  PROVE  LeadsOn(ns, ms, p)
<1>1. /\ ms[p].keys = ns[p].keys /\ ms[p].next = ns[p].next /\ ms[p].type = ns[p].type
      /\ ns[p].keys \in Seq(Key)
  BY DEF Node
<1>2. p \in LeafPages(ms)
  BY <1>1 DEF LeafPages, IsLeaf
<1> QED
  BY <1>1, <1>2, SameLeadsOn

LEMMA LeavesAreNodes ==
  ASSUME BPlusTreeConstants, TreeInv, NEW p \in LeafPages(nodes)
  PROVE  nodes[p] \in Node /\ Increasing(nodes[p].keys)
<1>1. Increasing(nodes[p].keys)
  BY ReadsOn DEF TreeInv
<1>2. TypeOK
  BY TreeSound DEF TreeInv, TreeIsSound
<1> QED
  BY <1>1, <1>2 DEF TypeOK, LeafPages

LEMMA GrowRootLeads ==
  ASSUME BPlusTreeConstants, TreeInv, GrowRoot, NEW p \in LeafPages(nodes)
  PROVE  LeadsOn(nodes, nodes', p)
<1> DEFINE q == NewPage(DOMAIN nodes)
           n == NewInternal(INVALID_PAGE_ID, <<task.key>>, <<task.page, task.new>>)
<1>1. /\ task.op = "parent"
      /\ nodes' = Put(q, n, SetParent(nodes, {task.page, task.new}, q))
  BY DEF GrowRoot
<1>2. q \in Page \ DOMAIN nodes
  <2>1. Halved(nodes, root, task)
    <3>1. ASSUME NEW c, NEW s, NEW i, Growing(nodes, root, task, c, s, i) PROVE FALSE
      <4>1. nodes[task.page].parent = root /\ root \in Page
        BY <3>1, WhatGrows
      <4>2. nodes[task.page].parent = INVALID_PAGE_ID
        BY DEF GrowRoot
      <4> QED
        BY <4>1, <4>2 DEF INVALID_PAGE_ID, Page
    <3> QED
      BY <1>1, <3>1, TasksAre DEF TreeInv
  <2>2. Page \ DOMAIN nodes # {}
    BY <2>1 DEF Halved
  <2> QED
    BY <2>2, NewPageIs
<1> HIDE DEF q, n
<1>3. /\ p \in DOMAIN nodes' /\ p # q
      /\ nodes'[p] = nodes[p] \/ nodes'[p] = [nodes[p] EXCEPT !.parent = q]
  BY <1>1, <1>2 DEF Put, SetParent, LeafPages
<1> QED
  BY <1>3, LeavesAreNodes, ReparentedLeads

LEMMA InsertIntoParentLeads ==
  ASSUME BPlusTreeConstants, TreeInv, InsertIntoParent, NEW p \in LeafPages(nodes)
  PROVE  LeadsOn(nodes, nodes', p)
<1>1. task.op = "parent" /\ nodes[task.page].parent # INVALID_PAGE_ID
  BY DEF InsertIntoParent
<1>2. PICK c, s, i : Growing(nodes, root, task, c, s, i)
  <2>1. ASSUME Halved(nodes, root, task) PROVE FALSE
    <3>1. task.page = root /\ Leaves(nodes, <<root, task.new>>, <<task.key>>, INVALID_PAGE_ID)
      BY <2>1 DEF Halved, ParentTask
    <3>2. 1 \in 1 .. Len(<<root, task.new>>) /\ <<root, task.new>>[1] = root
      OBVIOUS
    <3>3. \E z : Leaf(nodes[root], INVALID_PAGE_ID, z)
      BY <3>1, <3>2 DEF Leaves
    <3> QED
      BY <3>1, <3>3, <1>1 DEF Leaf, NewLeaf
  <2> QED
    BY <1>1, <2>1, TasksAre DEF TreeInv
<1>3. /\ nodes[task.page].parent = root /\ nodes[root] = NewInternal(INVALID_PAGE_ID, s, c)
  BY <1>2, WhatGrows
<1>4. p # root
  BY <1>3 DEF LeafPages, NewInternal, IsLeaf
<1> DEFINE n == InsertAfter(nodes[root], task.page, task.key, task.new)
<1>5. \/ nodes' = SetParent([nodes EXCEPT ![root] = n], {task.new}, root)
      \/ nodes' = nodes
  BY <1>3 DEF InsertIntoParent
<1> HIDE DEF n
<1>6. /\ p \in DOMAIN nodes'
      /\ nodes'[p] = nodes[p] \/ nodes'[p] = [nodes[p] EXCEPT !.parent = root]
  BY <1>4, <1>5 DEF SetParent, LeafPages
<1> QED
  BY <1>6, LeavesAreNodes, ReparentedLeads

LEMMA StartNewTreeLeads ==
  ASSUME BPlusTreeConstants, TreeInv, NEW k \in Key, StartNewTree(k), NEW p \in LeafPages(nodes)
  PROVE  LeadsOn(nodes, nodes', p)
<1>1. root = INVALID_PAGE_ID /\ task = Idle
  BY DEF StartNewTree
<1>2. Shape(nodes, root, task)
  BY DEF TreeInv
<1> QED
  BY <1>1, <1>2, RootOrNothing DEF LeafPages, Empty

-------------------------------------------------------------------------------
(* Steps of the iterator. *)

LEMMA LeafOrNothing ==
  ASSUME BPlusTreeConstants, TreeInv
  PROVE  /\ FindLeftMostLeafPage \in LeafPages(nodes) \cup {INVALID_PAGE_ID}
         /\ root = INVALID_PAGE_ID => \A k : FindLeafPage(k) = INVALID_PAGE_ID
<1>1. Shape(nodes, root, task)
  BY DEF TreeInv
<1>2. CASE Empty(nodes, root, task)
  <2>1. DOMAIN nodes = {} /\ root = INVALID_PAGE_ID /\ root \in PageId
    BY <1>2 DEF Empty, PageId
  <2>2. FindLeftMostLeafPage = INVALID_PAGE_ID
    BY <2>1, FindLeftMostLeafPageIs
  <2>3. \A k : FindLeafPage(k) = INVALID_PAGE_ID
    BY <2>1, FindLeafPageIs
  <2> QED
    BY <2>2, <2>3
<1>3. ASSUME NEW c, NEW s, Chained(nodes, root, c, s) PROVE FindLeftMostLeafPage \in LeafPages(nodes)
  <2>1. /\ DOMAIN nodes \subseteq Page /\ root \in DOMAIN nodes /\ ToSet(c) \subseteq DOMAIN nodes
        /\ \A p \in DOMAIN nodes : IsLeaf(nodes[p]) <=> p \in ToSet(c)
        /\ \A p \in DOMAIN nodes \ {root} : IsLeaf(nodes[p])
        /\ c[1] \in ToSet(c)
    BY <1>3, ChainedPages
  <2>2. ~ IsLeaf(nodes[root]) => nodes[root].children[1] = c[1] /\ c[1] # root
    BY <1>3, <2>1 DEF Chained
  <2>3. root \in PageId
    BY <2>1 DEF PageId
  <2>4. FindLeftMostLeafPage = IF IsLeaf(nodes[root]) THEN root ELSE nodes[root].children[1]
    BY <2>1, <2>2, <2>3, FindLeftMostLeafPageIs
  <2> QED
    BY <2>1, <2>2, <2>4 DEF LeafPages
<1>4. root = INVALID_PAGE_ID <=> Empty(nodes, root, task)
  BY <1>1, RootOrNothing
<1> QED
  BY <1>1, <1>2, <1>3, <1>4, ShapeChained

(* The keys that are no less than k are in its leaf and behind it. *)
LEMMA NoneBefore ==
  ASSUME BPlusTreeConstants, TreeInv, task = Idle, root # INVALID_PAGE_ID, NEW k \in Key,
         NEW x \in LeafKeys(nodes), x >= k
  PROVE  x \in Reached(FindLeafPage(k))
<1>1. Shape(nodes, root, task)
  BY DEF TreeInv
<1>2. PICK c, s : /\ Chained(nodes, root, c, s)
                  /\ \E i \in 1 .. Len(c) : FindLeafPage(k) = c[i] /\ Fits(k, s, i)
  BY <1>1, Located
<1>3. PICK i \in 1 .. Len(c) : FindLeafPage(k) = c[i] /\ Fits(k, s, i)
  BY <1>2
<1>4. PICK j \in 1 .. Len(c) : x \in ToSet(nodes[c[j]].keys)
  BY <1>2, ChainKeys
<1>5. PICK par : Leaves(nodes, c, s, par)
  BY <1>2 DEF Chained
<1>6. x \in Nat /\ Fits(x, s, j)
  BY <1>4, <1>5, LeafAt
<1>7. /\ s \in Seq(Key) /\ Len(c) = Len(s) + 1 /\ Increasing(s) /\ Len(s) \in Nat /\ k \in Nat
      /\ \A h \in 1 .. Len(s) : s[h] \in Nat
  BY <1>5, KeysAreNumbers DEF Leaves, BPlusTreeConstants
<1>8. i <= j
  <2> SUFFICES ASSUME j < i PROVE FALSE
    BY <1>7
  <2>1. j \in 1 .. Len(s) /\ i - 1 \in 1 .. Len(s) /\ j <= i - 1 /\ i > 1
    BY <1>7
  <2>2. x < s[j] /\ s[i - 1] <= k
    BY <1>3, <1>6, <2>1 DEF Fits
  <2>3. s[j] <= s[i - 1]
    <3>1. CASE j = i - 1
      BY <1>7, <2>1, <3>1
    <3>2. CASE j < i - 1
      <4>1. s[j] < s[i - 1]
        BY <1>7, <2>1, <3>2 DEF Increasing
      <4> QED
        BY <1>7, <2>1, <4>1
    <3> QED
      BY <2>1, <3>1, <3>2
  <2>4. s[j] \in Nat /\ s[i - 1] \in Nat
    BY <1>7, <2>1
  <2> QED
    BY <1>6, <1>7, <2>2, <2>3, <2>4
<1>9. x \in From(nodes, c, i)
  <2>1. j \in i .. Len(c)
    BY <1>7, <1>8
  <2> QED
    BY <1>4, <2>1 DEF From
<1> QED
  BY <1>2, <1>3, <1>9, SuffixIs DEF Reached

(* Where the iterator is between two of its steps, X being owed. *)
Waits(at, X) ==
  \/ at = Closed
  \/ Stands(at, X)
  \/ \E q \in LeafPages(nodes), j \in Nat \ {0} : at = At(q, j, "advance") /\ X \subseteq ToCome(q, j + 1)
  \/ \E q \in LeafPages(nodes) \cup {INVALID_PAGE_ID} : at = At(q, 1, "settle") /\ X \subseteq Reached(q)

LEMMA BeginStands ==
  ASSUME BPlusTreeConstants, TreeInv, Begin PROVE Stands(iter', owed')
<1> DEFINE p == FindLeftMostLeafPage
<1>1. iter' = FirstValid(p, 1) /\ owed' = Reached(p)
  BY DEF Begin, Scan, Reached
<1>2. p \in LeafPages(nodes) \cup {INVALID_PAGE_ID} /\ Shape(nodes, root, task)
  BY LeafOrNothing DEF TreeInv
<1> HIDE DEF p
<1>3. ToCome(p, 1) = Reached(p) /\ 1 \in Nat \ {0}
  BY <1>2, ComesFrom
<1>4. Stands(FirstValid(p, 1), ToCome(p, 1))
  BY <1>2, <1>3, FirstValidIs
<1> QED
  BY <1>1, <1>3, <1>4

LEMMA BeginAtStands ==
  ASSUME BPlusTreeConstants, TreeInv, NEW k \in Key, BeginAt(k) PROVE Stands(iter', owed')
<1> DEFINE p == FindLeafPage(k)
           i == KeyIndex(nodes[p], k)
<1>1. /\ task = Idle
      /\ iter' = IF p = INVALID_PAGE_ID THEN AtEnd ELSE FirstValid(p, i)
      /\ owed' = {j \in ToSet(Scan) : j >= k}
  BY DEF BeginAt
<1>2. Shape(nodes, root, task)
  BY DEF TreeInv
<1>3. ToSet(Scan) = LeafKeys(nodes)
  BY <1>2, ScanIs
<1>4. CASE root = INVALID_PAGE_ID
  <2>1. Empty(nodes, root, task)
    BY <1>2, <1>4, RootOrNothing
  <2>2. LeafKeys(nodes) = {}
    BY <2>1 DEF Empty, LeafKeys
  <2>3. p = INVALID_PAGE_ID
    BY <1>4, LeafOrNothing
  <2> HIDE DEF p
  <2> QED
    BY <1>1, <1>3, <2>2, <2>3 DEF Stands
<1>5. CASE root # INVALID_PAGE_ID
  <2>1. p \in LeafPages(nodes)
    BY <1>1, <1>2, <1>5, TheLeaf DEF LeafPages
  <2>2. \A x \in LeafKeys(nodes) : x >= k => x \in Reached(p)
    BY <1>1, <1>5, NoneBefore
  <2> HIDE DEF p
  <2>3. /\ p # INVALID_PAGE_ID /\ nodes[p].keys \in Seq(Key) /\ Increasing(nodes[p].keys)
        /\ INVALID_PAGE_ID \notin DOMAIN nodes
    BY <1>2, <2>1, ReadsOn DEF LeafPages
  <2>4. /\ i \in 1 .. Len(nodes[p].keys) + 1
        /\ \A j \in 1 .. i - 1 : nodes[p].keys[j] < k
    BY <2>3, KeyIndexIs
  <2> HIDE DEF i
  <2>5. Stands(FirstValid(p, i), ToCome(p, i))
    <3>1. i \in Nat \ {0}
      BY <2>4
    <3> QED
      BY <1>2, <2>1, <2>3, <3>1, FirstValidIs
  <2>6. ASSUME NEW x \in LeafKeys(nodes), x >= k PROVE x \in ToCome(p, i)
    <3>1. x \in Reached(p)
      BY <2>2, <2>6
    <3>2. ASSUME NEW j \in 1 .. Size(nodes[p]), nodes[p].keys[j] = x PROVE i <= j
      <4> SUFFICES ASSUME j < i PROVE FALSE
        BY <2>4
      <4>1. j \in 1 .. i - 1 /\ j \in 1 .. Len(nodes[p].keys)
        BY <2>4, <3>2 DEF Size
      <4>2. x < k /\ x \in Nat /\ k \in Nat
        BY <2>3, <2>4, <3>2, <4>1, KeysAreNumbers DEF BPlusTreeConstants
      <4> QED
        BY <2>6, <4>2
    <3> QED
      BY <3>1, <3>2 DEF ToCome
  <2>7. owed' \subseteq ToCome(p, i) /\ iter' = FirstValid(p, i)
    BY <1>1, <1>3, <2>3, <2>6
  <2> QED
    BY <2>5, <2>7 DEF Stands
<1> QED
  BY <1>4, <1>5

(* Where it stands or waits, by the iterator's pc. *)
LEMMA WaitsAs ==
  ASSUME NEW at, NEW X, Waits(at, X)
  PROVE  /\ at.pc = "read" => \E q \in LeafPages(nodes), j \in Nat \ {0} :
                                at = At(q, j, "read") /\ X \subseteq ToCome(q, j)
         /\ at.pc = "advance" => \E q \in LeafPages(nodes), j \in Nat \ {0} :
                                   at = At(q, j, "advance") /\ X \subseteq ToCome(q, j + 1)
         /\ at.pc = "settle" => \E q \in LeafPages(nodes) \cup {INVALID_PAGE_ID} :
                                  at = At(q, 1, "settle") /\ X \subseteq Reached(q)
         /\ at.pc = "end" => X = {}
<1>1. Closed.pc = "closed" /\ AtEnd.pc = "end" /\ \A q, j, pc : At(q, j, pc).pc = pc
  BY DEF Closed, AtEnd, At
<1>2. CASE at = Closed
  BY <1>1, <1>2
<1>3. CASE at = AtEnd /\ X = {}
  BY <1>1, <1>3
<1>4. CASE \E q \in LeafPages(nodes), j \in Nat \ {0} : at = At(q, j, "read") /\ X \subseteq ToCome(q, j)
  BY <1>1, <1>4
<1>5. CASE \E q \in LeafPages(nodes), j \in Nat \ {0} : at = At(q, j, "advance") /\ X \subseteq ToCome(q, j + 1)
  BY <1>1, <1>5
<1>6. CASE \E q \in LeafPages(nodes) \cup {INVALID_PAGE_ID} : at = At(q, 1, "settle") /\ X \subseteq Reached(q)
  BY <1>1, <1>6
<1> QED
  BY <1>2, <1>3, <1>4, <1>5, <1>6 DEF Waits, Stands

LEMMA ReadWaits ==
  ASSUME BPlusTreeConstants, TreeInv, Waits(iter, owed), Read PROVE Waits(iter', owed')
<1>1. /\ iter.pc = "read" /\ iter' = [iter EXCEPT !.pc = "advance"]
      /\ owed' = IF IsReadable(iter.page) /\ iter.index <= Size(nodes[iter.page])
                 THEN owed \ {nodes[iter.page].keys[iter.index]} ELSE owed
  BY DEF Read
<1>2. PICK q \in LeafPages(nodes), j \in Nat \ {0} : iter = At(q, j, "read") /\ owed \subseteq ToCome(q, j)
  BY <1>1, WaitsAs
<1>3. iter' = At(q, j, "advance") /\ iter.page = q /\ iter.index = j
  BY <1>1, <1>2 DEF At
<1>4. IsReadable(q) /\ Size(nodes[q]) \in Nat
  BY ComesFrom DEF TreeInv
<1>5. ASSUME NEW x \in owed' PROVE x \in ToCome(q, j + 1)
  <2>1. x \in ToCome(q, j) /\ (j <= Size(nodes[q]) => x # nodes[q].keys[j])
    BY <1>1, <1>2, <1>3, <1>4, <1>5
  <2>2. ASSUME NEW h \in 1 .. Size(nodes[q]), nodes[q].keys[h] = x PROVE j + 1 <= h
    <3>1. j <= h
      BY <1>4, <2>1, <2>2 DEF ToCome
    <3>2. j # h
      BY <2>1, <2>2
    <3> QED
      BY <3>1, <3>2
  <2> QED
    BY <2>1, <2>2 DEF ToCome
<1>6. owed' \subseteq ToCome(q, j + 1)
  BY <1>5
<1> QED
  BY <1>3, <1>6 DEF Waits

LEMMA AdvanceWaits ==
  ASSUME BPlusTreeConstants, TreeInv, Waits(iter, owed), Advance PROVE Waits(iter', owed')
<1>1. iter.pc = "advance" /\ iter' = Ahead(iter.page, iter.index) /\ owed' = owed
  BY DEF Advance
<1>2. PICK q \in LeafPages(nodes), j \in Nat \ {0} :
        iter = At(q, j, "advance") /\ owed \subseteq ToCome(q, j + 1)
  BY <1>1, WaitsAs
<1>3. iter.page = q /\ iter.index = j
  BY <1>2 DEF At
<1>4. /\ IsReadable(q) /\ Size(nodes[q]) \in Nat
      /\ j + 1 > Size(nodes[q]) => ToCome(q, j + 1) \subseteq Reached(nodes[q].next)
      /\ nodes[q].next \in LeafPages(nodes) \cup {INVALID_PAGE_ID}
  <2>1. j + 1 \in Nat
    OBVIOUS
  <2> QED
    BY <2>1, ComesFrom, ReadsOn DEF TreeInv
<1>5. CASE j < Size(nodes[q])
  <2>1. iter' = At(q, j + 1, "read") /\ j + 1 \in Nat \ {0}
    BY <1>1, <1>3, <1>4, <1>5 DEF Ahead
  <2> QED
    BY <1>1, <1>2, <2>1 DEF Waits, Stands
<1>6. CASE ~ (j < Size(nodes[q]))
  <2>1. iter' = At(nodes[q].next, 1, "settle") /\ j + 1 > Size(nodes[q])
    BY <1>1, <1>3, <1>4, <1>6 DEF Ahead
  <2> QED
    BY <1>1, <1>2, <1>4, <2>1 DEF Waits
<1> QED
  BY <1>5, <1>6

LEMMA SettleWaits ==
  ASSUME BPlusTreeConstants, TreeInv, Waits(iter, owed), Settle PROVE Waits(iter', owed')
<1>1. iter.pc = "settle" /\ iter' = Valid(iter.page, iter.index) /\ owed' = owed
  BY DEF Settle
<1>2. PICK q \in LeafPages(nodes) \cup {INVALID_PAGE_ID} :
        iter = At(q, 1, "settle") /\ owed \subseteq Reached(q)
  BY <1>1, WaitsAs
<1>3. iter' = Valid(q, 1) /\ 1 \in Nat \ {0}
  BY <1>1, <1>2 DEF At
<1>4. ToCome(q, 1) = Reached(q) /\ Shape(nodes, root, task)
  BY ComesFrom DEF TreeInv
<1>5. \/ Stands(Valid(q, 1), ToCome(q, 1))
      \/ /\ q \in LeafPages(nodes) /\ Valid(q, 1) = At(nodes[q].next, 1, "settle")
         /\ ToCome(q, 1) \subseteq Reached(nodes[q].next)
  BY <1>3, <1>4, ValidIs
<1>6. CASE Stands(Valid(q, 1), ToCome(q, 1))
  BY <1>1, <1>2, <1>3, <1>4, <1>6 DEF Waits, Stands
<1>7. CASE /\ q \in LeafPages(nodes) /\ Valid(q, 1) = At(nodes[q].next, 1, "settle")
           /\ ToCome(q, 1) \subseteq Reached(nodes[q].next)
  <2>1. nodes[q].next \in LeafPages(nodes) \cup {INVALID_PAGE_ID}
    BY <1>4, <1>7, ReadsOn
  <2> QED
    BY <1>1, <1>2, <1>3, <1>4, <1>7, <2>1 DEF Waits
<1> QED
  BY <1>5, <1>6, <1>7

(* The same tree has the same to come. *)
LEMMA WaitsStill ==
  ASSUME nodes' = nodes, Waits(iter', owed') PROVE Waits(iter, owed)'
<1>1. LeafPages(nodes') = LeafPages(nodes)
  OBVIOUS
<1>2. \A q : Reached(q)' = Reached(q)
  BY DEF Reached, KeysFrom
<1>3. \A q : IsReadable(q)' = IsReadable(q)
  BY DEF IsReadable
<1>4. \A q, j : ToCome(q, j)' = ToCome(q, j)
  BY <1>2, <1>3 DEF ToCome
<1> QED
  BY <1>1, <1>2, <1>4 DEF Waits, Stands

LEMMA WaitsOn ==
  ASSUME BPlusTreeConstants, TreeInv, TreeInv',
         \A p \in LeafPages(nodes) : LeadsOn(nodes, nodes', p),
         iter' = iter, owed' = owed, Waits(iter, owed)
  PROVE  Waits(iter, owed)'
<1>1. \A p \in LeafPages(nodes), i \in Nat : p \in LeafPages(nodes') /\ ToCome(p, i) \subseteq ToCome(p, i)'
  BY StaysToCome
<1>2. \A p : ToCome(p, 1) = Reached(p)
  BY DEF ToCome
<1>3. \A p : ToCome(p, 1)' = Reached(p)'
  BY DEF ToCome
<1>4. Reached(INVALID_PAGE_ID) = {} /\ Reached(INVALID_PAGE_ID)' = {}
  <2>1. ReadingOn /\ ReadingOn'
    BY ReadingOnAlways, PTL
  <2> QED
    BY <2>1 DEF ReadingOn
<1>5. CASE iter = Closed
  BY <1>5 DEF Waits
<1>6. CASE iter = AtEnd /\ owed = {}
  BY <1>6 DEF Waits, Stands
<1>7. ASSUME NEW q \in LeafPages(nodes), NEW j \in Nat \ {0}, iter = At(q, j, "read"), owed \subseteq ToCome(q, j)
      PROVE  Waits(iter, owed)'
  <2>1. q \in LeafPages(nodes') /\ owed \subseteq ToCome(q, j)'
    BY <1>1, <1>7
  <2> QED
    BY <1>7, <2>1 DEF Waits, Stands
<1>8. ASSUME NEW q \in LeafPages(nodes), NEW j \in Nat \ {0}, iter = At(q, j, "advance"),
             NEW i, i = j + 1, owed \subseteq ToCome(q, i)
      PROVE  Waits(iter, owed)'
  <2>1. q \in LeafPages(nodes') /\ owed \subseteq ToCome(q, i)'
    BY <1>1, <1>8
  <2> QED
    BY <1>8, <2>1 DEF Waits
<1>9. ASSUME NEW q \in LeafPages(nodes) \cup {INVALID_PAGE_ID}, iter = At(q, 1, "settle"), owed \subseteq Reached(q)
      PROVE  Waits(iter, owed)'
  <2>1. q \in LeafPages(nodes') \cup {INVALID_PAGE_ID} /\ owed \subseteq Reached(q)'
    BY <1>1, <1>2, <1>3, <1>4, <1>9
  <2> QED
    BY <1>9, <2>1 DEF Waits
<1> QED
  BY <1>5, <1>6, <1>7, <1>8, <1>9 DEF Waits, Stands

(* Nobody rebalances while a scan is open, and the iterator is where all   *)
(* that it owes is still to come.                                          *)
ScanInv ==
  /\ TreeInv
  /\ iter # Closed => task.op # "rebalance"
  /\ Waits(iter, owed)

LEMMA ScanStepKeeps ==
  ASSUME BPlusTreeConstants, TwoLevels, ~ RemovalsMeanwhile, ScanInv, [ScanNext]_scanvars
  PROVE  ScanInv'
<1>1. TreeInv /\ Waits(iter, owed)
  BY DEF ScanInv
<1>2. [Next]_vars
  BY DEF ScanNext, TreeGrows, KeyGoes, TreeShrinks, Begin, BeginAt, Read, Advance, Settle, Close,
         Next, scanvars, vars
<1>3. TreeInv'
  BY <1>1, <1>2, StepKeeps
<1>4. CASE Begin \/ \E k \in Key : BeginAt(k)
  <2>1. Stands(iter', owed') /\ nodes' = nodes /\ task' = Idle
    BY <1>1, <1>4, BeginStands, BeginAtStands DEF Begin, BeginAt, vars
  <2>2. Waits(iter, owed)'
    BY <2>1, WaitsStill DEF Waits
  <2>3. Idle.op = "none"
    BY DEF Idle
  <2> QED
    BY <1>3, <2>1, <2>2, <2>3 DEF ScanInv
<1>5. CASE Read \/ Advance \/ Settle
  <2>1. Waits(iter', owed') /\ nodes' = nodes /\ task' = task
    BY <1>1, <1>5, ReadWaits, AdvanceWaits, SettleWaits DEF Read, Advance, Settle, vars
  <2>2. Waits(iter, owed)'
    BY <2>1, WaitsStill
  <2>3. iter # Closed
    BY <1>5 DEF Read, Advance, Settle, Closed, At
  <2> QED
    BY <1>3, <2>1, <2>2, <2>3 DEF ScanInv
<1>6. ASSUME iter' = Closed PROVE ScanInv'
  BY <1>3, <1>6 DEF ScanInv, Waits
<1>7. CASE Close
  BY <1>6, <1>7 DEF Close
<1>8. CASE TreeGrows
  <2>1. iter' = iter /\ owed' = owed
    BY <1>8 DEF TreeGrows
  <2>2. \A p \in LeafPages(nodes) : LeadsOn(nodes, nodes', p)
    BY <1>1, <1>8, StartNewTreeLeads, InsertIntoLeafLeads, SplitLeafLeads, GrowRootLeads,
       InsertIntoParentLeads, SplitInternalNever DEF TreeGrows
  <2>3. Waits(iter, owed)'
    BY <1>1, <1>3, <2>1, <2>2, WaitsOn
  <2>4. task' = task \/ task' = Idle \/ \E p, k, q : task' = ParentTask(p, k, q)
    <3>1. ~ SplitInternal
      BY <1>1, SplitInternalNever
    <3> QED
      BY <1>8, <3>1 DEF TreeGrows, StartNewTree, InsertIntoLeaf, SplitLeaf, GrowRoot, InsertIntoParent
  <2>5. Idle.op = "none" /\ \A p, k, q : ParentTask(p, k, q).op = "parent"
    BY DEF Idle, ParentTask
  <2>6. iter # Closed => task'.op # "rebalance"
    BY <2>4, <2>5 DEF ScanInv
  <2> QED
    BY <1>3, <2>1, <2>3, <2>6 DEF ScanInv
<1>9. CASE \E k \in Key : KeyGoes(k)
  BY <1>6, <1>9 DEF KeyGoes
<1>10. CASE TreeShrinks
  <2>1. task.op = "rebalance" /\ iter' = iter
    BY <1>10 DEF TreeShrinks, AdjustRootAfterDelete, StopRebalancing, BorrowFromLeft, BorrowFromRight,
                 MergeLeft, MergeRight, Rebalancing
  <2> QED
    BY <1>6, <2>1 DEF ScanInv
<1>11. CASE UNCHANGED scanvars
  <2>1. nodes' = nodes /\ task' = task /\ iter' = iter /\ owed' = owed
    BY <1>11 DEF scanvars
  <2>2. Waits(iter, owed)'
    BY <1>1, <2>1, WaitsStill
  <2> QED
    BY <1>3, <2>1, <2>2 DEF ScanInv
<1> QED
  BY <1>4, <1>5, <1>7, <1>8, <1>9, <1>10, <1>11 DEF ScanNext

(* An iterator that is overtaken by insertions, also by those that move    *)
(* the entries of its leaf to a new one, comes by every key that was there *)
(* when it began, from its own place in the chain of leaves on.            *)
THEOREM ScansMissNothing ==
  TwoLevels /\ ~ RemovalsMeanwhile => (ScanSpec => []ScanMissesNothing)
<1> SUFFICES ASSUME TwoLevels, ~ RemovalsMeanwhile PROVE ScanSpec => []ScanMissesNothing
  OBVIOUS
<1>1. ScanInit => ScanInv
  BY InitShape DEF ScanInit, ScanInv, Waits
<1>2. ScanInv /\ [ScanNext]_scanvars => ScanInv'
  BY BPlusTreeConstants, ScanStepKeeps
<1>3. ScanInv => ScanMissesNothing
  BY WaitsAs DEF ScanInv, ScanMissesNothing
<1> QED
  BY <1>1, <1>2, <1>3, PTL DEF ScanSpec
===============================================================================
