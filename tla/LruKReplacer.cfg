\* Three frames with a history of two accesses each: a frame can be below,
\* at and past the length of its history while the others are elsewhere.
CONSTANTS
  PoolSize = 3
  K = 2
  MaxTimestamp = 5
SPECIFICATION LruSpec
INVARIANTS
  SizeCountsEvictable
PROPERTIES
  VictimFollowsLruK
  ImplementsReplacer
