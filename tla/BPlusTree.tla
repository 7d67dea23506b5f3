------------------------------- MODULE BPlusTree -------------------------------
(***************************************************************************)
(* storage/index/b_plus_tree.cxx with storage/page/b_plus_tree_*_page.cxx: *)
(* the tree of an index.  Insert and Remove hold tree_latch_ from their    *)
(* first to their last line, so no two of them overlap; what they do is    *)
(* cut here where they climb one level, because that is where a page that  *)
(* cannot be had makes them stop half way, and where the iterators, which  *)
(* do not take the latch, may look.                                        *)
(*                                                                         *)
(* An entry is its key: the record id in a leaf moves with the key.  A     *)
(* page in the pool, its saved image and its pin are one; pages are        *)
(* allocated lowest number first, since only their identity matters.       *)
(***************************************************************************)
EXTENDS Integers, SequencesExt

CONSTANTS
  Key,                      \* the keys clients use
  LeafMax, InternalMax,     \* ComputeMaxSize of the two kinds of pages
  MaxPage,                  \* bound on the pages of the index
  MaxShort,                 \* bound on the pages left shorter than they may be
  GivesUp,                  \* what may stop for want of a page: "parent",
                            \* "rebalance" and "header", the saving of the
                            \* root; "delete" is a page that cannot be
                            \* deleted because an iterator has it pinned
  Careful                   \* do clients keep away from pages that two
                            \* internal pages have for a child

ASSUME BPlusTreeConstants ==
  /\ Key \subseteq Nat \ {0}
  /\ LeafMax \in Nat /\ LeafMax >= 2
  /\ InternalMax \in Nat /\ InternalMax >= 2
  /\ MaxPage \in Nat /\ MaxShort \in Nat
  /\ GivesUp \subseteq {"parent", "rebalance", "header", "delete"}
  /\ Careful \in BOOLEAN

INVALID_PAGE_ID == 0
Page == 1 .. MaxPage
PageId == Page \cup {INVALID_PAGE_ID}

(* children is empty in a leaf; in an internal page it starts with the     *)
(* leftmost child, so there is one more child than there are keys.         *)
Node == [type : {"LEAF", "INTERNAL"}, parent : PageId, keys : Seq(Key),
         children : Seq(Page), next : PageId]

VARIABLES
  nodes,                    \* the tree pages that are allocated
  root,                     \* root_page_id_
  header_root,              \* root_page_id in the header page
  task                      \* what the holder of tree_latch_ has still to do

vars == <<nodes, root, header_root, task>>

Idle == [op |-> "none", page |-> INVALID_PAGE_ID, key |-> 0,
         new |-> INVALID_PAGE_ID]
ParentTask(old, k, new) ==
  [op |-> "parent", page |-> old, key |-> k, new |-> new]
RebalanceTask(p) == [Idle EXCEPT !.op = "rebalance", !.page = p]

Init ==
  /\ nodes = << >>
  /\ root = INVALID_PAGE_ID
  /\ header_root = INVALID_PAGE_ID
  /\ task = Idle

-------------------------------------------------------------------------------
(* One page.  Positions count from 1; the child at position i is left of   *)
(* the key at position i.                                                  *)

IsLeaf(n) == n.type = "LEAF"
Size(n) == Len(n.keys)
MaxSize(n) == IF IsLeaf(n) THEN LeafMax ELSE InternalMax

HasRoom_OffByOne(n) == Size(n) <= MaxSize(n)

HasRoom(n) == Size(n) < MaxSize(n)

GetMinSize(n) ==
  IF n.parent # INVALID_PAGE_ID THEN MaxSize(n) \div 2
  ELSE IF IsLeaf(n) THEN 1 ELSE 2

NewLeaf(parent, keys, next) ==
  [type |-> "LEAF", parent |-> parent, keys |-> keys, children |-> << >>,
   next |-> next]

NewInternal(parent, keys, children) ==
  [type |-> "INTERNAL", parent |-> parent, keys |-> keys,
   children |-> children, next |-> INVALID_PAGE_ID]

KeyIndex_Upper(n, k) == Cardinality({i \in DOMAIN n.keys : n.keys[i] <= k}) + 1

KeyIndex(n, k) == Cardinality({i \in DOMAIN n.keys : n.keys[i] < k}) + 1

InsertKey(n, k) == [n EXCEPT !.keys = InsertAt(@, KeyIndex(n, k), k)]

RemoveKey(n, k) == [n EXCEPT !.keys = RemoveAt(@, KeyIndex(n, k))]

Lookup_LowerBound(n, k) == n.children[KeyIndex(n, k)]

Lookup(n, k) == n.children[Cardinality({i \in DOMAIN n.keys : n.keys[i] <= k}) + 1]

FindChildIndex(n, child) == SelectInSeq(n.children, LAMBDA c : c = child)

(* InsertAfter looks for the old child and tests the order around it.      *)
CanInsertAfter(n, old, k) ==
  LET i == FindChildIndex(n, old)
  IN  /\ HasRoom(n)
      /\ i # 0
      /\ i <= Size(n) => k <= n.keys[i]
      /\ i > 1 => n.keys[i - 1] <= k

InsertAfter(n, old, k, new) ==
  LET i == FindChildIndex(n, old)
  IN  [n EXCEPT !.keys = InsertAt(@, i, k), !.children = InsertAt(@, i + 1, new)]

RemoveChildAt_KeepsChild(n, i) ==
  [n EXCEPT !.keys = RemoveAt(@, i - 1), !.children = RemoveAt(@, i - 1)]

RemoveChildAt(n, i) ==
  [n EXCEPT !.keys = RemoveAt(@, i - 1), !.children = RemoveAt(@, i)]

Half(n) == Size(n) \div 2

(* The two pages MoveHalfTo makes of a full one, p being the new one.      *)
LeafHalves_CutsChain(n, p) ==
  << NewLeaf(n.parent, SubSeq(n.keys, 1, Half(n)), p),
     NewLeaf(n.parent, SubSeq(n.keys, Half(n) + 1, Size(n)), INVALID_PAGE_ID) >>

LeafHalves(n, p) ==
  << NewLeaf(n.parent, SubSeq(n.keys, 1, Half(n)), p),
     NewLeaf(n.parent, SubSeq(n.keys, Half(n) + 1, Size(n)), n.next) >>

(* The new page starts with the child that the old one ends with.          *)
InternalHalves(n) ==
  << NewInternal(n.parent, SubSeq(n.keys, 1, Half(n)),
                 SubSeq(n.children, 1, Half(n) + 1)),
     NewInternal(n.parent, SubSeq(n.keys, Half(n) + 1, Size(n)),
                 SubSeq(n.children, Half(n) + 1, Size(n) + 1)) >>

(* MoveAllTo leaves a recipient alone that has no room for everything.     *)
Merged(dst, src, separator) ==
  IF IsLeaf(dst)
  THEN IF Size(dst) + Size(src) > LeafMax THEN dst
       ELSE [dst EXCEPT !.keys = @ \o src.keys, !.next = src.next]
  ELSE IF Size(dst) + Size(src) + 1 > InternalMax THEN dst
       ELSE [dst EXCEPT !.keys = @ \o <<separator>> \o src.keys,
                        !.children = @ \o src.children]

-------------------------------------------------------------------------------
(* The pages together.                                                     *)

NewPage(used) == Min(Page \ used)

(* Bound: a split of three levels still finds its pages.                   *)
PagesLeft == Cardinality(Page \ DOMAIN nodes) >= 3

(* Page p of ns comes to hold n.                                           *)
Put(p, n, ns) == [q \in DOMAIN ns \cup {p} |-> IF q = p THEN n ELSE ns[q]]

SetParent(ns, children, p) ==
  [q \in DOMAIN ns |-> IF q \in children THEN [ns[q] EXCEPT !.parent = p]
                                         ELSE ns[q]]

Without(ns, p) == [q \in DOMAIN ns \ {p} |-> ns[q]]

(* DeletePage refuses a page that is pinned.  Its number stays taken; what *)
(* is in it plays no part any more.                                        *)
Deletions == IF "delete" \in GivesUp THEN BOOLEAN ELSE {TRUE}
Deleted(ns, p, deleted) == IF deleted THEN Without(ns, p) ELSE ns

(* PersistRootPageIdLocked fails behind the root's change in memory.       *)
HeaderWrites == IF "header" \in GivesUp THEN BOOLEAN ELSE {TRUE}
PersistRoot(saved) == header_root' = IF saved THEN root' ELSE header_root

Descend(Child(_)) ==
  LET leaf[p \in PageId] ==
        IF p \notin DOMAIN nodes THEN INVALID_PAGE_ID
        ELSE IF IsLeaf(nodes[p]) THEN p
        ELSE leaf[Child(nodes[p])]
  IN  leaf[root]

FindLeafPage(k) == Descend(LAMBDA n : Lookup(n, k))
FindLeftMostLeafPage == Descend(LAMBDA n : n.children[1])

Shared(p) ==
  Cardinality({at \in (DOMAIN nodes) \X (1 .. InternalMax + 1) :
                 /\ at[2] \in DOMAIN nodes[at[1]].children
                 /\ nodes[at[1]].children[at[2]] = p}) > 1

Neighbours(p) ==
  IF nodes[p].parent = INVALID_PAGE_ID THEN {}
  ELSE LET parent == nodes[nodes[p].parent]
           i == FindChildIndex(parent, p)
       IN  {parent.children[j] : j \in {i - 1, i + 1} \cap DOMAIN parent.children}

-------------------------------------------------------------------------------
(* Insert.                                                                 *)

(* StartNewTree and the header write behind it.                            *)
StartNewTree(k) ==
  /\ task = Idle
  /\ root = INVALID_PAGE_ID
  /\ Page \ DOMAIN nodes # {}
  /\ LET p == NewPage(DOMAIN nodes)
     IN  /\ nodes' = Put(p, NewLeaf(INVALID_PAGE_ID, <<k>>, INVALID_PAGE_ID), nodes)
         /\ root' = p
         /\ \E saved \in HeaderWrites : PersistRoot(saved)
  /\ UNCHANGED task

InsertIntoLeaf(k) ==
  /\ task = Idle
  /\ root # INVALID_PAGE_ID
  /\ LET leaf == FindLeafPage(k)
     IN  /\ leaf # INVALID_PAGE_ID
         /\ ~Contains(nodes[leaf].keys, k)
         /\ HasRoom(nodes[leaf])
         /\ nodes' = [nodes EXCEPT ![leaf] = InsertKey(@, k)]
  /\ UNCHANGED <<root, header_root, task>>

SplitLeaf(k) ==
  /\ task = Idle
  /\ root # INVALID_PAGE_ID
  /\ PagesLeft
  /\ LET leaf == FindLeafPage(k)
         new == NewPage(DOMAIN nodes)
         half == LeafHalves(nodes[leaf], new)
         right == k >= Head(half[2].keys)
         left_leaf == IF right THEN half[1] ELSE InsertKey(half[1], k)
         new_leaf == IF right THEN InsertKey(half[2], k) ELSE half[2]
     IN  /\ leaf # INVALID_PAGE_ID
         /\ ~Contains(nodes[leaf].keys, k)
         /\ ~HasRoom(nodes[leaf])
         /\ Careful => ~Shared(leaf)
         /\ nodes' = Put(new, new_leaf, [nodes EXCEPT ![leaf] = left_leaf])
         /\ task' = ParentTask(leaf, Head(new_leaf.keys), new)
  /\ UNCHANGED <<root, header_root>>

(* InsertIntoParent, one call a step.                                      *)
GrowRoot ==
  /\ task.op = "parent"
  /\ nodes[task.page].parent = INVALID_PAGE_ID
  /\ LET p == NewPage(DOMAIN nodes)
         new_root == NewInternal(INVALID_PAGE_ID, <<task.key>>,
                                 <<task.page, task.new>>)
     IN  /\ nodes' = Put(p, new_root, SetParent(nodes, {task.page, task.new}, p))
         /\ root' = p
         /\ \E saved \in HeaderWrites : PersistRoot(saved)
  /\ task' = Idle

InsertIntoParent ==
  /\ task.op = "parent"
  /\ LET p == nodes[task.page].parent
     IN  /\ p # INVALID_PAGE_ID
         /\ HasRoom(nodes[p])
         /\ nodes' = IF CanInsertAfter(nodes[p], task.page, task.key)
                     THEN SetParent([nodes EXCEPT ![p] =
                            InsertAfter(@, task.page, task.key, task.new)],
                            {task.new}, p)
                     ELSE nodes
  /\ task' = Idle
  /\ UNCHANGED <<root, header_root>>

SplitInternal ==
  /\ task.op = "parent"
  /\ LET p == nodes[task.page].parent
         q == NewPage(DOMAIN nodes)
         half == InternalHalves(nodes[p])
         fits == [i \in 1 .. 2 |-> CanInsertAfter(half[i], task.page, task.key)]
         grown(i) == InsertAfter(half[i], task.page, task.key, task.new)
         left == IF fits[1] THEN grown(1) ELSE half[1]
         right == IF ~fits[1] /\ fits[2] THEN grown(2) ELSE half[2]
         split == SetParent(Put(q, right, [nodes EXCEPT ![p] = left]),
                            ToSet(half[2].children), q)
     IN  /\ p # INVALID_PAGE_ID
         /\ ~HasRoom(nodes[p])
         /\ IF fits[1] \/ fits[2]
            THEN /\ nodes' = SetParent(split, {task.new}, IF fits[1] THEN p ELSE q)
                 /\ task' = ParentTask(p, Head(right.keys), q)
            ELSE /\ nodes' = Without(split, q)
                 /\ task' = Idle
  /\ UNCHANGED <<root, header_root>>

-------------------------------------------------------------------------------
(* Remove.                                                                 *)

RemoveFromRoot(k) ==
  /\ task = Idle
  /\ root # INVALID_PAGE_ID
  /\ FindLeafPage(k) = root
  /\ Contains(nodes[root].keys, k)
  /\ LET rest == [nodes EXCEPT ![root] = RemoveKey(@, k)]
     IN  IF rest[root].keys # << >>
         THEN nodes' = rest /\ UNCHANGED <<root, header_root>>
         ELSE /\ root' = INVALID_PAGE_ID
              /\ \E saved \in HeaderWrites, deleted \in Deletions :
                   /\ PersistRoot(saved)
                   /\ nodes' = Deleted(rest, root, saved /\ deleted)
  /\ UNCHANGED task

RemoveFromLeaf(k) ==
  /\ task = Idle
  /\ root # INVALID_PAGE_ID
  /\ LET leaf == FindLeafPage(k)
         rest == RemoveKey(nodes[leaf], k)
         underflow == Size(rest) < GetMinSize(rest)
     IN  /\ leaf \notin {root, INVALID_PAGE_ID}
         /\ Contains(nodes[leaf].keys, k)
         /\ Careful /\ underflow => \A p \in Neighbours(leaf) \cup {leaf} : ~Shared(p)
         /\ nodes' = [nodes EXCEPT ![leaf] = rest]
         /\ task' = IF underflow THEN RebalanceTask(leaf) ELSE Idle
  /\ UNCHANGED <<root, header_root>>

(* RebalanceAfterDelete, one turn of its loop a step.                      *)
AtRoot(p) == p = root \/ nodes[p].parent = INVALID_PAGE_ID

AdjustRootAfterDelete ==
  /\ task.op = "rebalance"
  /\ AtRoot(task.page)
  /\ LET old == nodes[task.page]
         new == IF IsLeaf(old) THEN INVALID_PAGE_ID ELSE old.children[1]
     IN  IF Size(old) > 0
         THEN UNCHANGED <<nodes, root, header_root>>
         ELSE /\ root' = new
              /\ \E saved \in HeaderWrites, deleted \in Deletions :
                   /\ PersistRoot(saved)
                   /\ nodes' = Deleted(SetParent(nodes, {new}, INVALID_PAGE_ID),
                                       task.page, saved /\ deleted)
  /\ task' = Idle

(* The page to rebalance, its parent and where the parent has it.          *)
Current == nodes[task.page]
Parent == nodes[Current.parent]
Position == FindChildIndex(Parent, task.page)

Rebalancing ==
  /\ task.op = "rebalance"
  /\ ~AtRoot(task.page)
  /\ Size(Current) < GetMinSize(Current)
  /\ Position # 0

HasLeft == Position > 1
HasRight == Position < Len(Parent.children)
LeftPage == Parent.children[Position - 1]
RightPage == Parent.children[Position + 1]

(* Nothing to do, or nothing that can be done.                             *)
StopRebalancing ==
  /\ task.op = "rebalance"
  /\ ~AtRoot(task.page)
  /\ ~(Rebalancing /\ (HasLeft \/ HasRight))
  /\ task' = Idle
  /\ UNCHANGED <<nodes, root, header_root>>

(* The write latch of the current page is held, and not for a second time. *)
CanLend(p) ==
  /\ p # task.page
  /\ nodes[p].type = Current.type
  /\ Size(nodes[p]) > GetMinSize(nodes[p])

BorrowFromLeft ==
  /\ Rebalancing
  /\ HasLeft /\ CanLend(LeftPage)
  /\ LET left == nodes[LeftPage]
         separator == Parent.keys[Position - 1]
         lent == IF IsLeaf(left) THEN << >> ELSE <<Last(left.children)>>
         received == IF IsLeaf(left) THEN Last(left.keys) ELSE separator
         left_rest == [left EXCEPT !.keys = Front(@),
                                   !.children = SubSeq(@, 1, Len(@) - Len(lent))]
         grown == [Current EXCEPT !.keys = <<received>> \o @,
                                  !.children = lent \o @]
         parent == [Parent EXCEPT !.keys[Position - 1] = Last(left.keys)]
     IN  nodes' = SetParent([nodes EXCEPT ![LeftPage] = left_rest,
                                          ![task.page] = grown,
                                          ![Current.parent] = parent],
                            ToSet(lent), task.page)
  /\ task' = Idle
  /\ UNCHANGED <<root, header_root>>

BorrowFromRight ==
  /\ Rebalancing
  /\ HasLeft => ~CanLend(LeftPage)
  /\ HasRight /\ CanLend(RightPage)
  /\ LET right == nodes[RightPage]
         separator == Parent.keys[Position]
         lent == IF IsLeaf(right) THEN << >> ELSE <<Head(right.children)>>
         received == IF IsLeaf(right) THEN Head(right.keys) ELSE separator
         risen == IF IsLeaf(right) THEN right.keys[2] ELSE Head(right.keys)
         right_rest == [right EXCEPT !.keys = Tail(@),
                          !.children = SubSeq(@, Len(lent) + 1, Len(@))]
         grown == [Current EXCEPT !.keys = Append(@, received),
                                  !.children = @ \o lent]
         parent == [Parent EXCEPT !.keys[Position] = risen]
     IN  nodes' = SetParent([nodes EXCEPT ![RightPage] = right_rest,
                                          ![task.page] = grown,
                                          ![Current.parent] = parent],
                            ToSet(lent), task.page)
  /\ task' = Idle
  /\ UNCHANGED <<root, header_root>>

(* The page at position i of the parent goes into the one before it.       *)
MergeInto_KeepsParents(dst, src, i) ==
  LET merged == Merged(nodes[dst], nodes[src], Parent.keys[i - 1])
      joined == [nodes EXCEPT ![dst] = merged,
                              ![Current.parent] = RemoveChildAt(Parent, i)]
  IN  \E deleted \in Deletions :
        /\ nodes' = Deleted(joined, src, deleted)
        /\ task' = IF deleted THEN RebalanceTask(Current.parent) ELSE Idle

MergeInto(dst, src, i) ==
  LET merged == Merged(nodes[dst], nodes[src], Parent.keys[i - 1])
      joined == SetParent([nodes EXCEPT ![dst] = merged,
                                        ![Current.parent] = RemoveChildAt(Parent, i)],
                          ToSet(merged.children), dst)
  IN  \E deleted \in Deletions :
        /\ nodes' = Deleted(joined, src, deleted)
        /\ task' = IF deleted THEN RebalanceTask(Current.parent) ELSE Idle

MergeLeft ==
  /\ Rebalancing
  /\ HasLeft /\ ~CanLend(LeftPage) /\ LeftPage # task.page
  /\ HasRight => ~CanLend(RightPage)
  /\ MergeInto(LeftPage, task.page, Position)
  /\ UNCHANGED <<root, header_root>>

MergeRight ==
  /\ Rebalancing
  /\ ~HasLeft
  /\ HasRight /\ ~CanLend(RightPage) /\ RightPage # task.page
  /\ MergeInto(task.page, RightPage, Position + 1)
  /\ UNCHANGED <<root, header_root>>

-------------------------------------------------------------------------------
(* A page that is needed cannot be fetched or allocated: the operation     *)
(* returns false and leaves things as they are.                            *)
ShortPages == {p \in DOMAIN nodes \ {root} : Size(nodes[p]) < GetMinSize(nodes[p])}

StepFails ==
  /\ task.op \in GivesUp
  /\ Cardinality(ShortPages) <= MaxShort
  /\ task' = Idle
  /\ UNCHANGED <<nodes, root, header_root>>

(* The index is opened again from its header page.                         *)
Reopen ==
  /\ task = Idle
  /\ root' = header_root
  /\ UNCHANGED <<nodes, header_root, task>>

Next ==
  \/ \E k \in Key : \/ StartNewTree(k) \/ InsertIntoLeaf(k) \/ SplitLeaf(k)
                   \/ RemoveFromRoot(k) \/ RemoveFromLeaf(k)
  \/ GrowRoot \/ InsertIntoParent \/ SplitInternal
  \/ AdjustRootAfterDelete \/ StopRebalancing
  \/ BorrowFromLeft \/ BorrowFromRight \/ MergeLeft \/ MergeRight
  \/ StepFails
  \/ Reopen

Spec == Init /\ [][Next]_vars

-------------------------------------------------------------------------------
(* Reading.                                                                *)

KeysFrom(p) ==
  LET rest[q \in PageId] ==
        IF q \notin DOMAIN nodes THEN << >>
        ELSE IF ~IsLeaf(nodes[q]) THEN << >>
        ELSE nodes[q].keys \o rest[nodes[q].next]
  IN  rest[p]

(* What an iterator from Begin() on yields when nobody changes the tree.   *)
Scan == KeysFrom(FindLeftMostLeafPage)

(* The same from Begin(k) on.                                              *)
ScanFrom(k) ==
  LET leaf == FindLeafPage(k)
  IN  IF leaf = INVALID_PAGE_ID THEN << >>
      ELSE SubSeq(nodes[leaf].keys, KeyIndex(nodes[leaf], k), Size(nodes[leaf]))
             \o KeysFrom(nodes[leaf].next)

(* How many keys a whole scan yields before it comes to k.                 *)
KeysBelow(k) == Cardinality({i \in DOMAIN Scan : Scan[i] < k})

(* GetValue.                                                               *)
Finds(k) ==
  LET leaf == FindLeafPage(k)
  IN  leaf # INVALID_PAGE_ID /\ Contains(nodes[leaf].keys, k)

-------------------------------------------------------------------------------
(* Properties.                                                             *)

(* Every page is one of the two kinds, with no more entries than it has    *)
(* room for and one more child than keys.                                  *)
TypeOK ==
  /\ DOMAIN nodes \subseteq Page
  /\ \A p \in DOMAIN nodes :
       /\ nodes[p] \in Node
       /\ Size(nodes[p]) <= MaxSize(nodes[p])
       /\ ~IsLeaf(nodes[p]) => Len(nodes[p].children) = Size(nodes[p]) + 1
  /\ root \in PageId
  /\ header_root \in PageId
  /\ task \in [op : {"none", "parent", "rebalance"}, page : PageId,
               key : Key \cup {0}, new : PageId]

(* The separators lead to every key that the leaves hold: between two      *)
(* operations GetValue finds exactly the keys that a scan meets.           *)
LookupFindsEveryKey ==
  task = Idle => \A k \in Key : Finds(k) <=> Contains(Scan, k)

(* The chain of leaves is in the order of the keys, also in the middle of  *)
(* an operation, where an iterator may be walking it; between operations a *)
(* scan that starts at a key yields everything from there on.              *)
ScanYieldsKeysInOrder ==
  /\ \A i \in 1 .. Len(Scan) - 1 : Scan[i] < Scan[i + 1]
  /\ task = Idle =>
       \A k \in Key : ScanFrom(k) = SubSeq(Scan, KeysBelow(k) + 1, Len(Scan))

(* Insert refuses a key that is in the tree: no two leaves hold the same   *)
(* one, also after an insertion that could not be finished.                *)
KeysAreUnique ==
  task = Idle =>
    \A p, q \in DOMAIN nodes : \A k \in Key :
      IsLeaf(nodes[p]) /\ IsLeaf(nodes[q]) /\ p # q =>
        ~(Contains(nodes[p].keys, k) /\ Contains(nodes[q].keys, k))

(* Every page but the root has for a parent a page that has it for a       *)
(* child: otherwise its next split or merge is entered somewhere else.     *)
ParentsMatchChildren ==
  task.op # "parent" =>
    \A p \in DOMAIN nodes \ {root} :
      /\ nodes[p].parent \in DOMAIN nodes
      /\ Contains(nodes[nodes[p].parent].children, p)

(* The children of a page are there, and every page that is allocated is   *)
(* the root or somebody's child: nothing is left behind by a merge and     *)
(* nothing deleted while it is in use.                                     *)
NoPageIsLeaked ==
  task.op # "parent" =>
    DOMAIN nodes = (UNION {ToSet(nodes[p].children) : p \in DOMAIN nodes})
                     \cup ({root} \ {INVALID_PAGE_ID})

(* Splits, borrowings and merges leave a tree, and so does a rebalancing   *)
(* that is given up half way because a page it needs cannot be had.  (A    *)
(* split given up for want of a parent, and a merge whose page cannot be   *)
(* deleted, do not: "parent" and "delete" in GivesUp.)                     *)
TreeIsSound == TypeOK /\ ParentsMatchChildren /\ NoPageIsLeaked

(* Every step of the tree is a step of a set of keys: splitting, borrowing *)
(* and merging change nothing, and neither does reopening.                 *)
Abstract == INSTANCE Index WITH keys <- ToSet(Scan)
ImplementsIndex == Abstract!Spec
===============================================================================
