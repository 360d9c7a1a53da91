-------------------------------- MODULE BTree --------------------------------
(***************************************************************************)
(* kvs::BTree (src/src/btree.cpp): the B+ tree of order M that maps keys   *)
(* to log offsets.  Nodes live in a heap and refer to each other by        *)
(* address, with parent, prev and next pointers as in the code.            *)
(*                                                                         *)
(* The element-wise loops of the code are written as the vector they leave *)
(* behind.  Indices named lf_idx, rm_idx, pa_idx count from 0 as in the    *)
(* code; sequences count from 1.  Addresses are abstract: after every call *)
(* the nodes are renumbered in the order of a traversal.                   *)
(*                                                                         *)
(* A key copied through key.c_str() is cut at its first NUL byte: CStr.    *)
(***************************************************************************)
EXTENDS Integers, FiniteSets, SequencesExt

CONSTANTS M,             \* order of the tree (5 in the code)
          CStr,          \* key.c_str(), as a function on the keys
          Workloads      \* what callers do: [prelude : calls made first, in
                         \* order; calls : those that may follow]; a call is
                         \* insert, <<key, data>>, or remove, <<key>>

VARIABLES tree,          \* [heap, root, bad]: bad after an out-of-range access
          size,          \* _size
          last,          \* the last insert or remove, with its return value
          scan,          \* auxiliary: what a scan of the leaves meets
          todo,          \* the calls of the prelude still to be made
          calls          \* the calls that may follow

vars == <<tree, size, last, scan, todo, calls>>

Nil == 0

ASSUME BTreeAssumption ==
    /\ M \in Nat /\ M >= 3
    /\ \A w \in Workloads :
          \A c \in w.calls \cup Range(w.prelude) : c[1] \in DOMAIN CStr

BNode(parent, leaf, key, child, data) ==
    [parent |-> parent, leaf |-> leaf, key |-> key, child |-> child,
     data |-> data, prev |-> Nil, next |-> Nil]

-----------------------------------------------------------------------------
(* The heap *)

N(s, v) == s.heap[v]

NewAddress(s) ==
    CHOOSE a \in 1..(Cardinality(DOMAIN s.heap) + 1) : a \notin DOMAIN s.heap

New(s, a, node) ==
    [s EXCEPT !.heap = [x \in DOMAIN s.heap \cup {a} |->
                           IF x = a THEN node ELSE s.heap[x]]]
Delete(s, v) == [s EXCEPT !.heap = [x \in DOMAIN s.heap \ {v} |-> s.heap[x]]]

\* key, child and data of node v are replaced; a leaf has a null child per slot.
Nulls(n) == [i \in 1..n |-> Nil]
SetLeaf(s, v, key, data) ==
    [s EXCEPT !.heap[v].key = key, !.heap[v].data = data,
              !.heap[v].child = Nulls(Len(key) + 1)]
SetInner(s, v, key, child) ==
    [s EXCEPT !.heap[v].key = key, !.heap[v].child = child]
SetKey(s, v, i, k) == [s EXCEPT !.heap[v].key[i] = k]
SetNext(s, v, w)   == IF v = Nil THEN s ELSE [s EXCEPT !.heap[v].next = w]
SetPrev(s, v, w)   == IF v = Nil THEN s ELSE [s EXCEPT !.heap[v].prev = w]
SetRoot(s, v)      == [s EXCEPT !.root = v]

\* Mutant of Adopt: moved children keep their parent pointer.
AdoptNothing(s, children, p) == s

\* Every node of children gets parent p.
Adopt(s, children, p) ==
    [s EXCEPT !.heap = [x \in DOMAIN @ |->
        IF x \in Range(children) THEN [@[x] EXCEPT !.parent = p] ELSE @[x]]]

IsFull(s, v) == Len(N(s, v).key) = M - 1
MinKeys      == ((M + 1) \div 2) - 1
\* Mutant of CanLend: a node at its minimum lends, too.
LendsAtMinimum(s, v) == Len(N(s, v).key) >= MinKeys
CanLend(s, v)  == Len(N(s, v).key) >= (M + 1) \div 2

Cut(keys) == [i \in DOMAIN keys |-> CStr[keys[i]]]

-----------------------------------------------------------------------------
(* search *)

\* Mutant of UpperBound: std::lower_bound.
LowerBound(keys, key) == Cardinality({i \in DOMAIN keys : keys[i] < key})

\* std::upper_bound: how many keys are <= key.
UpperBound(keys, key) == Cardinality({i \in DOMAIN keys : keys[i] <= key})

RECURSIVE Descend(_, _, _, _)
Descend(s, v, key, path) ==
    LET i == UpperBound(N(s, v).key, key)
        c == N(s, v).child[i + 1]
    IN IF c = Nil THEN [hot |-> v, idx |-> Append(path, i)]
       ELSE Descend(s, c, key, Append(path, i))

\* found; hot: the leaf; idx: the indices taken on the way down.
Search(s, key) ==
    LET d == Descend(s, s.root, key, << >>)
        i == Last(d.idx)
        found == i > 0 /\ N(s, d.hot).key[i] = key
    IN [found |-> found, hot |-> d.hot,
        idx  |-> IF found THEN [d.idx EXCEPT ![Len(d.idx)] = i - 1] ELSE d.idx,
        data |-> IF found THEN N(s, d.hot).data[i] ELSE -1]

-----------------------------------------------------------------------------
(* insert *)

\* key and the subtree c to its right enter the inner node hot, at the index
\* that ends idx; a full node is split, and its middle key moves up.
RECURSIVE InsertInner(_, _, _, _, _)
InsertInner(s, key, c, hot, idx) ==
    LET lf_idx == Last(idx)
        keys  == InsertAt(N(s, hot).key, lf_idx + 1, key)
        child == InsertAt(N(s, hot).child, lf_idx + 2, c)
        half  == M \div 2
        p     == N(s, hot).parent
        u     == NewAddress(s)
        mi    == keys[half + 1]
        right == SubSeq(child, half + 2, Len(child))
        s1 == New(s, u, BNode(p, FALSE, Cut(SubSeq(keys, half + 2, Len(keys))),
                              right, << >>))
        s2 == SetInner(s1, hot, SubSeq(keys, 1, half), SubSeq(child, 1, half + 1))
        s3 == Adopt(s2, right, u)
    IN IF ~ IsFull(s, hot)
       THEN SetInner(s, hot, InsertAt(N(s, hot).key, lf_idx + 1, CStr[key]), child)
       ELSE IF p = Nil THEN LET r == NewAddress(s3)
                                s4 == New(s3, r, BNode(Nil, FALSE, <<CStr[mi]>>,
                                                       <<hot, u>>, << >>))
                            IN SetRoot(Adopt(s4, <<hot, u>>, r), r)
       ELSE InsertInner(s3, mi, u, p, Front(idx))

\* Key and data enter the full leaf hot: a sibling takes one entry, or the
\* leaf is split.
SolveOverflowLeaf(s, key, data, hot, idx) ==
    LET n      == N(s, hot)
        lf_idx == Last(idx)
        pa_idx == idx[Len(idx) - 1]
        keys   == InsertAt(n.key, lf_idx + 1, key)
        datas  == InsertAt(n.data, lf_idx + 1, data)
        Lends(w) == /\ w # Nil
                    /\ n.parent = N(s, w).parent
                    /\ ~ IsFull(s, w)
        half == M \div 2
        u    == NewAddress(s)
        ukey == Cut(SubSeq(keys, half + 1, M))
        s1 == New(s, u, [BNode(n.parent, TRUE, ukey, Nulls(Len(ukey) + 1),
                               SubSeq(datas, half + 1, M))
                         EXCEPT !.prev = hot, !.next = n.next])
        s2 == SetNext(SetPrev(s1, n.next, u), hot, u)
        s3 == SetLeaf(s2, hot, SubSeq(keys, 1, half), SubSeq(datas, 1, half))
    IN IF Lends(n.prev)
       THEN LET w  == N(s, n.prev)
                t1 == SetLeaf(s, n.prev, Append(w.key, CStr[Head(n.key)]),
                                         Append(w.data, Head(n.data)))
                t2 == SetLeaf(t1, hot, Tail(keys), Tail(datas))
            IN IF lf_idx = 0 THEN [s EXCEPT !.bad = TRUE]
               ELSE SetKey(t2, n.parent, pa_idx, Head(Tail(keys)))
       ELSE IF Lends(n.next)
       THEN LET w  == N(s, n.next)
                t1 == SetLeaf(s, n.next, <<CStr[Last(keys)]>> \o w.key,
                                         <<Last(datas)>> \o w.data)
                t2 == SetLeaf(t1, hot, Front(keys), Front(datas))
            IN SetKey(t2, n.parent, pa_idx + 1, Last(keys))
       ELSE IF n.parent = Nil
       THEN LET r == NewAddress(s3)
                s4 == New(s3, r, BNode(Nil, FALSE, <<CStr[Head(ukey)]>>,
                                       <<hot, u>>, << >>))
            IN SetRoot(Adopt(s4, <<hot, u>>, r), r)
       ELSE InsertInner(s3, Head(ukey), u, n.parent, Front(idx))

\* Mutant of InsertInto: an existing key keeps its datum.
InsertIfAbsent(s, key, data) ==
    LET f == Search(s, key)
        i == Last(f.idx) + 1
        n == N(s, f.hot)
    IN IF f.found THEN s
       ELSE IF IsFull(s, f.hot) THEN SolveOverflowLeaf(s, key, data, f.hot, f.idx)
       ELSE SetLeaf(s, f.hot, InsertAt(n.key, i, key), InsertAt(n.data, i, data))

InsertInto(s, key, data) ==
    LET f == Search(s, key)
        i == Last(f.idx) + 1
        n == N(s, f.hot)
    IN IF f.found THEN [s EXCEPT !.heap[f.hot].data[i] = data]
       ELSE IF IsFull(s, f.hot) THEN SolveOverflowLeaf(s, key, data, f.hot, f.idx)
       ELSE SetLeaf(s, f.hot, InsertAt(n.key, i, key), InsertAt(n.data, i, data))

-----------------------------------------------------------------------------
(* remove *)

\* The inner node hot loses the key at rm_idx (the last index of idx) and the
\* child to its right, which was merged into the node survivor.
RECURSIVE RemoveInner(_, _, _, _)
RemoveInner(s, hot, idx, survivor) ==
    LET n      == N(s, hot)
        p      == n.parent
        rm_idx == Last(idx)
        keys   == RemoveAt(n.key, rm_idx + 1)
        child  == RemoveAt(n.child, rm_idx + 2)
        pa_idx == idx[Len(idx) - 1]
        up     == Front(idx)
        left   == N(s, p).child[pa_idx]
        right  == N(s, p).child[pa_idx + 2]
        onleaves == N(s, n.child[1]).leaf
        hasleft  == pa_idx > 0
        hasright == pa_idx < Len(N(s, p).child) - 1
    IN IF hot = s.root
       THEN IF Len(n.key) <= 1
            THEN Delete(SetRoot(Adopt(s, <<survivor>>, Nil), survivor), hot)
            ELSE SetInner(s, hot, keys, child)
       ELSE IF Len(n.key) > MinKeys THEN SetInner(s, hot, keys, child)
       ELSE IF hasleft /\ CanLend(s, left)
       THEN LET w == N(s, left)
                k == IF onleaves THEN Head(N(s, child[1]).key)
                                 ELSE N(s, p).key[pa_idx]
                s1 == SetInner(s, hot, <<k>> \o keys, <<Last(w.child)>> \o child)
                s2 == Adopt(s1, <<Last(w.child)>>, hot)
                s3 == SetKey(s2, p, pa_idx, Last(w.key))
            IN SetInner(s3, left, Front(w.key), Front(w.child))
       ELSE IF hasright /\ CanLend(s, right)
       THEN LET w == N(s, right)
                k == IF onleaves THEN Head(N(s, Head(w.child)).key)
                                 ELSE N(s, p).key[pa_idx + 1]
                s1 == SetInner(s, hot, Append(keys, k), Append(child, Head(w.child)))
                s2 == Adopt(s1, <<Head(w.child)>>, hot)
                s3 == SetKey(s2, p, pa_idx + 1, Head(w.key))
            IN SetInner(s3, right, Tail(w.key), Tail(w.child))
       ELSE IF hasleft
       THEN LET w == N(s, left)
                k == IF onleaves THEN CStr[Head(N(s, child[1]).key)]
                                 ELSE N(s, p).key[pa_idx]
                s1 == SetInner(s, left, w.key \o <<k>> \o Cut(keys),
                                        w.child \o child)
                s2 == Delete(Adopt(s1, child, left), hot)
            IN RemoveInner(s2, p, [up EXCEPT ![Len(up)] = pa_idx - 1], left)
       ELSE IF hasright
       THEN LET w == N(s, right)
                k == IF onleaves THEN Head(N(s, Head(w.child)).key)
                                 ELSE N(s, p).key[pa_idx + 1]
                s1 == SetInner(s, hot, keys \o <<k>> \o Cut(w.key),
                                       child \o w.child)
                s2 == Delete(Adopt(s1, w.child, hot), right)
            IN RemoveInner(s2, p, up, hot)
       ELSE [s EXCEPT !.bad = TRUE]

\* The leaf hot, at its minimum, loses the entry at rm_idx: a sibling lends
\* one, or the two are merged.
SolveUnderflowLeaf(s, hot, idx) ==
    LET n      == N(s, hot)
        p      == n.parent
        rm_idx == Last(idx)
        pa_idx == idx[Len(idx) - 1]
        up     == Front(idx)
        keys   == RemoveAt(n.key, rm_idx + 1)
        datas  == RemoveAt(n.data, rm_idx + 1)
        hasleft  == pa_idx > 0
        hasright == pa_idx < Len(N(s, p).child) - 1
    IN IF hasleft /\ CanLend(s, n.prev)
       THEN LET w  == N(s, n.prev)
                s1 == SetLeaf(s, hot, <<Last(w.key)>> \o keys,
                                      <<Last(w.data)>> \o datas)
                s2 == SetLeaf(s1, n.prev, Front(w.key), Front(w.data))
            IN SetKey(s2, p, pa_idx, Last(w.key))
       ELSE IF hasright /\ CanLend(s, n.next)
       THEN LET w  == N(s, n.next)
                s1 == SetLeaf(s, hot, Append(keys, Head(w.key)),
                                      Append(datas, Head(w.data)))
                s2 == SetLeaf(s1, n.next, Tail(w.key), Tail(w.data))
                s3 == SetKey(s2, p, pa_idx + 1, Head(Tail(w.key)))
            IN IF hasleft /\ rm_idx = 0
               THEN SetKey(s3, p, pa_idx, Head(N(s3, hot).key)) ELSE s3
       ELSE IF hasleft
       THEN LET w  == N(s, n.prev)
                s1 == SetLeaf(s, n.prev, w.key \o Cut(keys), w.data \o datas)
                s2 == SetPrev(SetNext(s1, n.prev, n.next), n.next, n.prev)
            IN RemoveInner(Delete(s2, hot), p,
                           [up EXCEPT ![Len(up)] = pa_idx - 1], n.prev)
       ELSE IF hasright
       THEN LET w  == N(s, n.next)
                s1 == SetLeaf(s, hot, keys \o <<Head(w.key)>> \o Cut(Tail(w.key)),
                                      datas \o w.data)
                s2 == SetPrev(SetNext(s1, hot, w.next), w.next, hot)
            IN RemoveInner(Delete(s2, n.next), p, up, hot)
       ELSE [s EXCEPT !.bad = TRUE]

\* Mutant of RemoveFrom: the update of the parent, which a comment calls not
\* necessary, is left out.
RemoveWithoutUpdate(s, key) ==
    LET f == Search(s, key)
        i == Last(f.idx) + 1
        n == N(s, f.hot)
    IN IF ~ f.found THEN s
       ELSE IF f.hot # s.root /\ Len(n.key) <= MinKeys
       THEN SolveUnderflowLeaf(s, f.hot, f.idx)
       ELSE SetLeaf(s, f.hot, RemoveAt(n.key, i), RemoveAt(n.data, i))

RemoveFrom(s, key) ==
    LET f == Search(s, key)
        i == Last(f.idx) + 1
        n == N(s, f.hot)
        s1 == SetLeaf(s, f.hot, RemoveAt(n.key, i), RemoveAt(n.data, i))
    IN IF ~ f.found THEN s
       ELSE IF f.hot # s.root /\ Len(n.key) <= MinKeys
       THEN SolveUnderflowLeaf(s, f.hot, f.idx)
       ELSE IF f.hot # s.root /\ i = 1 /\ f.idx[Len(f.idx) - 1] > 0
       THEN SetKey(s1, n.parent, f.idx[Len(f.idx) - 1], Head(N(s1, f.hot).key))
       ELSE s1

-----------------------------------------------------------------------------
(* Traversals *)

\* The nodes below v, parents first.
RECURSIVE Preorder(_, _)
Preorder(s, v) ==
    IF v \notin DOMAIN s.heap THEN << >>
    ELSE <<v>> \o FlattenSeq([i \in DOMAIN N(s, v).child |->
                                 Preorder(s, N(s, v).child[i])])

Reachable(s) == Range(Preorder(s, s.root))

\* The leaves in child order.
Leaves(s) == SelectSeq(Preorder(s, s.root), LAMBDA v : N(s, v).leaf)

\* The leaves along the next pointers, from leaf v.
RECURSIVE Chain(_, _)
Chain(s, v) == IF v = Nil THEN << >> ELSE <<v>> \o Chain(s, N(s, v).next)

RECURSIVE FirstLeaf(_, _)
FirstLeaf(s, v) == IF N(s, v).leaf THEN v ELSE FirstLeaf(s, N(s, v).child[1])

\* The pairs visit and _gc meet: every leaf of the chain, slot by slot.
RECURSIVE EntriesFrom(_, _)
EntriesFrom(s, v) ==
    IF v = Nil THEN << >>
    ELSE LET n == N(s, v)
         IN [j \in DOMAIN n.key |-> <<n.key[j], n.data[j]>>]
            \o EntriesFrom(s, n.next)

Entries(s) == EntriesFrom(s, FirstLeaf(s, s.root))

\* The same tree with its nodes numbered in preorder.
Renumber(s) ==
    LET live  == Preorder(s, s.root)
        order == live \o SetToSeq(DOMAIN s.heap \ Range(live))
        Name(v) == IF v = Nil THEN Nil
                   ELSE IF v \in DOMAIN s.heap
                   THEN CHOOSE i \in DOMAIN order : order[i] = v
                   ELSE -1
    IN [root |-> Name(s.root),
        bad  |-> s.bad,
        heap |-> [i \in DOMAIN order |->
                    LET n == N(s, order[i])
                    IN [n EXCEPT !.parent = Name(@), !.prev = Name(@),
                                 !.next = Name(@),
                                 !.child = [j \in DOMAIN @ |-> Name(@[j])]]]]

-----------------------------------------------------------------------------
(* The specification *)

EmptyTree ==
    [heap |-> [a \in {1} |-> BNode(Nil, TRUE, << >>, <<Nil>>, << >>)],
     root |-> 1, bad |-> FALSE]

Init ==
    /\ tree = EmptyTree /\ size = 0
    /\ last = << >> /\ scan = << >>
    /\ \E w \in Workloads : todo = w.prelude /\ calls = w.calls

\* Mutant of CallInsert: a modified key is counted again.
CallInsertCounting(key, data) ==
    /\ ~ tree.bad
    /\ tree' = Renumber(InsertInto(tree, key, data))
    /\ scan' = Entries(tree')
    /\ size' = size + 1
    /\ last' = <<"insert", key, data,
                 IF Search(tree, key).found THEN 0 ELSE 1>>

CallInsert(key, data) ==
    LET new == ~ Search(tree, key).found
    IN /\ ~ tree.bad
       /\ tree' = Renumber(InsertInto(tree, key, data))
       /\ scan' = Entries(tree')
       /\ size' = IF new THEN size + 1 ELSE size
       /\ last' = <<"insert", key, data, IF new THEN 1 ELSE 0>>

CallRemove(key) ==
    LET found == Search(tree, key).found
    IN /\ ~ tree.bad
       /\ tree' = Renumber(RemoveFrom(tree, key))
       /\ scan' = Entries(tree')
       /\ size' = IF found THEN size - 1 ELSE size
       /\ last' = <<"remove", key, IF found THEN 1 ELSE 0>>

Call(c) ==
    \/ Len(c) = 2 /\ CallInsert(c[1], c[2])
    \/ Len(c) = 1 /\ CallRemove(c[1])

Next ==
    /\ \/ todo # << >> /\ Call(Head(todo)) /\ todo' = Tail(todo)
       \/ todo = << >> /\ (\E c \in calls : Call(c)) /\ UNCHANGED todo
    /\ UNCHANGED calls

Spec == Init /\ [][Next]_vars

-----------------------------------------------------------------------------
(* Properties *)

\* The nodes are shaped as BNode documents: fill bounds, one more child than
\* keys, one datum per key in a leaf, keys in increasing order.
NodesWellFormed ==
    \A v \in Reachable(tree) :
        LET n == N(tree, v)
        IN /\ Len(n.key) <= M - 1
           /\ v # tree.root => Len(n.key) >= MinKeys
           /\ Len(n.child) = Len(n.key) + 1
           /\ n.leaf => Len(n.data) = Len(n.key)
           /\ \A i \in 1..(Len(n.key) - 1) : n.key[i] < n.key[i + 1]

\* The pointers agree with each other: parent is the inverse of child, the
\* prev/next chain runs through the leaves in child order, all leaves are
\* equally deep, and every allocated node is in the tree.
RECURSIVE Depth(_, _)
Depth(s, v) == IF v = Nil THEN 0 ELSE 1 + Depth(s, N(s, v).parent)

PointersConsistent ==
    /\ Reachable(tree) = DOMAIN tree.heap
    /\ N(tree, tree.root).parent = Nil
    /\ \A v \in Reachable(tree) : ~ N(tree, v).leaf =>
          \A i \in DOMAIN N(tree, v).child :
             N(tree, N(tree, v).child[i]).parent = v
    /\ LET L == Leaves(tree)
       IN /\ Chain(tree, L[1]) = L
          /\ N(tree, L[1]).prev = Nil
          /\ \A i \in 2..Len(L) : N(tree, L[i]).prev = L[i - 1]
          /\ \A i \in DOMAIN L : Depth(tree, L[i]) = Depth(tree, L[1])

\* A separator right above the leaves is the first key of the leaf to its
\* right.  The rotation in solve_overflow_leaf depends on it: with a smaller
\* separator lf_idx - 1 would wrap around.
SeparatorsTight ==
    /\ ~ tree.bad
    /\ \A v \in Reachable(tree) :
          LET n == N(tree, v)
          IN ~ n.leaf => \A i \in DOMAIN n.key :
               LET c == N(tree, n.child[i + 1])
               IN c.leaf => n.key[i] = Head(c.key)

\* search finds exactly the pairs that a scan of the leaves meets.
SearchComplete ==
    LET pairs == Range(scan)
    IN \A k \in {c[1] : c \in calls} :
          LET f == Search(tree, k)
          IN {e \in pairs : e[1] = k} = IF f.found THEN {<<k, f.data>>} ELSE {}

\* The leaf scan is sorted, without repetition, and size() counts it.
ScanSorted ==
    /\ size = Len(scan)
    /\ \A i \in 1..(Len(scan) - 1) : scan[i][1] < scan[i + 1][1]

\* insert and remove have the effect and the return value that btree.h
\* documents, on the map that a scan of the leaves meets.
Index == INSTANCE OrderedIndex
             WITH map <- Range(scan), count <- size,
                  Calls <- UNION {w.calls \cup Range(w.prelude) : w \in Workloads}
ImplementsOrderedIndex == Index!Spec
=============================================================================
