------------------------------- MODULE MCBTree -------------------------------
(***************************************************************************)
(* Instances of BTree for TLC.                                             *)
(***************************************************************************)
EXTENDS BTree

CONSTANT NKeys           \* keys are 1..NKeys

\* Key k carries datum 100 + k.
Pair(k) == <<k, 100 + k>>

\* Every sequence of inserts and removes of the first n keys; key 2 may also be
\* modified.
AllSequences(n) ==
    [prelude |-> << >>,
     calls   |-> {Pair(k) : k \in 1..n} \cup {<<2, 7>>} \cup {<<k>> : k \in 1..n}]

\* From a tree of order 5 with four levels: inserts from the middle outwards,
\* then the leaves are thinned out to two keys each, so that any remove merges.
\* The outer inner nodes have keys to lend, those in the middle have not.
Middle == 88
FourLevels ==
    [prelude |-> [i \in 1..NKeys |->
                     Pair(IF i <= Middle THEN Middle + 1 - i ELSE i)]
                 \o [i \in 1..(2 * (NKeys \div 4)) |->
                        <<4 * ((i + 1) \div 2) - (i % 2)>>],
     calls   |-> {<<73, 7>>} \cup {<<k>> : k \in {21, 33, 69, 73, 81, 105, 121}}]

ShallowAndDeep == {AllSequences(11), FourLevels}
Shallow        == {AllSequences(NKeys)}

NoNul == [k \in 1..NKeys |-> k]

\* Key 5 is key 4 followed by a NUL byte and more: c_str() cuts it to key 4.
WithNul == [k \in 1..NKeys |-> IF k = 5 THEN 4 ELSE k]

\* No step reads last, and scan is a function of tree.
TreeView == <<tree, size, todo, calls>>
=============================================================================
