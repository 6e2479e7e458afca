--------------------------- MODULE MCHfsmMachine ----------------------------
(* Instances of HfsmMachine over the states 1..3, 0 for none: the forests of *)
(* three states with their initials, up to renaming, some that compile must  *)
(* reject, and every sequence of a few transitions over each.                *)
EXTENDS HfsmBatch

CONSTANTS
    ShortLength,    \* transitions of a definition whose exits vary
    LongLength,     \* transitions of a definition whose exits are all one
    ExitCounts      \* exit actions of a state, where they vary

Tree(root, parent, initial) == [root |-> root, parent |-> parent, initial |-> initial]

Trees ==
    {Tree(1, <<0, 0, 0>>, <<0, 0, 0>>),     \* three top-level leaves
     Tree(1, <<0, 1, 0>>, <<2, 0, 0>>),     \* a composite and a leaf
     Tree(3, <<0, 1, 0>>, <<2, 0, 0>>),     \* the same, started in the leaf
     Tree(1, <<0, 1, 1>>, <<2, 0, 0>>),     \* two siblings
     Tree(1, <<0, 1, 2>>, <<2, 3, 0>>)}     \* a chain

Malformed ==
    {Tree(2, <<0, 1, 0>>, <<2, 0, 0>>),     \* the root initial is not top-level
     Tree(3, <<2, 1, 0>>, <<2, 1, 0>>),     \* a cycle of parents
     Tree(1, <<0, 1, 0>>, <<0, 0, 0>>),     \* a composite without initial
     Tree(1, <<0, 0, 0>>, <<2, 0, 0>>),     \* a leaf with an initial
     Tree(1, <<0, 1, 2>>, <<3, 3, 0>>)}     \* an initial that is no direct child

Edges ==
    [source : States, guard : Guards \cup {NoGuard}, kind : {"Internal"}, target : {NoState},
     actions : {1}]
    \cup
    [source : States, guard : Guards \cup {NoGuard}, kind : {"Local", "External"},
     target : States, actions : {1}]

WithActions(tree, exit, transitions) ==
    [root |-> tree.root, parent |-> tree.parent, initial |-> tree.initial,
     entry |-> [s \in States |-> 1], exit |-> exit, transitions |-> transitions]

MCDefinitions ==
    {WithActions(tree, exit, ts) : tree \in Trees \cup Malformed,
        exit \in [States -> ExitCounts], ts \in BoundedSeq(Edges, ShortLength)}
    \cup
    {WithActions(tree, [s \in States |-> 1], ts) :
        tree \in Trees, ts \in BoundedSeq(Edges, LongLength)}
=============================================================================
