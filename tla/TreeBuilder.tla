---------------------------- MODULE TreeBuilder ----------------------------
(***************************************************************************)
(* NodeBuilder (util/builder.rs of the parser crate): the stack of open    *)
(* nodes of the syntax tree.  A token is the index of its lexeme and has   *)
(* text of length 1; a finished node keeps its kind, its span and the      *)
(* tokens below it, in order.                                              *)
(***************************************************************************)
EXTENDS Integers, Sequences, SequencesExt

(* The children of a node: tokens and finished nodes.                      *)
Token(i) == [kind |-> "token", start |-> 0, end |-> 0, leaves |-> <<i>>]
IntoNode(work) == [kind |-> work.kind, start |-> work.start, end |-> work.end,
                   leaves |-> FlattenSeq([i \in DOMAIN work.children |->
                                             work.children[i].leaves])]
WorkNode(kind, start, end, children) ==
    [kind |-> kind, start |-> start, end |-> end, children |-> children]

NewBuilder == <<WorkNode("Root", 0, 0, <<>>)>>

StartNode(nodes, kind) ==
    LET pos == Last(nodes).end IN Append(nodes, WorkNode(kind, pos, pos, <<>>))

Pushed(work, child, end) ==
    [work EXCEPT !.children = Append(@, child), !.end = end]

(* The finished node becomes the last child of the node below it.          *)
EndNode(nodes) ==
    LET node  == IntoNode(Last(nodes))
        below == Front(nodes)
    IN  [below EXCEPT ![Len(below)] = Pushed(@, node, node.end)]

(* The tokens first..last are added to the node on top.                    *)
WithTokens(work, tokens) ==
    [work EXCEPT !.children = @ \o tokens, !.end = @ + Len(tokens)]
Feed(nodes, first, last) ==
    LET tokens == [i \in 1..(last - first + 1) |-> Token(first + i - 1)]
    IN  [nodes EXCEPT ![Len(nodes)] = WithTokens(@, tokens)]

(* Mutant: the index behind the current node.                              *)
CheckpointBehind(nodes) == [node |-> Len(nodes) + 1,
                            child_count |-> Len(Last(nodes).children),
                            start |-> Last(nodes).end]
Checkpoint(nodes) == [node |-> Len(nodes),
                      child_count |-> Len(Last(nodes).children),
                      start |-> Last(nodes).end]

(* Mutant: the tokens after the last node are forgotten.                   *)
EndOfNodesOnly(children, start) ==
    LET isNode(c) == c.kind # "token"
        lastNode == SelectLastInSeq(children, isNode)
    IN  IF lastNode = 0 THEN start ELSE children[lastNode].end

(* Where a node ends that adopts the children: after its last node and the *)
(* tokens that follow it.                                                  *)
EndOf(children, start) ==
    LET isNode(c) == c.kind # "token"
        lastNode == SelectLastInSeq(children, isNode)
    IN  (IF lastNode = 0 THEN start ELSE children[lastNode].end)
        + (Len(children) - lastNode)

(* A node is opened below the nodes opened since the checkpoint; it adopts *)
(* the children the checkpoint's node has got since.                       *)
StartNodeAt(nodes, kind, loc) ==
    LET parent  == nodes[loc.node]
        adopted == SubSeq(parent.children, loc.child_count + 1, Len(parent.children))
        rest    == [nodes EXCEPT ![loc.node].children = SubSeq(@, 1, loc.child_count)]
    IN  InsertAt(rest, loc.node + 1,
                 WorkNode(kind, loc.start, EndOf(adopted, loc.start), adopted))

(* All tokens in the tree under construction, in order.                    *)
Leaves(nodes) == FlattenSeq([n \in DOMAIN nodes |-> IntoNode(nodes[n]).leaves])
=============================================================================
