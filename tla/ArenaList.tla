----------------------------- MODULE ArenaList ------------------------------
(***************************************************************************)
(* The list an arena keeps its chunks in (list.h), beneath Arena: nodes    *)
(* with pointers to their neighbours, a list_t with both ends, and an      *)
(* iterator of the program, which lives on while chunks are added.  The    *)
(* header of a chunk is the data of its node; the model keeps it in        *)
(* `chunks', and its number in the node.                                   *)
(***************************************************************************)
EXTENDS Arena

CONSTANTS
    Node,               \* what the inner allocator gives out for nodes
    Nil,                \* nullptr
    Unused              \* a node nobody has

\* Nil is no node, no list and no iterator; Unused no node's contents.
ASSUME NodeAssumption ==
    /\ Nil \notin Node
    /\ Nil \notin [head : Node \union {Nil}, tail : Node \union {Nil}, len : Nat]
    /\ Nil \notin [cursor : Node \union {Nil}, len : Nat, returned : Seq(Nat)]
    /\ Unused \notin
          [next : Node \union {Nil}, prev : Node \union {Nil}, chunk : Nat]

VARIABLES
    list,               \* the list_t: head, tail, len; or Nil
    node,               \* next, prev and the chunk of each node in use
    iter                \* a List_dynT_Iter and the chunks it returned; or Nil

listVars == <<list, node, iter>>

NewList == [head |-> Nil, tail |-> Nil, len |-> 0]

\* list_node_alloc_size_align: zeroed memory.
NewNode(j) == [next |-> Nil, prev |-> Nil, chunk |-> j]

\* The nodes a walk along next passes, first to last, and how it goes on.
Walk[k \in Nat] ==
    IF k = 0 THEN list.head
    ELSE IF Walk[k - 1] = Nil THEN Nil ELSE node[Walk[k - 1]].next
Walked == {Walk[k] : k \in 0..(MaxChunks - 1)} \ {Nil}

\* list_push_node.  (A slip: the tail stays where it was.)
PushTailKept(n, j) ==
    IF list.head = Nil
    THEN /\ list' = [head |-> n, tail |-> n, len |-> list.len + 1]
         /\ node' = [node EXCEPT ![n] = NewNode(j)]
    ELSE /\ list' = [list EXCEPT !.len = @ + 1]
         /\ node' = [node EXCEPT ![list.tail].next = n,
                                 ![n] = [NewNode(j) EXCEPT !.prev = list.tail]]
PushNode(n, j) ==
    IF list.head = Nil
    THEN /\ list' = [head |-> n, tail |-> n, len |-> list.len + 1]
         /\ node' = [node EXCEPT ![n] = NewNode(j)]
    ELSE /\ list' = [list EXCEPT !.tail = n, !.len = @ + 1]
         /\ node' = [node EXCEPT ![list.tail].next = n,
                                 ![n] = [NewNode(j) EXCEPT !.prev = list.tail]]

-----------------------------------------------------------------------------

ListInit == Init /\ list = Nil /\ node = [n \in Node |-> Unused] /\ iter = Nil

\* list_new_in, called by arena_init.
InitWithList ==
    /\ ArenaInit
    /\ list' = IF open' THEN NewList ELSE Nil
    /\ UNCHANGED <<node, iter>>

AllocPushing(r) ==
    /\ AllocInNewChunk(r)
    /\ \E n \in Node : node[n] = Unused /\ PushNode(n, Len(chunks'))
    /\ UNCHANGED iter

\* list_free, called by arena_deinit, frees the nodes on its way and then the
\* list.  The program gives up its iterator.
DeinitFreeing ==
    /\ Deinit
    /\ node' = [n \in Node |-> IF n \in Walked THEN Unused ELSE node[n]]
    /\ list' = Nil
    /\ iter' = Nil

\* The other calls on the arena leave the list alone.
OnChunks ==
    /\ \/ \E r \in Requests : Alloc(r) \/ AllocNoMemory(r)
       \/ \E b \in 1..MaxBlocks : FreeBlock(b)
       \/ Resize \/ Reset
    /\ UNCHANGED listVars

\* list_iter.
ListIter ==
    /\ Running /\ open
    /\ iter' = [cursor |-> list.head, len |-> list.len, returned |-> <<>>]
    /\ UNCHANGED <<vars, list, node>>

\* list_iter_next.  (A slip: the cursor moves on before it is read.)
Returning(n, cursor) ==
    iter' = [cursor |-> cursor, len |-> (iter.len - 1) % Word,
             returned |-> Append(iter.returned, node[n].chunk)]
NextMoved ==
    /\ iter # Nil /\ iter.cursor # Nil
    /\ node[iter.cursor].next # Nil
    /\ Returning(node[iter.cursor].next, node[iter.cursor].next)
NextNode ==
    /\ iter # Nil /\ iter.cursor # Nil
    /\ Returning(iter.cursor, node[iter.cursor].next)

ListIterNext == Running /\ open /\ NextNode /\ UNCHANGED <<vars, list, node>>

ListNext ==
    \/ InitWithList
    \/ \E r \in Requests : AllocPushing(r)
    \/ DeinitFreeing
    \/ OnChunks
    \/ ListIter
    \/ ListIterNext

ListSpec == ListInit /\ [][ListNext]_<<vars, listVars>>

-----------------------------------------------------------------------------

\* The list is the sequence of the arena's chunks: from the head along next,
\* and as many as len says; every node on it knows the one before; and no
\* node is anywhere else, so that list_free leaks none.
ListHoldsChunks ==
    /\ open = (list # Nil)
    /\ \A n \in Node : node[n] # Unused => open /\ n \in Walked
    /\ open =>
        /\ list.len = Len(chunks)
        /\ \A k \in 1..Len(chunks) :
            /\ Walk[k - 1] # Nil
            /\ node[Walk[k - 1]].chunk = k
            /\ node[Walk[k - 1]].prev = IF k = 1 THEN Nil ELSE Walk[k - 2]
        /\ Walk[Len(chunks)] = Nil

\* An iterator returns the chunks in order, each once, and has returned at
\* least the ones there were when it was made before it ends, whatever is
\* added meanwhile.  (It had len of them then, and counts down, below zero for
\* the ones that were added.)
IterationComplete ==
    iter # Nil =>
        /\ \A k \in DOMAIN iter.returned : iter.returned[k] = k
        /\ iter.cursor = Nil =>
            Len(iter.returned) >= (iter.len + Len(iter.returned)) % Word
        /\ iter.cursor # Nil =>
            node[iter.cursor].chunk = Len(iter.returned) + 1
=============================================================================
