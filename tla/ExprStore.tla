----------------------------- MODULE ExprStore -----------------------------
(***************************************************************************)
(* The store of hash-consed expression nodes (src/formal/BoolExprCache.cpp) *)
(* under the worker threads that build clauses in parallel.  A factory call *)
(* first folds; what is left is a lookup in a concurrent map, on a miss the *)
(* construction of a node outside any lock, and an insertion that another   *)
(* worker may have won in the meantime.  Every later comparison of          *)
(* expressions is a comparison of the addresses returned here.              *)
(*                                                                          *)
(* A synchronous embedding call swaps in a store of its own and swaps the   *)
(* former one back (BoolExprCache::ScopedContext); a finished run frees the *)
(* store (BoolExprCache::destroy).                                          *)
(***************************************************************************)
EXTENDS ExprTrees, Functions

CONSTANTS
    Workers,
    Addresses,      \* where a node may be allocated; 0 is the null pointer
    Layouts,        \* where the leaves may lie to begin with: identifier -> address
    Ops,            \* the factories called
    MaxCalls        \* bound: factory calls

\* What is asked of the constants; modules that instantiate this one assume it.
AddressAssumption == Addresses \subseteq Nat \ {0}
LayoutAssumption ==
    \A at \in Layouts : at \in Injection({0, 1} \cup Vars, Addresses)

Null == 0

VARIABLES
    heap,       \* allocated nodes by address
    table,      \* the concurrent map: key -> address of the interned node
    returned,   \* <<call, address>>: the calls answered so far
    worker,     \* what each worker is doing
    outer,      \* <<>>, or the store put aside by a ScopedContext
    calls       \* factory calls made so far

vars == <<heap, table, returned, worker, outer, calls>>

EmptyMap == [k \in {} |-> Null]
Idle == [pc |-> "idle"]

Known == {r[2] : r \in returned}

-----------------------------------------------------------------------------
(* Reading the heap.  Nodes are never changed once constructed.            *)

OuterKnown == {r[2] : r \in UNION {outer[i].returned : i \in DOMAIN outer}}

RECURSIVE Unfold(_)
Unfold(p) ==
    LET n == heap[p]
    IN  CASE n.op = "VAR" -> <<"VAR", n.id>>
          [] n.op = "NOT" -> <<"NOT", Unfold(n.left)>>
          [] OTHER -> <<n.op, Unfold(n.left), Unfold(n.right)>>

\* operator< on the nodes at two addresses: children are compared by address
\* first, by structure if the addresses differ.
RECURSIVE NodeLess(_, _)
NodeLess(p, q) ==
    LET a == heap[p]
        b == heap[q]
        childLess(x, y) == IF Null \in {x, y} THEN x = Null /\ y # Null ELSE NodeLess(x, y)
    IN  /\ p # q
        /\ \/ a.hash < b.hash
           \/ /\ a.hash = b.hash
              /\ \/ OpCode[a.op] < OpCode[b.op]
                 \/ /\ a.op = b.op
                    /\ \/ a.id < b.id
                       \/ /\ a.id = b.id
                          /\ \/ a.left # b.left /\ childLess(a.left, b.left)
                             \/ /\ a.left = b.left \/ ~childLess(b.left, a.left)
                                /\ a.right # b.right /\ childLess(a.right, b.right)

NodeLeq(p, q) == ~NodeLess(q, p)

\* BoolExpr's constructor: the smaller operand left.
Construct(k) ==
    LET swap == k.r # Null /\ NodeLeq(k.r, k.l)
        hashes == IF k.l = Null THEN <<>> ELSE IF k.r = Null THEN <<heap[k.l].hash>>
                  ELSE <<heap[k.l].hash, heap[k.r].hash>>
    IN  [op |-> k.op, id |-> k.id,
         left |-> IF swap THEN k.r ELSE k.l, right |-> IF swap THEN k.l ELSE k.r,
         hash |-> MixHash(k.op, k.id, IF swap THEN Reverse(hashes) ELSE hashes)]

\* The map's key: the larger operand first.
TupleKey(k) ==
    LET key(l, r) == <<k.op, k.id, l, r>>
    IN  CASE k.l = Null -> key(k.r, Null)
          [] k.r = Null -> key(k.l, Null)
          [] NodeLeq(k.l, k.r) -> key(k.r, k.l)
          [] OTHER -> key(k.l, k.r)

-----------------------------------------------------------------------------
(* What a factory call comes to: an address at once, or a key to look up.  *)

At(p) == [kind |-> "address", p |-> p]
Get(op, id, l, r) == [kind |-> "get", op |-> op, id |-> id, l |-> l, r |-> r]
GetVar(id) == Get("VAR", id, Null, Null)
\* The factories order the operands of the key by address.
GetPair(op, a, b) == IF b < a THEN Get(op, 0, a, b) ELSE Get(op, 0, b, a)

IsVar(p, id) == heap[p].op = "VAR" /\ heap[p].id = id
IsNotOf(p, q) == heap[p].op = "NOT" /\ heap[p].left = q

CallNot(a) ==
    CASE IsVar(a, 0) \/ IsVar(a, 1) -> GetVar(1 - heap[a].id)
      [] heap[a].op = "NOT" -> At(heap[a].left)
      [] OTHER -> Get("NOT", 0, a, Null)

\* And and Or, with their absorbing and their neutral constant.
CallJunction(op, absorbing, a, b) ==
    CASE IsVar(a, absorbing) \/ IsVar(b, absorbing) -> GetVar(absorbing)
      [] IsVar(a, 1 - absorbing) -> At(b)
      [] IsVar(b, 1 - absorbing) -> At(a)
      [] a = b -> At(a)
      [] IsNotOf(a, b) \/ IsNotOf(b, a) -> GetVar(absorbing)
      [] OTHER -> GetPair(op, a, b)

CallXor(a, b) ==
    CASE IsVar(a, 0) -> At(b)
      [] IsVar(b, 0) -> At(a)
      [] IsVar(a, 1) -> CallNot(b)
      [] IsVar(b, 1) -> CallNot(a)
      [] a = b -> GetVar(0)
      [] OTHER -> GetPair("XOR", a, b)

Fold(call) ==
    CASE call.op = "VAR" -> GetVar(call.args[1])
      [] call.op = "NOT" -> CallNot(call.args[1])
      [] call.op = "AND" -> CallJunction("AND", 0, call.args[1], call.args[2])
      [] call.op = "OR"  -> CallJunction("OR", 1, call.args[1], call.args[2])
      [] call.op = "XOR" -> CallXor(call.args[1], call.args[2])

-----------------------------------------------------------------------------
(* Actions.                                                                *)

Return(w, call, p) ==
    /\ returned' = returned \cup {<<call, p>>}
    /\ worker' = [worker EXCEPT ![w] = Idle]

Busy == {w \in Workers : worker[w].pc # "idle"}

Calls ==
    [op : Ops \cap {"VAR"}, args : {<<v>> : v \in Vars}]
    \cup [op : Ops \cap {"NOT"}, args : {<<p>> : p \in Known}]
    \cup [op : Ops \ {"VAR", "NOT"}, args : Known \X Known]

\* A worker calls a factory on nodes it, or another worker, was given.
Call(w, call) ==
    /\ worker[w] = Idle
    /\ calls < MaxCalls
    /\ calls' = calls + 1
    /\ LET f == Fold(call)
       IN  IF f.kind = "address"
           THEN Return(w, call, f.p)
           ELSE /\ worker' = [worker EXCEPT ![w] = [pc |-> "lookup", call |-> call, key |-> f]]
                /\ UNCHANGED returned
    /\ UNCHANGED <<heap, table, outer>>

Lookup(w) ==
    /\ worker[w].pc = "lookup"
    /\ LET tk == TupleKey(worker[w].key)
       IN  IF tk \in DOMAIN table
           THEN Return(w, worker[w].call, table[tk])
           ELSE worker' = [worker EXCEPT ![w].pc = "construct"] /\ UNCHANGED returned
    /\ UNCHANGED <<heap, table, outer, calls>>

Allocate(w, p) ==
    /\ worker[w].pc = "construct"
    /\ p \notin DOMAIN heap
    /\ heap' = (p :> Construct(worker[w].key)) @@ heap
    /\ worker' = [worker EXCEPT ![w] = [pc |-> "insert", call |-> @.call, key |-> @.key, new |-> p]]
    /\ UNCHANGED <<table, returned, outer, calls>>

\* Variant: the loser of the race keeps its own node.
InsertOwn(w) ==
    /\ worker[w].pc = "insert"
    /\ LET tk == TupleKey(worker[w].key)
           new == worker[w].new
       IN  /\ table' = IF tk \in DOMAIN table THEN table ELSE (tk :> new) @@ table
           /\ Return(w, worker[w].call, new)
    /\ UNCHANGED <<heap, outer, calls>>

\* The insertion that finds the key taken returns the other worker's node; its
\* own node is freed with its only owner.
Insert(w) ==
    /\ worker[w].pc = "insert"
    /\ LET tk == TupleKey(worker[w].key)
           new == worker[w].new
       IN  IF tk \in DOMAIN table
           THEN /\ heap' = Restrict(heap, (DOMAIN heap) \ {new})
                /\ Return(w, worker[w].call, table[tk])
                /\ UNCHANGED table
           ELSE /\ table' = (tk :> new) @@ table
                /\ Return(w, worker[w].call, new)
                /\ UNCHANGED heap
    /\ UNCHANGED <<outer, calls>>

WithoutNodesOf(t) == Restrict(heap, (DOMAIN heap) \ Range(t))

\* BoolExprCache::ScopedContext's constructor.  Its users serialise all use of
\* the store, so no worker is inside a call.
EnterScope ==
    /\ Busy = {} /\ outer = <<>>
    /\ outer' = <<[table |-> table, returned |-> returned]>>
    /\ table' = EmptyMap
    /\ returned' = {}
    /\ UNCHANGED <<heap, worker, calls>>

\* Its destructor frees the inner nodes, then swaps the former table back.
LeaveScope ==
    /\ Busy = {} /\ outer # <<>>
    /\ heap' = WithoutNodesOf(table)
    /\ table' = outer[1].table
    /\ returned' = outer[1].returned
    /\ outer' = <<>>
    /\ UNCHANGED <<worker, calls>>

\* BoolExprCache::destroy at the end of a run, whose callers have dropped the
\* addresses they hold.
Destroy ==
    /\ Busy = {} /\ table # EmptyMap
    /\ heap' = WithoutNodesOf(table)
    /\ table' = EmptyMap
    /\ returned' = {}
    /\ UNCHANGED <<worker, outer, calls>>

\* The leaves are interned.
Init ==
    \E at \in Layouts :
        /\ heap = [p \in Range(at) |->
                    LET id == CHOOSE v \in DOMAIN at : at[v] = p
                    IN [op |-> "VAR", id |-> id, left |-> Null, right |-> Null,
                        hash |-> MixHash("VAR", id, <<>>)]]
        /\ table = [k \in {<<"VAR", v, Null, Null>> : v \in DOMAIN at} |-> at[k[2]]]
        /\ returned = {<<[op |-> "VAR", args |-> <<v>>], at[v]>> : v \in DOMAIN at}
        /\ worker = [w \in Workers |-> Idle]
        /\ outer = <<>>
        /\ calls = 0

Next ==
    \/ \E w \in Workers :
        \/ \E call \in Calls : Call(w, call)
        \/ Lookup(w)
        \/ \E p \in Addresses : Allocate(w, p)
        \/ Insert(w)
    \/ EnterScope \/ LeaveScope \/ Destroy

Spec == Init /\ [][Next]_vars

-----------------------------------------------------------------------------
(* Properties.                                                             *)

TypeOK ==
    /\ DOMAIN heap \subseteq Addresses
    /\ Range(table) \subseteq Addresses
    /\ Known \subseteq Addresses
    /\ \A w \in Workers : worker[w].pc \in {"idle", "lookup", "construct", "insert"}
    /\ Len(outer) <= 1
    /\ calls \in 0..MaxCalls

\* No address handed out is dangling: what a caller holds, in this store or in
\* the one a scope put aside, is an allocated node, and so are its children.
NothingDangles ==
    /\ Known \cup OuterKnown \subseteq DOMAIN heap
    /\ \A p \in DOMAIN heap : {heap[p].left, heap[p].right} \subseteq (DOMAIN heap) \cup {Null}

\* Equal expressions have one address, whichever workers built them and however
\* their calls interleaved: comparing addresses is comparing expressions.
OneAddressPerExpression ==
    \A p, q \in Known : Unfold(p) = Unfold(q) => p = q

\* The node a factory returns is the one the sequential factory on expressions
\* yields: folding through the heap is right, and neither the addresses nor the
\* interleaving shape the result.
ReturnedAsSpecified ==
    \A r \in returned :
        r[1].op # "VAR" =>
            Unfold(r[2]) = Rebuild(r[1].op, [i \in DOMAIN r[1].args |-> Unfold(r[1].args[i])])

\* Equal expressions have one address, no address dangles, and every result is
\* the one of the sequential factories (BoolExprCache).
StoreIsRight == TypeOK /\ NothingDangles /\ OneAddressPerExpression /\ ReturnedAsSpecified
=============================================================================
