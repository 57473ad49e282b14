------------------------------ MODULE JsonValue ------------------------------
(***************************************************************************)
(* JSON values and their reference counts (jansson-2.7/src/value.c and the *)
(* inline functions of jansson.h): what the program holds, what containers *)
(* hold, what is freed with it, and what is left when malloc fails in the  *)
(* middle of a call.                                                       *)
(*                                                                         *)
(* The program passes containers of which it holds a reference.  The hash  *)
(* table of an object is abstracted to a function (see JsonHashtable).     *)
(***************************************************************************)
EXTENDS Integers, Sequences, SequencesExt, FiniteSets, FiniteSetsExt

CONSTANTS
  Addrs,      \* bound: values that fit into memory
  Keys,       \* of objects; valid UTF-8
  Leaves,     \* contents of strings and numbers
  FirstSize,  \* entries that a new array has room for (8 in the code)
  MaxItems,   \* bound: entries of an array
  Failing     \* the malloc of a call that may fail, counted from 0

NoFailure == 99

JsonValueAssumption ==
  /\ Addrs \subseteq Nat \ {0}
  /\ FirstSize \in Nat \ {0} /\ MaxItems \in Nat
  /\ Failing \subseteq Nat /\ NoFailure \in Failing

VARIABLES
  node,   \* address -> type, reference count and content of the value there
  held,   \* address -> references of the program
  fault   \* has freed memory been used?

vars == <<node, held, fault>>

Null == 0    \* true, false and null: never freed, without a count
NULL == -1   \* the pointer

Used == DOMAIN node

------------------------------------------------------------------------------
(* The heap, as calls see it: node and fault; the addresses that there are;    *)
(* and left, the number of mallocs until one fails                            *)

Heap(left) == [node |-> node, fault |-> fault, addrs |-> Addrs, left |-> left]

Malloc(m) == [m EXCEPT !.left = IF @ = 0 THEN NoFailure ELSE @ - 1]
MallocOK(m) == m.left # 0
Full(m) == m.addrs \subseteq DOMAIN m.node
Free(m) == Min(m.addrs \ DOMAIN m.node)

\* what a container holds, in some order
Content(n) ==
  CASE n.type = "array" -> n.items
    [] n.type = "object" -> LET ks == SetToSeq(DOMAIN n.items)
                            IN  [i \in DOMAIN ks |-> n.items[ks[i]]]
    [] OTHER -> <<>>

json_incref(m, a) ==
  IF a \in {Null, NULL} THEN m
  ELSE IF a \notin DOMAIN m.node THEN [m EXCEPT !.fault = TRUE]
  ELSE [m EXCEPT !.node[a].refs = @ + 1]

\* json_decref of several values in turn; json_delete goes on with what they hold
RECURSIVE Release(_, _)
Release(m, todo) ==
  IF todo = <<>> THEN m
  ELSE LET a == Head(todo)
       IN  IF a \in {Null, NULL} THEN Release(m, Tail(todo))
           ELSE IF a \notin DOMAIN m.node THEN [m EXCEPT !.fault = TRUE]
           ELSE IF m.node[a].refs > 1
             THEN Release([m EXCEPT !.node[a].refs = @ - 1], Tail(todo))
           ELSE Release([m EXCEPT !.node = [b \in DOMAIN @ \ {a} |-> @[b]]],
                        Content(m.node[a]) \o Tail(todo))

json_decref(m, a) == Release(m, <<a>>)

\* json_object, json_array, json_string, json_integer, json_real: the new value's
\* address in ret
Create(m, type, items) ==
  IF MallocOK(m) /\ ~Full(m)
  THEN [heap |-> [Malloc(m) EXCEPT !.node = [b \in DOMAIN @ \cup {Free(m)} |->
                    IF b = Free(m)
                    THEN [type |-> type, refs |-> 1, items |-> items, size |-> FirstSize]
                    ELSE @[b]]],
        ret |-> Free(m)]
  ELSE [heap |-> Malloc(m), ret |-> NULL]

------------------------------------------------------------------------------
(* Objects: calls return the heap and 0 or -1 *)

Fail(m, v) == [heap |-> json_decref(m, v), ret |-> -1]
Done(m) == [heap |-> m, ret |-> 0]

\* mutant: the check for the object itself comes without giving the value back
json_object_set_newLeaks(m, o, k, v) ==
  IF v = NULL \/ o = v THEN [heap |-> m, ret |-> -1]
  ELSE LET items == m.node[o].items
       IN  IF k \in DOMAIN items
           THEN Done([json_decref(m, items[k]) EXCEPT !.node[o].items[k] = v])
           ELSE IF ~MallocOK(m) THEN Fail(Malloc(m), v)
           ELSE Done([Malloc(m) EXCEPT !.node[o].items =
                        [j \in DOMAIN @ \cup {k} |-> IF j = k THEN v ELSE @[j]]])

\* the reference to v belongs to the object or is given back
json_object_set_new(m, o, k, v) ==
  IF v = NULL THEN [heap |-> m, ret |-> -1]
  ELSE IF o = v THEN Fail(m, v)
  ELSE LET items == m.node[o].items
       IN  IF k \in DOMAIN items
           THEN Done([json_decref(m, items[k]) EXCEPT !.node[o].items[k] = v])
           ELSE IF ~MallocOK(m) THEN Fail(Malloc(m), v)
           ELSE Done([Malloc(m) EXCEPT !.node[o].items =
                        [j \in DOMAIN @ \cup {k} |-> IF j = k THEN v ELSE @[j]]])

json_object_set(m, o, k, v) == json_object_set_new(json_incref(m, v), o, k, v)

json_object_del(m, o, k) ==
  LET items == m.node[o].items
  IN  IF k \notin DOMAIN items THEN [heap |-> m, ret |-> -1]
      ELSE Done([json_decref(m, items[k]) EXCEPT !.node[o].items =
                   [j \in DOMAIN items \ {k} |-> items[j]]])

json_object_clear(m, o) ==
  Done([Release(m, Content(m.node[o])) EXCEPT !.node[o].items = <<>>])

\* some keys of another object; json_object_update stops at the first failure, the
\* other two go on
Updated(m, o, other, keys, stops) ==
  LET step(r, k) ==
        IF r.ret = -1 /\ stops THEN r
        ELSE LET s == json_object_set(r.heap, o, k, m.node[other].items[k])
             IN  [s EXCEPT !.ret = IF stops THEN @ ELSE 0]
  IN  FoldLeft(step, Done(m), SetToSeq(keys))

json_object_update(m, o, other) ==
  Updated(m, o, other, DOMAIN m.node[other].items, TRUE)
json_object_update_existing(m, o, other) ==
  Updated(m, o, other, DOMAIN m.node[other].items \cap DOMAIN m.node[o].items, FALSE)
json_object_update_missing(m, o, other) ==
  Updated(m, o, other, DOMAIN m.node[other].items \ DOMAIN m.node[o].items, FALSE)

\* no check for the object itself here
json_object_iter_set_new(m, o, k, v) ==
  Done([json_decref(m, m.node[o].items[k]) EXCEPT !.node[o].items[k] = v])

------------------------------------------------------------------------------
(* Arrays; indices begin with 0 in the code *)

\* room for more entries, or no memory: then the array is as it was
json_array_grow(m, a, amount) ==
  LET n == m.node[a]
      double == IF n.size * 2 > n.size + amount THEN n.size * 2 ELSE n.size + amount
  IN  IF Len(n.items) + amount <= n.size THEN Done(m)
      ELSE IF ~MallocOK(m) THEN [heap |-> Malloc(m), ret |-> -1]
      ELSE Done([Malloc(m) EXCEPT !.node[a].size = double])

json_array_set_new(m, a, i, v) ==
  IF v = NULL THEN [heap |-> m, ret |-> -1]
  ELSE IF a = v \/ i > Len(m.node[a].items) THEN Fail(m, v)
  ELSE Done([json_decref(m, m.node[a].items[i]) EXCEPT !.node[a].items[i] = v])

json_array_insert_new(m, a, i, v) ==
  IF v = NULL THEN [heap |-> m, ret |-> -1]
  ELSE IF a = v \/ i > Len(m.node[a].items) + 1 THEN Fail(m, v)
  ELSE LET g == json_array_grow(m, a, 1)
       IN  IF g.ret = -1 THEN Fail(g.heap, v)
           ELSE Done([g.heap EXCEPT !.node[a].items = InsertAt(@, i, v)])

json_array_append_new(m, a, v) ==
  json_array_insert_new(m, a, Len(m.node[a].items) + 1, v)

json_array_remove(m, a, i) ==
  IF i > Len(m.node[a].items) THEN [heap |-> m, ret |-> -1]
  ELSE Done([json_decref(m, m.node[a].items[i]) EXCEPT !.node[a].items = RemoveAt(@, i)])

json_array_clear(m, a) == Done([Release(m, m.node[a].items) EXCEPT !.node[a].items = <<>>])

json_array_extend(m, a, other) ==
  LET items == m.node[other].items
      g == json_array_grow(m, a, Len(items))
  IN  IF g.ret = -1 THEN g
      ELSE Done([FoldLeft(json_incref, g.heap, items) EXCEPT !.node[a].items = @ \o items])

------------------------------------------------------------------------------
(* Leaves, equality and copies *)

\* a new string needs memory, a number is set in place
Assign(m, a, leaf) ==
  IF m.node[a].type = "string" /\ ~MallocOK(m) THEN [heap |-> Malloc(m), ret |-> -1]
  ELSE Done([m EXCEPT !.node[a].items = <<leaf>>])

RECURSIVE json_equal(_, _, _)
json_equal(m, a, b) ==
  LET n == m.node[a]
      o == m.node[b]
  IN  CASE a = NULL \/ b = NULL -> FALSE
        [] a = b -> TRUE
        [] Null \in {a, b} \/ n.type # o.type -> FALSE
        [] n.type \notin {"array", "object"} -> n.items = o.items
        [] OTHER -> /\ DOMAIN n.items = DOMAIN o.items
                    /\ \A i \in DOMAIN n.items : json_equal(m, n.items[i], o.items[i])

\* a new value of a's type: a leaf with its content, or an empty container
Blank(m, a) ==
  Create(m, m.node[a].type,
         IF m.node[a].type \in {"array", "object"} THEN <<>> ELSE m.node[a].items)

Shared(m, v) == [heap |-> json_incref(m, v), ret |-> v]

RECURSIVE json_deep_copy(_, _)
\* the calls that put the entries of value a, or deep copies of them, into a copy c;
\* what they return is ignored
Fill(m, c, a, deep) ==
  LET items == m.node[a].items
      new(h, v) == IF deep THEN json_deep_copy(h, v) ELSE Shared(h, v)
      append(h, v) == LET r == new(h, v)
                      IN  json_array_append_new(r.heap, c, r.ret).heap
      set(h, k) == LET r == new(h, items[k])
                   IN  json_object_set_new(r.heap, c, k, r.ret).heap
  IN  IF m.node[a].type = "array" THEN FoldLeft(append, m, items)
      ELSE FoldLeft(set, m, SetToSeq(DOMAIN items))

json_copy(m, a) ==
  LET c == Blank(m, a)
  IN  IF c.ret = NULL \/ m.node[a].type \notin {"array", "object"} THEN c
      ELSE [c EXCEPT !.heap = Fill(@, c.ret, a, FALSE)]

json_deep_copy(m, a) ==
  LET c == Blank(m, a)
  IN  IF a = Null THEN [heap |-> m, ret |-> Null]
      ELSE IF c.ret = NULL \/ m.node[a].type \notin {"array", "object"} THEN c
      ELSE [c EXCEPT !.heap = Fill(@, c.ret, a, TRUE)]

------------------------------------------------------------------------------
(* The program *)

Own == {a \in Used : held[a] > 0}
Holds(type, a) == a \in Own /\ node[a].type = type

\* the values below S, S included
RECURSIVE Below(_)
Below(S) ==
  LET T == (S \cup UNION {ToSet(Content(node[a])) : a \in S \cap Used}) \ {Null}
  IN  IF T = S THEN S ELSE Below(T)

Cyclic(a) == a \in Below(ToSet(Content(node[a])) \ {Null})

\* the heap after a call, and the references the program has then
Commit(m, h) ==
  /\ node' = m.node
  /\ fault' = m.fault
  /\ held' = h

Keep(r) == Commit(r.heap, held)
Receive(r) == Commit(r.heap, IF r.ret \in {NULL, Null} THEN held ELSE [held EXCEPT ![r.ret] = @ + 1])

New ==
  \E left \in Failing :
    \/ \E type \in {"array", "object"} : Receive(Create(Heap(left), type, <<>>))
    \/ \E leaf \in Leaves : Receive(Create(Heap(left), "string", <<leaf>>))

SetLeaf ==
  \E left \in Failing, a \in Own, leaf \in Leaves :
    Holds("string", a) /\ Keep(Assign(Heap(left), a, leaf))

Decref ==
  \E a \in Own : Commit(json_decref(Heap(NoFailure), a), [held EXCEPT ![a] = @ - 1])

\* a borrowed reference (json_object_get, json_array_get) is made the program's own
Incref ==
  \E a \in Below(Own) \ Own :
    Receive([heap |-> json_incref(Heap(NoFailure), a), ret |-> a])

\* A value that a call stores is one that the program holds, and goes on to hold: a
\* call that takes the reference over (json_object_set_new ...) is followed by Decref.
ObjectSet ==
  \E left \in Failing, o \in Own, k \in Keys, v \in Own \cup {Null} :
    /\ Holds("object", o)
    /\ \/ Keep(json_object_set(Heap(left), o, k, v))
       \/ /\ k \in DOMAIN node[o].items
          /\ left = NoFailure
          /\ Keep(json_object_iter_set_new(json_incref(Heap(left), v), o, k, v))

ObjectRemove ==
  \E o \in Own :
    /\ Holds("object", o)
    /\ \/ \E k \in Keys : Keep(json_object_del(Heap(NoFailure), o, k))
       \/ Keep(json_object_clear(Heap(NoFailure), o))

ObjectUpdate ==
  \E left \in Failing, o, other \in Own :
    /\ Holds("object", o) /\ Holds("object", other)
    /\ \/ Keep(json_object_update(Heap(left), o, other))
       \/ Keep(json_object_update_existing(Heap(left), o, other))
       \/ Keep(json_object_update_missing(Heap(left), o, other))

ArraySet ==
  \E left \in Failing, a, v \in Own :
    /\ Holds("array", a)
    /\ \/ \E i \in 1..MaxItems :
            /\ left = NoFailure
            /\ Keep(json_array_set_new(json_incref(Heap(left), v), a, i, v))
       \/ /\ Len(node[a].items) < MaxItems
          /\ \/ Keep(json_array_append_new(json_incref(Heap(left), v), a, v))
             \/ \E i \in 1..MaxItems :
                  Keep(json_array_insert_new(json_incref(Heap(left), v), a, i, v))

ArrayRemove ==
  \E a \in Own :
    /\ Holds("array", a)
    /\ \/ \E i \in 1..MaxItems : Keep(json_array_remove(Heap(NoFailure), a, i))
       \/ Keep(json_array_clear(Heap(NoFailure), a))

ArrayExtend ==
  \E left \in Failing, a, other \in Own :
    /\ Holds("array", a) /\ Holds("array", other)
    /\ Len(node[a].items) + Len(node[other].items) <= MaxItems
    /\ Keep(json_array_extend(Heap(left), a, other))

\* a cycle would be copied for ever
Copy ==
  \E left \in Failing, a \in Own :
    \/ Receive(json_copy(Heap(left), a))
    \/ /\ \A b \in Below({a}) : ~Cyclic(b)
       /\ Receive(json_deep_copy(Heap(left), a))

Init ==
  /\ node = [a \in {} |-> 0]
  /\ held = [a \in Addrs |-> 0]
  /\ fault = FALSE

Next ==
  /\ ~fault
  /\ \/ New \/ SetLeaf \/ Decref \/ Incref \/ Copy
     \/ ObjectSet \/ ObjectRemove \/ ObjectUpdate
     \/ ArraySet \/ ArrayRemove \/ ArrayExtend

Spec == Init /\ [][Next]_vars

------------------------------------------------------------------------------
(* Properties *)

\* how often a container holds a
Slots(n, a) == Cardinality({i \in DOMAIN n.items : n.items[i] = a})
References(a) ==
  held[a] + FoldSet(LAMBDA b, sum : sum + (IF node[b].type = "string" THEN 0
                                           ELSE Slots(node[b], a)), 0, Used)

\* Every value's count is the number of references to it, also when a call fails half
\* way or puts a container into one of its own entries: nothing is freed while someone
\* refers to it, and nothing but a cycle (and what it holds) outlives the program's
\* last reference.
CountsExact ==
  /\ ~fault
  /\ \A a \in Used :
       /\ node[a].refs = References(a) /\ node[a].refs > 0
       /\ ToSet(Content(node[a])) \subseteq Used \cup {Null}
  /\ LET kept == Below(Own)
     IN  Used \ kept \subseteq Below({a \in Used \ kept : Cyclic(a)})

\* A deep copy for which memory suffices equals its original, and shares nothing with
\* it that can change.  (One that runs out of memory is returned all the same, without
\* what could not be copied.)
DeepCopyEqual ==
  \A a \in {b \in Used : \A c \in Below({b}) : ~Cyclic(c)} :
    LET m == [Heap(NoFailure) EXCEPT !.addrs = @ \cup {b + 10 * i : b \in Addrs, i \in 1..3}]
        r == json_deep_copy(m, a)
        new == DOMAIN r.heap.node \ Used
    IN  /\ r.ret # NULL
        /\ json_equal(r.heap, a, r.ret)
        /\ \A b \in new : ToSet(Content(r.heap.node[b])) \subseteq new \cup {Null}
        /\ \A b \in Used : r.heap.node[b] = node[b]
==============================================================================
