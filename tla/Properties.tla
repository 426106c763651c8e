----------------------------- MODULE Properties -----------------------------
(***************************************************************************)
(* Dimensions and property memory of data instances                        *)
(* (src/src/dlite-entity.c): the size of every dimension, the property     *)
(* dimensions that the shape expressions of the metadata give, and the     *)
(* memory blocks of the properties, through create, resize, set, copy and  *)
(* free, with allocations that fail.                                       *)
(*                                                                         *)
(* The element 0 is zeroed memory; of a string property it is the NULL     *)
(* string and any other element is a string on the heap.  An int wraps at  *)
(* twice IntHalf, a size_t at the square of that.  References to instances *)
(* are those of module InstanceStore: here one call frees an instance.     *)
(***************************************************************************)
EXTENDS Integers, SequencesExt, FiniteSetsExt

CONSTANTS
  Insts,         \* ids of instances
  Metas,         \* metadata: [ndims, props], a property is [shape, string]
  Value(_, _),   \* the value of a shape expression for the dimensions
  Failing(_),    \* does infixcalc() refuse the expression?
  Elems,         \* the elements of properties, 0 among them
  MaxDim,        \* bound: the size of a dimension
  MaxMemb,       \* the largest number of elements that can be allocated
  IntHalf        \* an int is at least -IntHalf and less than IntHalf

ASSUME PropertiesAssumption ==
  /\ 0 \in Elems /\ MaxDim \in Nat
  /\ IntHalf \in Nat /\ IntHalf > 1 /\ MaxMemb \in 0..(IntHalf - 1)

VARIABLES
  inst,    \* the instances: None or [meta, dims, pdims, mem, frozen,
           \* dangling (blocks freed that the instance points to), torn]
  live,    \* strings on the heap, per instance
  fault    \* a call that read or wrote outside of memory or failed an
           \* assertion: [kind, inst, prop]

vars == <<inst, live, fault>>

None == [meta |-> "none"]
NoFault == [kind |-> "none"]
IntMin == -IntHalf

Used == {x \in Insts : inst[x] # None}
Props(m) == DOMAIN m.props
IsArray(m, p) == m.props[p].shape # <<>>
Dims(m) == [1..m.ndims -> 0..MaxDim]

Product(s) ==
  LET product[n \in 0..Len(s)] == IF n = 0 THEN 1 ELSE product[n - 1] * s[n]
  IN  product[Len(s)]
\* The number of elements as a size_t and as an int.
SizeT(s) == Product(s) % (4 * IntHalf * IntHalf)
IntT(s) == ((Product(s) + IntHalf) % (2 * IntHalf)) - IntHalf

\* The strings that a block of elements points to, and all blocks.
Pointers(m, p, elems) == {i \in DOMAIN elems : m.props[p].string /\ elems[i] # 0}
AllPointers(m, mem) == UNION {{p} \X Pointers(m, p, mem[p]) : p \in Props(m)}
Strings(m, p, elems) == Cardinality(Pointers(m, p, elems))
AllStrings(m, mem) == Cardinality(AllPointers(m, mem))

\* The metadata: what dlite_metamodel and the schemas make of them.
IsSequence(s) == Len(s) \in Nat /\ s = [i \in 1..Len(s) |-> s[i]]
ASSUME MetasAssumption == \A m \in Metas :
  /\ m.ndims \in Nat /\ IsSequence(m.props)
  /\ \A p \in Props(m) :
       /\ IsSequence(m.props[p].shape) /\ m.props[p].string \in BOOLEAN
       /\ \A j \in DOMAIN m.props[p].shape : \A dims \in Dims(m) :
            Value(m.props[p].shape[j], dims) \in Int

\* _instance_propdims_eval(): the message is cleared for each expression, so
\* an expression that fails is only noticed when it is the last one.
PropDims(m, dims) ==
  [p \in Props(m) |-> [j \in DOMAIN m.props[p].shape |->
     IF Failing(m.props[p].shape[j]) THEN IntMin ELSE Value(m.props[p].shape[j], dims)]]
Noticed(m) == \E p \in Props(m) : IsArray(m, p) /\ Failing(Last(m.props[p].shape))

Fail == UNCHANGED vars
Stop(kind, x, p) ==
  /\ fault' = [kind |-> kind, inst |-> x, prop |-> p]
  /\ UNCHANGED <<inst, live>>

Init ==
  /\ inst = [x \in Insts |-> None]
  /\ live = [x \in Insts |-> 0]
  /\ fault = NoFault

---------------------------------------------------------------------------
\* A new instance: the arrays are zeroed, and NULL when they have no elements.
New(m, dims) ==
  [meta |-> m, dims |-> dims, pdims |-> PropDims(m, dims),
   mem |-> [p \in Props(m) |-> [i \in 1..SizeT(PropDims(m, dims)[p]) |-> 0]],
   frozen |-> FALSE, dangling |-> {}, torn |-> FALSE]

Creatable(m, dims) ==
  /\ ~Noticed(m)
  /\ \A p \in Props(m) : SizeT(PropDims(m, dims)[p]) <= MaxMemb

\* _instance_create() of a new id.  Where it fails what it allocated is freed:
\* the call that fails changes nothing.
Create(x, m, dims) ==
  /\ inst[x] = None
  /\ \/ /\ Creatable(m, dims)
        /\ inst' = [inst EXCEPT ![x] = New(m, dims)]
        /\ UNCHANGED <<live, fault>>
     \/ Fail

\* dlite_instance_freeze()
Freeze(x) ==
  /\ x \in Used
  /\ inst' = [inst EXCEPT ![x].frozen = TRUE]
  /\ UNCHANGED <<live, fault>>

\* Mutant of FreedStrings: an array is freed without its strings.
FreedStringsOfScalars(x) ==
  LET m == inst[x].meta IN
  Cardinality({s \in AllPointers(m, inst[x].mem) : ~IsArray(m, s[1])})

\* The strings that dlite_instance_free() clears.
FreedStrings(x) == AllStrings(inst[x].meta, inst[x].mem)

\* dlite_instance_free().  A reallocation that failed leaves a pointer to a
\* freed block, or strings that are fewer than the property dimensions say.
\* What a torn instance has lost is not counted any more.
Free(x) ==
  LET m == inst[x].meta
      short == {p \in Props(m) : /\ m.props[p].string /\ inst[x].mem[p] # <<>>
                                 /\ SizeT(inst[x].pdims[p]) > Len(inst[x].mem[p])}
      bad == inst[x].dangling \cup short IN
  /\ x \in Used
  /\ IF bad # {}
     THEN Stop(IF Min(bad) \in short THEN "bounds" ELSE "freed", x, Min(bad))
     ELSE /\ inst' = [inst EXCEPT ![x] = None]
          /\ live' = [live EXCEPT ![x] = IF inst[x].torn THEN 0 ELSE @ - FreedStrings(x)]
          /\ UNCHANGED fault

---------------------------------------------------------------------------
\* dlite_instance_set_dimension_sizes()
NewDims(x, d) == [n \in DOMAIN d |-> IF d[n] >= 0 THEN d[n] ELSE inst[x].dims[n]]

\* Mutant of Resized: all of a block that grows is zeroed.
ResizedZeroed(old, n) ==
  IF n <= 0 THEN <<>>
  ELSE [i \in 1..n |-> IF n < Len(old) THEN old[i] ELSE 0]

\* A block of n elements in the place of the old one.
Resized(old, n) ==
  IF n <= 0 THEN <<>>
  ELSE [i \in 1..n |-> IF i <= Len(old) THEN old[i] ELSE 0]

\* What is wrong with reallocating property p: zeroing starts before the block
\* when its old number of elements was negative, and an assertion fails when a
\* block that is NULL was to have elements.
ResizeFault(x, p, new) ==
  LET n == IntT(new) old == IntT(inst[x].pdims[p]) IN
  CASE ~IsArray(inst[x].meta, p) \/ n = old -> "none"
    [] n > 0 /\ old < 0 -> "bounds"
    [] n <= 0 /\ inst[x].mem[p] = <<>> /\ old # 0 -> "assert"
    [] OTHER -> "none"

\* Mutant of Reallocated: the loop ends before the last property.
ReallocatedButLast(x, pd, p) ==
  [q \in Props(inst[x].meta) |->
     IF ~IsArray(inst[x].meta, q) \/ q = Len(inst[x].meta.props) \/ (p # 0 /\ q >= p)
     THEN inst[x].mem[q]
     ELSE Resized(inst[x].mem[q], IntT(pd[q]))]

\* The properties before p are reallocated, or all of them (p = 0).
Reallocated(x, pd, p) ==
  [q \in Props(inst[x].meta) |->
     IF ~IsArray(inst[x].meta, q) \/ IntT(pd[q]) = IntT(inst[x].pdims[q]) \/ (p # 0 /\ q >= p)
     THEN inst[x].mem[q]
     ELSE Resized(inst[x].mem[q], IntT(pd[q]))]

Cleared(x, mem) == live[x] - (AllStrings(inst[x].meta, inst[x].mem) - AllStrings(inst[x].meta, mem))

\* realloc() fails for property p: its block is freed, and the call returns
\* with the new property dimensions and the old dimensions.  The strings of p
\* below its new size are lost.
ReallocFails(x, pd, p) ==
  LET n == IntT(pd[p])
      mem == Reallocated(x, pd, p)
      kept == [mem EXCEPT ![p] = SubSeq(@, 1, IF n < Len(@) THEN n ELSE Len(@))] IN
  /\ IsArray(inst[x].meta, p) /\ n > 0 /\ n # IntT(inst[x].pdims[p])
  /\ inst' = [inst EXCEPT ![x].pdims = pd, ![x].mem = [mem EXCEPT ![p] = <<>>],
                          ![x].torn = TRUE,
                          ![x].dangling = IF mem[p] = <<>> THEN {} ELSE {p}]
  /\ live' = [live EXCEPT ![x] = Cleared(x, kept)]
  /\ UNCHANGED fault

SetDims(x, d) ==
  LET m == inst[x].meta
      pd == PropDims(m, NewDims(x, d))
      faulty == {p \in Props(m) : ResizeFault(x, p, pd[p]) # "none"} IN
  IF inst[x].frozen \/ Noticed(m) THEN Fail
  ELSE \/ Fail   \* no memory for the copies of the old sizes
       \/ /\ faulty = {}
          /\ LET mem == Reallocated(x, pd, 0) IN
             /\ inst' = [inst EXCEPT ![x].dims = NewDims(x, d), ![x].pdims = pd, ![x].mem = mem]
             /\ live' = [live EXCEPT ![x] = Cleared(x, mem)]
             /\ UNCHANGED fault
       \/ /\ faulty # {}
          /\ Stop(ResizeFault(x, Min(faulty), pd[Min(faulty)]), x, Min(faulty))
       \/ \E p \in Props(m) : (\A q \in faulty : p < q) /\ ReallocFails(x, pd, p)

---------------------------------------------------------------------------
\* dlite_instance_set_property_by_index().  Strings are copied one by one and
\* the copy may stop where there is no memory for one.
SetProperty(x, p) ==
  LET m == inst[x].meta
      n == SizeT(inst[x].pdims[p]) IN
  IF inst[x].frozen THEN Fail
  ELSE IF IsArray(m, p) /\ n > Len(inst[x].mem[p]) THEN Stop("bounds", x, p)
  ELSE \E elems \in [1..n -> Elems] : \E k \in (IF m.props[p].string THEN 0..n ELSE {n}) :
         LET mem == [i \in 1..n |-> IF i <= k THEN elems[i] ELSE inst[x].mem[p][i]] IN
         /\ inst' = [inst EXCEPT ![x].mem[p] = mem]
         /\ live' = [live EXCEPT ![x] = @ + Strings(m, p, mem) - Strings(m, p, inst[x].mem[p])]
         /\ UNCHANGED fault

\* The instance that dlite_instance_copy() writes to: a new one, or the one
\* that has the id, if its dimensions are the same.
Target(x, y) ==
  IF inst[y] # None THEN (IF inst[y].dims = inst[x].dims THEN {inst[y]} ELSE {})
  ELSE IF Creatable(inst[x].meta, inst[x].dims) THEN {New(inst[x].meta, inst[x].dims)} ELSE {}

\* The instance y becomes t with the properties before p and k elements of p
\* copied from x.
Copied(x, y, t, p, k) ==
  LET mem == [q \in DOMAIN t.mem |-> [i \in DOMAIN t.mem[q] |->
               IF q < p \/ (q = p /\ i <= k) THEN inst[x].mem[q][i] ELSE t.mem[q][i]]] IN
  /\ inst' = [inst EXCEPT ![y] = [t EXCEPT !.mem = mem]]
  /\ live' = [live EXCEPT ![y] = @ + AllStrings(t.meta, mem) - AllStrings(t.meta, t.mem)]
  /\ UNCHANGED fault

\* dlite_instance_copy() of x to the id y.  A property without elements is a
\* NULL pointer, which the assertion refuses.  Where it fails a new instance
\* is freed, and one that existed keeps the properties copied so far.
Copy(x, y) ==
  LET m == inst[x].meta
      empty == {p \in Props(m) : inst[x].mem[p] = <<>>} IN
  \/ (inst[y] = None \/ Target(x, y) = {}) /\ Fail
  \/ \E t \in Target(x, y) :
       IF t.frozen THEN (IF 1 \in empty THEN Stop("assert", x, 1) ELSE Fail)
       ELSE \/ empty # {} /\ Stop("assert", x, Min(empty))
            \/ empty = {} /\ Copied(x, y, t, Len(m.props) + 1, 0)
            \/ /\ inst[y] # None
               /\ \E p \in Props(m) : \E k \in 0..Len(t.mem[p]) :
                    /\ m.props[p].string /\ \A q \in empty : p < q
                    /\ Copied(x, y, t, p, k)

\* Bounds: the instances that are there at a time have the same metadata, as
\* only those meet, in a copy; and an instance whose reallocation failed is
\* not used again, but freed before anything else.
SameMeta(m) == \A y \in Used : inst[y].meta = m
Torn == {y \in Used : inst[y].torn}

Next ==
  /\ fault = NoFault
  /\ \/ \E x \in Insts : Torn \subseteq {x} /\ Free(x)
     \/ /\ Torn = {}
        /\ \E x \in Insts :
             \/ \E m \in Metas : SameMeta(m) /\ \E dims \in Dims(m) : Create(x, m, dims)
             \/ Freeze(x)
             \/ /\ x \in Used
                /\ \/ \E d \in [1..inst[x].meta.ndims -> -1..MaxDim] : SetDims(x, d)
                   \/ \E p \in Props(inst[x].meta) : SetProperty(x, p)
                   \/ \E y \in Insts \ {x} : Copy(x, y)

Spec == Init /\ [][Next]_vars

---------------------------------------------------------------------------
Negative(x, p) == \E j \in DOMAIN inst[x].pdims[p] : inst[x].pdims[p][j] < 0

\* The type of the variables.
TypeOK ==
  /\ live \in [Insts -> Nat]
  /\ \A x \in Used :
       /\ inst[x].meta \in Metas /\ inst[x].dims \in Dims(inst[x].meta)
       /\ \A p \in Props(inst[x].meta) : inst[x].mem[p] \in Seq(Elems)
       /\ inst[x].frozen \in BOOLEAN /\ inst[x].torn \in BOOLEAN
       /\ inst[x].dangling \subseteq Props(inst[x].meta)

\* The property dimensions are those of the dimensions, every array has the
\* block that its dimensions ask for, and the strings on the heap are those
\* that the properties point to: none is lost in a resize, a copy that
\* stops half way or a free.  An instance whose reallocation failed is excepted.
MemoryExact ==
  /\ TypeOK
  /\ \A x \in Insts \ Used : live[x] = 0
  /\ \A x \in Used : ~inst[x].torn =>
       /\ inst[x].pdims = PropDims(inst[x].meta, inst[x].dims)
       /\ \A p \in Props(inst[x].meta) :
            ~Negative(x, p) => Len(inst[x].mem[p]) = Product(inst[x].pdims[p])
       /\ live[x] = AllStrings(inst[x].meta, inst[x].mem)

\* The only ways to leave memory or to fail an assertion: a shape expression
\* with a negative value, an instance whose reallocation failed, and the copy
\* of an instance that has an array without elements.
CallsSafe ==
  fault # NoFault =>
    \/ Negative(fault.inst, fault.prop)
    \/ inst[fault.inst].torn
    \/ fault.kind = "assert" /\ inst[fault.inst].mem[fault.prop] = <<>>

\* Index tuples, and the element of a block of the given shape at one.
Indices(shape) == {i \in [DOMAIN shape -> 0..MaxDim] : \A n \in DOMAIN shape : i[n] < shape[n]}
Position(shape, i) ==
  LET position[n \in 0..Len(shape)] ==
        IF n = 0 THEN 0 ELSE position[n - 1] * shape[n] + i[n]
  IN  position[Len(shape)]
At(block, shape, i) == block[1 + Position(shape, i)]

\* Changing sizes keeps every element of an array whose index remains, where at
\* most the first dimension of the array changed, and elements that are new are
\* zero ("new memory will be zeroed", dlite-entity.c:1759).  A call that does not
\* change the dimensions does not change the size of a property.
ResizeKeeps ==
  [][\A x \in Used : inst'[x] # None /\ ~inst'[x].torn =>
       \A p \in Props(inst[x].meta) :
         LET old == inst[x].pdims[p] new == inst'[x].pdims[p] IN
         /\ inst'[x].dims = inst[x].dims => new = old /\ Len(inst'[x].mem[p]) = Len(inst[x].mem[p])
         /\ inst'[x].dims # inst[x].dims /\ IsArray(inst[x].meta, p) /\ Tail(old) = Tail(new) /\ ~Negative(x, p) =>
              \A i \in Indices(new) :
                At(inst'[x].mem[p], new, i) =
                  (IF i \in Indices(old) THEN At(inst[x].mem[p], old, i) ELSE 0)
    ]_vars

---------------------------------------------------------------------------
(* What keeps the properties above true from step to step.                 *)

\* The length of a block: arrays without elements have no block.
Block(pd) == IF IntT(pd) > 0 THEN IntT(pd) ELSE 0

\* The number of elements of every property is an int (a hypothesis of proofs).
Fits == \A m \in Metas : \A dims \in Dims(m) : \A p \in Props(m) :
  LET pd == PropDims(m, dims)[p]
  IN  (\A j \in DOMAIN pd : pd[j] >= 0) => Product(pd) < IntHalf

Fields == DOMAIN [meta |-> 0, dims |-> 0, pdims |-> 0, mem |-> 0, frozen |-> 0,
                  dangling |-> 0, torn |-> 0]

\* An instance i whose properties point to l strings
Sound(i, l) ==
  /\ DOMAIN i = Fields
  /\ i.meta \in Metas /\ i.dims \in Dims(i.meta)
  /\ DOMAIN i.mem = Props(i.meta)
  /\ \A p \in Props(i.meta) : i.mem[p] \in Seq(Elems)
  /\ i.frozen \in BOOLEAN /\ i.torn \in BOOLEAN
  /\ i.dangling \subseteq Props(i.meta)
  /\ ~i.torn =>
       /\ i.dangling = {} /\ i.pdims = PropDims(i.meta, i.dims)
       /\ \A p \in Props(i.meta) : Len(i.mem[p]) = Block(i.pdims[p])
       /\ l = AllStrings(i.meta, i.mem)

IInv ==
  /\ DOMAIN inst = Insts /\ live \in [Insts -> Nat]
  /\ \A x \in Insts : IF inst[x] = None THEN live[x] = 0 ELSE Sound(inst[x], live[x])
  /\ \A x, y \in Used : inst[x].meta = inst[y].meta
  /\ CallsSafe
=============================================================================
