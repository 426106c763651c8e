------------------------------- MODULE Arrays -------------------------------
(***************************************************************************)
(* N-dimensional array views of dlite (src/src/dlite-arrays.c): a shape    *)
(* and strides over a block of memory, and the operations that derive one  *)
(* view from another.  Next to the view of the code the state has `want`,  *)
(* the array as a function from index tuples to elements, which every      *)
(* operation changes as its comment in the source says.                    *)
(*                                                                         *)
(* Elements have size 1.  size_t is an integer modulo SizeMax.             *)
(***************************************************************************)
EXTENDS Integers, SequencesExt, FiniteSetsExt

CONSTANTS
  Shapes,     \* the shapes arrays are created with and reshaped to
  Slices(_),  \* the <<start, stop, step>> an application uses for a size
  AllCalls,   \* whether views are sliced that are not continuous, and copied
              \* when they have one dimension
  MaxOps      \* bound: operations on one array

\* Stands for 2^64: the two are congruent modulo every size up to 7.
SizeMax == 2^16

VARIABLES
  arr,    \* the view: data (the address of its origin), shape, strides
  block,  \* the memory: a function from addresses to elements
  want,   \* the array the view stands for
  ops

vars == <<arr, block, want, ops>>

Junk == -1
Product(s) == FoldLeft(LAMBDA a, b : a * b, 1, s)
Indices(shape) == {i \in [DOMAIN shape -> 0..7] : \A n \in DOMAIN shape : i[n] < shape[n]}

\* C division, the absolute value, and the remainder of an int by a size_t.
Abs(a) == IF a < 0 THEN -a ELSE a
CDiv(a, b) == IF a < 0 THEN -((-a) \div b) ELSE a \div b
URem(a, n) == (IF a < 0 THEN SizeMax + a ELSE a) % n

\* The strides of a new array: the product of the sizes to the right.
Strides(shape) == [n \in DOMAIN shape |-> Product(SubSeq(shape, n + 1, Len(shape)))]
View(data, shape) == [data |-> data, shape |-> shape, strides |-> Strides(shape)]

\* dlite_array_index().
Index(a, i) == a.data + FoldLeftDomain(LAMBDA s, n : s + i[n] * a.strides[n], 0, a.shape)

\* dlite_array_is_continuous().
IsContinuous(a) == a.strides = Strides(a.shape)

---------------------------------------------------------------------------
\* Mutant of NextIndex: the indices after the increased one are kept.
NextIndexKeeps(a, i) ==
  LET free == {n \in DOMAIN a.shape : i[n] + 1 < a.shape[n]} IN
  IF i[1] < 0 \/ (\E n \in DOMAIN a.shape : a.shape[n] = 0) \/ free = {} THEN {}
  ELSE {[i EXCEPT ![Max(free)] = @ + 1]}

\* dlite_array_iter_next() on the index of the iterator: the last index that
\* can be increased is, and those after it start again.  {} is the end.
NextIndex(a, i) ==
  LET free == {n \in DOMAIN a.shape : i[n] + 1 < a.shape[n]} IN
  IF i[1] < 0 \/ (\E n \in DOMAIN a.shape : a.shape[n] = 0) \/ free = {} THEN {}
  ELSE LET n == Max(free) IN
       {[k \in DOMAIN i |-> IF k < n THEN i[k] ELSE IF k = n THEN i[k] + 1 ELSE 0]}

\* dlite_array_iter_init(): the last index is one before the first.
FirstIndex(a) == [n \in DOMAIN a.shape |-> IF n = Len(a.shape) THEN -1 ELSE 0]

\* The addresses an iterator returns, in order.
Visited(a) ==
  LET From[n \in 0..Product(a.shape)] ==
        IF n = 0 THEN <<FirstIndex(a)>>
        ELSE LET s == From[n - 1] IN
             IF NextIndex(a, Last(s)) = {} THEN s
             ELSE Append(s, CHOOSE i \in NextIndex(a, Last(s)) : TRUE)
  IN  [k \in 1..Len(From[Product(a.shape)]) - 1 |-> Index(a, From[Product(a.shape)][k + 1])]

---------------------------------------------------------------------------
\* One dimension of dlite_array_slice(): the first and the last position.
Ends(n, sl) ==
  LET s1 == IF sl[3] > 0 THEN URem(sl[1], n) ELSE URem(sl[1], n) - 1
      s2 == IF sl[3] > 0 THEN URem(sl[2], n) - 1 ELSE URem(sl[2], n)
      Back(s) == IF s < 0 THEN s + n ELSE s
  IN  <<Back(s1), Back(s2)>>

Length(e, d) == CDiv(Abs(e[2] - e[1]) + 1 + CDiv(d, 2), Abs(d))

\* What the comment of dlite_array_slice() says: negative values count from
\* the back; with a positive step the range is start, start + 1, ... stop - 1,
\* with a negative one start - 1, ... stop.
FromFront(a, n) == IF a < 0 THEN a + n ELSE a
Range1(n, sl) ==
  LET start == FromFront(sl[1], n)
      stop == FromFront(sl[2], n)
      d == sl[3]
      size == IF d > 0 THEN stop - start ELSE start - stop
  IN  [size |-> (size + Abs(d) - 1) \div Abs(d),
       at |-> [k \in 0..7 |-> IF d > 0 THEN start + k * d ELSE start - 1 + k * d]]

---------------------------------------------------------------------------
Created(shape) == [shape |-> shape, at |-> [i \in Indices(shape) |-> Index(View(0, shape), i)]]

Init ==
  \E shape \in Shapes :
    /\ arr = View(0, shape)
    /\ block = [a \in 0..Product(shape) - 1 |-> a]
    /\ want = Created(shape)
    /\ ops = 0

Operation == ops < MaxOps /\ ops' = ops + 1

\* Mutant of Transpose: the strides are kept.
TransposeShape ==
  /\ Operation
  /\ arr' = [arr EXCEPT !.shape = Reverse(@)]
  /\ want' = [shape |-> Reverse(want.shape),
              at |-> [i \in Indices(Reverse(want.shape)) |-> want.at[Reverse(i)]]]
  /\ UNCHANGED block

Transpose ==
  /\ Operation
  /\ arr' = [arr EXCEPT !.shape = Reverse(@), !.strides = Reverse(@)]
  /\ want' = [shape |-> Reverse(want.shape),
              at |-> [i \in Indices(Reverse(want.shape)) |-> want.at[Reverse(i)]]]
  /\ UNCHANGED block

\* The new view keeps the strides of a new array of the old shape, not those
\* of the array that is sliced.
Slice(sl) ==
  /\ Operation /\ (AllCalls \/ IsContinuous(arr))
  /\ LET dims == DOMAIN arr.shape
         ends == [n \in dims |-> Ends(arr.shape[n], sl[n])]
         range == [n \in dims |-> Range1(want.shape[n], sl[n])]
         shape == [n \in dims |-> range[n].size]
     IN  /\ arr' = [data |-> Index(arr, [n \in dims |-> ends[n][1]]),
                    shape |-> [n \in dims |-> Length(ends[n], sl[n][3])],
                    strides |-> [n \in dims |-> Strides(arr.shape)[n] * sl[n][3]]]
         /\ want' = [shape |-> shape,
                     at |-> [i \in Indices(shape) |->
                               want.at[[n \in dims |-> range[n].at[i[n]]]]]]
  /\ UNCHANGED block

Reshape(shape) ==
  /\ Operation
  /\ IsContinuous(arr) /\ Product(shape) = Product(arr.shape)
  /\ arr' = View(arr.data, shape)
  /\ want' = [shape |-> shape,
              at |-> [i \in Indices(shape) |->
                        want.at[CHOOSE j \in Indices(want.shape) :
                                  Index(View(0, want.shape), j) = Index(View(0, shape), i)]]]
  /\ UNCHANGED block

\* The elements in the order of the iterator; memory it does not reach is not
\* initialised.  A continuous array is copied, too, but stays where it is.
MakeContinuous ==
  /\ Operation /\ (AllCalls \/ Len(arr.shape) > 1 \/ IsContinuous(arr))
  /\ UNCHANGED want
  /\ IF IsContinuous(arr) THEN UNCHANGED <<arr, block>>
     ELSE LET v == Visited(arr) IN
          /\ block' = [a \in 0..Product(arr.shape) - 1 |->
                         IF a < Len(v) THEN block[v[a + 1]] ELSE Junk]
          /\ arr' = View(0, arr.shape)

Next ==
  \/ Transpose \/ MakeContinuous
  \/ \E shape \in Shapes : Reshape(shape)
  \/ \E sl \in [DOMAIN arr.shape -> UNION {Slices(arr.shape[n]) : n \in DOMAIN arr.shape}] :
       (\A n \in DOMAIN sl : sl[n] \in Slices(arr.shape[n])) /\ Slice(sl)

Spec == Init /\ [][Next]_vars

---------------------------------------------------------------------------
\* Every view that transpositions, slices within Slices (unless AllCalls, of
\* continuous views only), reshapes and copies give, has the shape of the array
\* it stands for, and each index tuple the element that it has in that array,
\* inside the block of memory.  Outside of these slices the code is not what its
\* comment says: it slices a transposed or stepped view as if it were
\* continuous (line 253), a negative position counts from the back only in
\* sizes that divide 2^64 (line 260), and steps above two or below minus one
\* that do not divide the range lose its last element (line 269).
ViewExact ==
  /\ arr.shape = want.shape
  /\ \A i \in Indices(arr.shape) :
       Index(arr, i) \in DOMAIN block /\ block[Index(arr, i)] = want.at[i]

\* An iterator over an array of two or more dimensions visits every element
\* once, in the order of the indices, and no address outside of the array.
\* (Over one dimension its first index is the mark for the end.)
IterationExact ==
  Len(arr.shape) > 1 =>
    LET v == Visited(arr) IN
    /\ Len(v) = Product(arr.shape)
    /\ \A i \in Indices(arr.shape) : v[1 + Index(View(0, arr.shape), i)] = Index(arr, i)
=============================================================================
