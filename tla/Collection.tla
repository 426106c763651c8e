----------------------------- MODULE Collection -----------------------------
(***************************************************************************)
(* Collections of instances (src/src/dlite-collection.c), with the parts   *)
(* of dlite-entity.c and dlite-json.c that load, release and free them.    *)
(*                                                                         *)
(* A collection names its members in relations: for each label the triples *)
(* _is-a, _has-uuid and _has-meta, here one entry [label, id] of a         *)
(* sequence.  The relations hold no pointer.  The reference a collection   *)
(* has on a member is taken when the member is added or the collection is  *)
(* loaded, and given back through a new search for the id of the member,   *)
(* which may load it, or another collection, from a storage.               *)
(*                                                                         *)
(* One action is one call of the application.  The calls work on the       *)
(* record `m` of everything in memory; a `fault` in the middle of a call   *)
(* (a failing assertion, the use of a freed instance, endless recursion)   *)
(* ends the program.                                                       *)
(***************************************************************************)
EXTENDS Naturals, FiniteSets, SequencesExt

CONSTANTS
  Colls,      \* the ids of collections
  Data,       \* the ids of other instances
  Entries,    \* entries the application may add, as <<collection, label, id>>
  Sources,    \* sets of ids whose storages are on the search path together
  MaxOwn,     \* bound: references of the application to one instance
  MaxLost     \* bound: references that nobody will give back

Ids == Colls \cup Data
None == "none"

ASSUME CollectionAssumption ==
  /\ Colls \cap Data = {} /\ MaxOwn \in Nat /\ MaxLost \in Nat
  /\ \A e \in Entries : e[1] \in Colls /\ e[3] \in Ids
  /\ Sources \subseteq SUBSET Ids

VARIABLES
  m,       \* memory, see MemoryType
  own,     \* own[i]: references to i the application has to give back
  lost,    \* lost[i]: references to i that were taken and will stay
  stored,  \* the ids that are in a storage
  file,    \* file[c]: the relations of collection c in the storage
  path,    \* the ids whose storage is open or on the search path
  saved    \* the collection the last call saved with success, or None

vars == <<m, own, lost, stored, file, path, saved>>

Entry(l, i) == [label |-> l, id |-> i]
Labels == {e[2] : e \in Entries}
Lists == Seq([label : Labels, id : Ids])
Faults == {"", "freed", "assert", "endless"}

\* ref[i] is the reference count, 0 when i is not in memory; rel[c] the
\* relations in the triple store of c; holds[c] the labels for which c has a
\* reference on the member; dying the collections that are being freed and
\* still are in the instance store; stolen tells that a reference was given
\* back for a member on which the collection had none.
MemoryType(x) ==
  /\ DOMAIN x = {"ref", "rel", "holds", "dying", "stolen", "fault"}
  /\ x.ref \in [Ids -> Nat] /\ x.dying = {}
  /\ \A c \in Colls : x.rel[c] \in Lists /\ x.holds[c] \subseteq Labels
  /\ x.stolen \in BOOLEAN /\ x.fault \in Faults

---------------------------------------------------------------------------
\* The search path offers what is in a storage and reachable.
Offered(st) == st \cap path

\* dlite_instance_get() finds i.
InMemory(x, i) == x.ref[i] > 0 \/ i \in x.dying
Found(x, i) == InMemory(x, i) \/ i \in Offered(stored)

IsMember(s, l) == \E k \in DOMAIN s : s[k].label = l
Position(s, l) == CHOOSE k \in DOMAIN s : s[k].label = l
Member(s, l) == s[Position(s, l)].id

\* Removing a triple moves the last one to its place; the three triples of an
\* entry are replaced by those of the last entry in this way.
Without(s, l) ==
  LET k == Position(s, l) IN
  Front(IF k = Len(s) THEN s ELSE [s EXCEPT ![k] = Last(s)])

Add1(x, i) == [x EXCEPT !.ref[i] = @ + 1]
Fault(x, f) == [x EXCEPT !.fault = IF @ = "" THEN f ELSE @]

RECURSIVE Get(_, _), Drop(_, _)

\* A collection that is read from a storage takes a reference on each member
\* that can be found.  parse_instance() ignores the error of a missing one.
LoadProp(x, c, s) ==
  FoldLeft(LAMBDA y, e :
             IF Found(y, e.id)
             THEN LET z == Get(y, e.id) IN [z EXCEPT !.holds[c] = @ \cup {e.label}]
             ELSE y,
           [x EXCEPT !.rel[c] = s], s)

\* dlite_instance_get() of an id that is found: a new reference.
Get(x, i) ==
  IF x.fault # "" THEN x
  ELSE IF InMemory(x, i) \/ i \in Data THEN Add1(x, i)
  ELSE LoadProp(Add1(x, i), i, file[i])

\* Mutant of Release: only the reference of the search is given back.
ReleaseOnce(x, c, e) ==
  IF ~Found(x, e.id) THEN x
  ELSE LET y == Get(x, e.id) IN Drop([y EXCEPT !.holds[c] = @ \ {e.label}], e.id)

\* A collection gives back its reference on a member: it gets a new one by
\* the id of the member and releases it twice.
Release(x, c, e) ==
  IF ~Found(x, e.id) THEN x
  ELSE LET y == Get(x, e.id)
           z == [y EXCEPT !.holds[c] = @ \ {e.label},
                          !.stolen = @ \/ e.label \notin y.holds[c]]
       IN  Drop(Drop(z, e.id), e.id)

\* The members are released while the collection is in the instance store.
Deinit(x, c) ==
  LET y == FoldLeft(LAMBDA z, e : Release(z, c, e), 
                    [x EXCEPT !.dying = @ \cup {c}], x.rel[c])
  IN  IF y.fault # "" THEN [y EXCEPT !.dying = {}]
      ELSE [y EXCEPT !.dying = @ \ {c}, !.rel[c] = <<>>, !.holds[c] = {}]

\* dlite_instance_decref(), which frees the instance with the last reference.
Drop(x, i) ==
  IF x.fault # "" THEN x
  ELSE IF x.ref[i] = 0 THEN Fault(x, "freed")
  ELSE LET y == [x EXCEPT !.ref[i] = @ - 1] IN
       IF y.ref[i] > 0 \/ i \in Data THEN y
       ELSE IF i \in x.dying THEN Fault(y, "freed")
       ELSE Deinit(y, i)

\* dlite_collection_next(): a borrowed reference to the member, which the
\* collection is asserted to hold.
NextMember(x, e) ==
  LET y == Get(x, e.id) IN IF y.ref[e.id] < 2 THEN Fault(y, "assert") ELSE Drop(y, e.id)

\* The iteration is over at the first member that is missing.
Visited(x, s) ==
  LET k == SelectInSeq(s, LAMBDA e : ~Found(x, e.id)) IN
  IF k = 0 THEN s ELSE SubSeq(s, 1, k - 1)

\* dlite_collection_save(): z is [mem, stored, file], `above` the collections
\* that are being saved further up.
RECURSIVE SaveAll(_, _, _)
SaveAll(z, c, above) ==
  IF c \in above THEN [z EXCEPT !.mem = Fault(@, "endless")]
  ELSE FoldLeft(LAMBDA y, e :
                  LET n == [y EXCEPT !.mem = NextMember(@, e)] IN
                  IF n.mem.fault # "" THEN n
                  ELSE IF e.id \in Colls THEN SaveAll(n, e.id, above \cup {c})
                  ELSE [n EXCEPT !.stored = @ \cup {e.id}],
                [z EXCEPT !.stored = @ \cup {c}, !.file[c] = z.mem.rel[c]],
                Visited(z.mem, z.mem.rel[c]))

\* dlite_collection_load() with `lazy` zero: z is [mem, lost, ok].  What is
\* loaded for the members is not kept anywhere.
RECURSIVE LoadAll(_, _, _)
LoadMember(z, i, above) ==
  LET y == IF i \in Colls THEN LoadAll(z, i, above)
           ELSE IF Found(z.mem, i) THEN [z EXCEPT !.mem = Get(@, i)]
           ELSE [z EXCEPT !.ok = FALSE]
  IN  IF y.ok THEN [y EXCEPT !.lost[i] = @ + 1] ELSE y
LoadAll(z, c, above) ==
  IF c \in above THEN [z EXCEPT !.mem = Fault(@, "endless")]
  ELSE IF ~Found(z.mem, c) THEN [z EXCEPT !.ok = FALSE]
  ELSE LET x == [z EXCEPT !.mem = Get(@, c)]
           y == FoldLeft(LAMBDA n, e : IF n.ok /\ n.mem.fault = ""
                                       THEN LoadMember(n, e.id, above \cup {c}) ELSE n,
                         x, x.mem.rel[c])
       IN  IF y.ok THEN y ELSE [y EXCEPT !.mem = Drop(@, c)]

---------------------------------------------------------------------------
Running == m.fault = "" /\ saved' = None

\* The application has a reference to i.
Has(i) == own[i] > 0
Takes(i) == own[i] < MaxOwn /\ own' = [own EXCEPT ![i] = @ + 1]

FewLost(f) == SumFunction(f) <= MaxLost

Create(i) ==
  /\ Running /\ ~InMemory(m, i) /\ Takes(i)
  /\ m' = Add1(m, i)
  /\ UNCHANGED <<lost, stored, file, path>>

\* dlite_instance_get(), and dlite_collection_load() with `lazy` non-zero.
GetInstance(i) ==
  /\ Running /\ Found(m, i) /\ Takes(i)
  /\ m' = Get(m, i)
  /\ UNCHANGED <<lost, stored, file, path>>

Decref(i) ==
  /\ Running /\ Has(i)
  /\ own' = [own EXCEPT ![i] = @ - 1]
  /\ m' = Drop(m, i)
  /\ UNCHANGED <<lost, stored, file, path>>

\* The new entry and the reference the collection has on its member.
WithMember(x, c, l, i) ==
  [x EXCEPT !.rel[c] = Append(@, Entry(l, i)), !.holds[c] = @ \cup {l}]

\* The collection takes over the reference of the application.
AddNew(c, l, i) ==
  /\ Running /\ Has(c) /\ Has(i) /\ (i = c => own[c] > 1)
  /\ ~IsMember(m.rel[c], l)
  /\ m' = WithMember(m, c, l, i)
  /\ own' = [own EXCEPT ![i] = @ - 1]
  /\ UNCHANGED <<lost, stored, file, path>>

AddMember(c, l, i) ==
  /\ Running /\ Has(c) /\ Has(i)
  /\ ~IsMember(m.rel[c], l)
  /\ m' = Add1(WithMember(m, c, l, i), i)
  /\ UNCHANGED <<own, lost, stored, file, path>>

CollRemove(c, l) ==
  /\ Running /\ Has(c) /\ IsMember(m.rel[c], l)
  /\ LET x == Release(m, c, Entry(l, Member(m.rel[c], l)))
     IN  m' = [x EXCEPT !.rel[c] = IF x.fault = "" THEN Without(@, l) ELSE @]
  /\ UNCHANGED <<own, lost, stored, file, path>>

\* dlite_collection_get(): when the member was not in memory the reference of
\* the search becomes that of the collection.
Borrowed(x, c, l) ==
  LET i == Member(x.rel[c], l)
      y == Get(x, i)
  IN  IF y.ref[i] >= 2 THEN Drop(y, i) ELSE [y EXCEPT !.holds[c] = @ \cup {l}]

CollGet(c, l) ==
  /\ Running /\ Has(c) /\ IsMember(m.rel[c], l) /\ Found(m, Member(m.rel[c], l))
  /\ m' = Borrowed(m, c, l)
  /\ UNCHANGED <<own, lost, stored, file, path>>

\* Mutant of CollGetNew: the reference is not counted.
CollGetNewBorrowed(c, l) ==
  /\ Running /\ Has(c) /\ IsMember(m.rel[c], l) /\ Found(m, Member(m.rel[c], l))
  /\ m' = Borrowed(m, c, l) /\ Takes(Member(m.rel[c], l))
  /\ UNCHANGED <<lost, stored, file, path>>

CollGetNew(c, l) ==
  /\ Running /\ Has(c) /\ IsMember(m.rel[c], l) /\ Found(m, Member(m.rel[c], l))
  /\ LET i == Member(m.rel[c], l) IN m' = Add1(Borrowed(m, c, l), i) /\ Takes(i)
  /\ UNCHANGED <<lost, stored, file, path>>

\* dlite_collection_get_id() returns the reference of the search, which its
\* comment calls borrowed: the caller does not give it back.
CollGetId(c, i) ==
  /\ Running /\ Has(c) /\ \E k \in DOMAIN m.rel[c] : m.rel[c][k].id = i
  /\ Found(m, i)
  /\ m' = Get(m, i)
  /\ lost' = [lost EXCEPT ![i] = @ + 1] /\ FewLost(lost')
  /\ UNCHANGED <<own, stored, file, path>>

LoadEager(c) ==
  /\ Running
  /\ LET z == LoadAll([mem |-> m, lost |-> lost, ok |-> TRUE], c, {}) IN
     /\ FewLost(z.lost)
     /\ m' = z.mem /\ lost' = z.lost
     /\ IF z.ok THEN Takes(c) ELSE own' = own
  /\ UNCHANGED <<stored, file, path>>

\* Mutant of Save: collections in the collection are saved like data.
SaveFlat(c) ==
  /\ m.fault = "" /\ Has(c) /\ \A k \in DOMAIN m.rel[c] : Found(m, m.rel[c][k].id)
  /\ stored' = stored \cup {c} \cup {m.rel[c][k].id : k \in DOMAIN m.rel[c]}
  /\ file' = [file EXCEPT ![c] = m.rel[c]]
  /\ saved' = c
  /\ UNCHANGED <<m, own, lost, path>>

Save(c) ==
  /\ m.fault = "" /\ Has(c)
  /\ LET z == SaveAll([mem |-> m, stored |-> stored, file |-> file], c, {}) IN
     /\ m' = z.mem /\ stored' = z.stored /\ file' = z.file
     /\ saved' = IF z.mem.fault = "" THEN c ELSE None
  /\ UNCHANGED <<own, lost, path>>

\* A storage with these ids is opened or put on the search path, or closed
\* or taken off.
ChangePath(ids) ==
  /\ Running
  /\ path' = IF ids \subseteq path THEN path \ ids ELSE path \cup ids
  /\ UNCHANGED <<m, own, lost, stored, file>>

Init ==
  /\ m = [ref |-> [i \in Ids |-> 0], rel |-> [c \in Colls |-> <<>>],
          holds |-> [c \in Colls |-> {}], dying |-> {}, stolen |-> FALSE, fault |-> ""]
  /\ own = [i \in Ids |-> 0] /\ lost = [i \in Ids |-> 0]
  /\ stored = {} /\ file = [c \in Colls |-> <<>>]
  /\ path = {} /\ saved = None

Next ==
  \/ \E i \in Ids : Create(i) \/ GetInstance(i) \/ Decref(i)
  \/ \E e \in Entries : AddNew(e[1], e[2], e[3]) \/ AddMember(e[1], e[2], e[3])
  \/ \E c \in Colls, l \in Labels : CollRemove(c, l) \/ CollGet(c, l) \/ CollGetNew(c, l)
  \/ \E c \in Colls, i \in Ids : CollGetId(c, i)
  \/ \E c \in Colls : LoadEager(c) \/ Save(c)
  \/ \E ids \in Sources : ChangePath(ids)

Spec == Init /\ [][Next]_vars

---------------------------------------------------------------------------
\* The type of the variables; no collection stays half freed between two calls.
TypeOK ==
  /\ MemoryType(m)
  /\ own \in [Ids -> 0..MaxOwn] /\ lost \in [Ids -> 0..MaxLost]
  /\ stored \subseteq Ids /\ path \subseteq Ids /\ saved \in Colls \cup {None}
  /\ \A c \in Colls : file[c] \in Lists

\* The references that collections have on i.
Holders(i) == {<<c, l>> \in Colls \X Labels :
                 l \in m.holds[c] /\ Member(m.rel[c], l) = i}

\* Some collection has a member on which it holds no reference.
Lacking == \E c \in Colls : \E k \in DOMAIN m.rel[c] : m.rel[c][k].label \notin m.holds[c]

Direct(c) == {m.rel[c][k].id : k \in DOMAIN m.rel[c]} \cup
             {file[c][k].id : k \in DOMAIN file[c]}
RECURSIVE Within(_, _)
\* The ids reached from S over relations in memory and in storages.
Within(S, n) == IF n = 0 THEN S
                ELSE Within(S \cup UNION {Direct(c) : c \in S \cap Colls}, n - 1)
Cyclic == \E c \in Colls : c \in Within(Direct(c), Cardinality(Colls))

\* Until a reference has been stolen, each reference count is the number of
\* references that the application, the collections and the calls that forget
\* theirs have: adding, removing, loading with and without the members,
\* saving, looking up and freeing nested collections, complete or not.
RefsExact ==
  /\ TypeOK
  /\ m.fault = "" /\ ~m.stolen =>
     \A i \in Ids : m.ref[i] = own[i] + Cardinality(Holders(i)) + lost[i]

\* A call fails an assertion, recurses without end or touches a freed instance
\* only if a collection was loaded without a member, or contains itself.
CallsSafe == [][m'.fault # "" => Lacking \/ m.stolen \/ Cyclic]_vars

\* dlite_collection_save(): "Saves collection and all its instances".  When
\* it returns success and no member is missing, every instance in the
\* collection and in those inside it is in the storage, with the relations
\* that it has in memory.
SavedComplete ==
  saved # None =>
    LET S == Within({saved}, Cardinality(Ids)) IN
    (\A i \in S : m.ref[i] > 0) =>
      S \subseteq stored /\ \A c \in S \cap Colls : file[c] = m.rel[c]

\* dlite_instance_decref() asserts that the reference count is positive.
DecrefLive == m.fault # "freed"
=============================================================================
