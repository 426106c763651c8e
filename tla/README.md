# DLite: a verification project

DLite (`src/`) is a C library for semantic interoperability.  Data are
*instances* of *metadata*; metadata are instances themselves, up to the static
basic metadata schema.  Instances are reference counted, kept in an in-memory
store under their UUID, read from and written to storages through plugins,
related to each other by triples in collections, and converted to instances of
other metadata by mapping plugins.

This directory holds TLA+ modules that model this code, TLC configurations that
check them on small instances, and proofs for every value of the constants.

    tlc -config Instances.cfg MCInstanceStore     # one run
    tlapm InstanceStoreProofs.tla                 # the proofs about one module

| Module | What it is |
| --- | --- |
| `InstanceStore` | instances, reference counts, the instance store, the JSON loader, transactions |
| `MCInstanceStore` | small instances of it, and what is on their disks |
| `InstanceStoreProofs` | the inductive invariant of `InstanceStore`, chains of parents, lifetime of metadata |
| `TripleSet` | what a triple store with iterators promises |
| `TripleStore` | the builtin triple store, which implements `TripleSet` |
| `TripleStoreProofs` | its inductive invariant, and the proof that it implements `TripleSet` |
| `MCTripleStore` | three triples, two iterators |
| `Mapping` | the search for a mapping, its execution and release |
| `MappingProofs` | what is found is a construction, the cheapest one, and returns what it used |
| `MCMapping` | all lists of up to five plugins from a pool of eight |
| `Storage` | open storages, iterators, the hot list, the search for an instance, the JSON driver |
| `StorageProofs` | counts of storages, hot list, saved data, complete searches, live results |
| `MCStorage` | two files and a missing one, two storages of the application |
| `Properties` | dimensions, shapes and the memory of properties |
| `PropertiesProofs` | sizes of blocks, strings, the causes of faults, what a resize keeps |
| `MCProperties` | four metadata with matrices, strings and awkward shapes |
| `Errors` | error records, `ErrTry` blocks, exceptions and modes |
| `ErrorsProofs` | every property of the run of `Errors` |
| `MCErrors` | three layouts of blocks, three sets of modes |
| `Plugins` | shared libraries, their APIs, the lookups and the search path |
| `PluginsProofs` | every property of the run of `Plugins` |
| `MCPlugins` | six libraries, six search paths |
| `Collection` | collections with their members, storages and reference counts |
| `MCCollection` | two collections that may contain each other, one instance |
| `Arrays` | views of memory: slices, transpositions, iterators |
| `MCArrays` | shapes of one to three dimensions |
| `Infix` | the calculator of shape expressions |
| `InfixMeaning` | the value of an expression by its structure |
| `InfixProofs` | what the calculator accepts is balanced |
| `MCInfix` | three numbers, operators of four precedences |


## 1. The system

The library is single-threaded: nothing in `src/src` takes a lock or starts a
thread, and one public call runs at a time.  What makes it hard is not
parallelism but *re-entrance and sharing*: a call recurses (loading an instance
loads its metadata; freeing an instance frees its parent and its metadata), the
frames of the recursion share state, iterators stay open over calls that change
what they iterate over, and every pointer has an owner only by convention.  The
interleavings in the models are those of the calls of an application in any
order, with the internal steps of each call between them.

| Component | State | Operations | Talks to |
| --- | --- | --- | --- |
| Instances (`dlite-entity.c`) | heap of `DLiteInstance`: `uuid`, `meta`, `_parent`, `_flags`, `_refcount`; the map `_instance_store` | create, get, has, incref, decref, free, copy, snapshot, set_parent, freeze | JSON reader, storages, static schemas |
| JSON reader/writer (`dlite-json.c`) | none between calls | scan, print, iterate over a document | `dlite_meta_get()`, `dlite_instance_create()` |
| Triple store (`triplestore-builtin.c`) | array of triples, map id -> index, count of iterators | add, remove, remove_by_id, clear, free, iterate | - |
| Mappings (`dlite-mapping.c`) | a tree (really a DAG) of `DLiteMapping` per call | `dlite_mapping()` | mapping plugins, instances |
| Storages (`dlite-storage.c`) | open storages with reference count, cache `id -> instance`, hot list | open, close, load, save, iterate | plugins, instances |
| Plugins (`utils/plugin.c` and its two clients) | registered APIs, open libraries counted per path | register, search, unload | storages, mappings |
| Properties (`dlite-entity.c`, `dlite-type.c`) | per instance: dimensions, property dimensions, blocks of memory | create, set sizes, set property, copy, free | infix calculator |
| Collections (`dlite-collection.c`) | an instance that owns a triple store and references to instances | add, remove, get, iterate, save, load | triple store, instances, storages |
| Store (`dlite-store.c`) | map id -> instance with a reference | add, get, pop, remove | instances |
| Errors (`utils/err.c`) | stack of error records in thread local storage | `ErrTry`, `ErrCatch`, `err()`, `warn()` | everything |
| Sessions (`utils/session.c`) | named global states and their destructors | create, add state, free | everything that has globals |
| JSON store (`utils/jstore.c`) | map id -> json, map of labels | add, remove, update file | storages |
| Algorithms (`infixcalc.c`, `dlite-type-cast.c`, `dlite-arrays.c`, `dlite-behavior.c`) | none, or a static table | evaluate, cast, slice, look up | - |
| Drivers, bindings, embedded Python, tools, code generation, string utilities | glue | | |

`PROJECT.json` lists each of them with its files and its status, and every
hazard with the line where it bites.

What makes each component correct:

- **Instances.**  The count of an instance is the number of references that
  exist to it, at every moment; nothing points to freed memory; the store holds
  exactly the live instances; metadata stays as long as it has instances, and
  after that as long as nobody drops it; a frozen instance keeps its place in
  its transaction and transactions have no cycles; a load of something missing
  or malformed, however deep, unwinds and leaves no trace.
- **Triple store.**  It is a set; iterators return each matching triple exactly
  once although triples are removed under them; the array, its length, the
  counters and the map agree; the store lives as long as its last iterator.
- **Mappings.**  A mapping found is a finite construction from the inputs, is
  the cheapest, and gives back what it borrowed; it is freed once.
- **Storages.**  A storage is closed when its last user (owner or iterator)
  gives it up, and the hot list contains exactly the open readable ones;
  cached pointers are live.
- **Plugins.**  A library is open as long as an API that came from it is
  registered.
- **Properties.**  The block of a property has the size that its shape asks for;
  resizing keeps the elements that remain; a failing allocation or an awkward
  shape leaves an instance that can be used and freed.
- **Collections.**  Every instance a triple of the collection refers to is
  referenced by it exactly once; saving and loading terminate on cycles.
- **Errors.**  An error is reported to the innermost block that catches it and
  to no other; a caught error does not leave its block.
- **Sessions, Store, JSON store.**  Destructors run once and before what they
  depend on is gone; each entry owns one reference; an update of a file keeps
  what it does not name.


## 2. InstanceStore

### State

| Variable | Code |
| --- | --- |
| `uuid`, `meta`, `parent`, `frozen`, `dims`, `refcount` | the members of the instance at an address; an address is allocated iff `uuid` is not `NULL` |
| `replaced` | the instance for which `dlite_instance_set_parent()` has given the old parent back; its `_parent->parent` still has the old address |
| `istore` | `_instance_store()`, `utils/map.c` used as a function |
| `hold` | the metadata for which `_instance_store_add()` took a reference |
| `handle` | references the application owns |
| `call` | the public call in progress with its arguments; `to` is the new parent of `dlite_instance_set_parent()` |
| `loading`, `lmeta` | frames of the recursion `dlite_instance_get` - `dlite_json_scan` - `parse_instance` - `dlite_meta_get`; local `meta` of the innermost |
| `got` | the reference the recursion returns |
| `freeing` | frames of the recursion `dlite_instance_decref` - `dlite_instance_free` |
| `borrowed` | what `dlite_instance_has()` returned |
| `lost` | history: references taken that nobody will give back |

`freeing` is a sequence because a free is interrupted: an instance that has lost
its last reference has left the store but is not yet gone while its parent's
chain is freed.  These half-freed states are states of the model, and the
invariants hold in them.

### Actions

An action of `Api` is a public call, or its first step if it recurses; an action
of `Internal` is one return or one level of a recursion.

| Action | Code (`dlite-entity.c` unless said) |
| --- | --- |
| `IncrefHandle`, `DecrefHandle` | `dlite_instance_incref/decref` |
| `ForgetMeta` | the comment at 42-56: dropping the reference the store holds on metadata |
| `FreeParent`, `FreeMemory` | `dlite_instance_free` |
| `Get`, `Has`, `CreateFromId` + `BeginGet` | entry of `dlite_instance_get/has/create_from_id` |
| `ScanJson` | `dlite_json_scan(.., id = NULL)` (`dlite-json.c`) |
| `FetchMeta`, `BuildNew`, `BuildOnExisting`, `BuildFails`, `ReleaseMeta` | the paths through `parse_instance()` (`dlite-json.c`) |
| `FinishGet`, `FinishHas`, `FinishCreate`, `DropMeta` | the rest of the public calls |
| `Create` + `CreateWith` | `dlite_instance_create`, `_instance_create` |
| `Freeze`, `CopyNew`, `CopyOnto`, `Snapshot` | transactions |
| `SetParent`, `FinishSetParent` | `dlite_instance_set_parent`: up to the release of the old parent, and from the assignment of the new one |

`dlite_instance_set_parent()` releases the old parent, with all the frees that follow from
it, before it assigns the new parent and takes a reference to it, and so does the model:
the steps of the frees come between `SetParent` and `FinishSetParent`.  Meanwhile
`parent[replaced]` is an address to which no reference exists any more, and which may be
free memory; nothing reads it before it is overwritten.  `ParentRefs`, `NoDangling` and
`ParentFrozen` therefore leave `replaced` out, `Acyclic` does not.  The new parent is
something the application knows (`KnownParent`): an instance on which it holds a reference,
or, if `BorrowParents`, also one that it got from `dlite_instance_get_snapshot()`, which
returns borrowed references to the ancestors of an instance (`Snapshots`).

`CreateWith` has the four outcomes of `_instance_create()`: a new instance, no
memory, an instance with the id that already exists, and one that exists with
other dimensions.  In the last the error path takes a reference to the metadata
for `dlite_instance_free()` to give back, and then does not run it, since the
existing instance lives on; `lost` counts it, so that `RefcountExact` stays an
equation with the leak in it and not an inequality that would hide others.

### Undefined behaviour

`parse_instance()` frees a half-read instance by `while (inst->_refcount > 0)
dlite_instance_decref(inst)`, which reads the count once more after the memory is
gone.  `BuildFails` and `BuildOnExisting` take the outcome in which the freed
bytes still read as zero and the loop ends; any other outcome is a crash.

`dlite_instance_set_parent()` with a new parent that was freed with the old one copies the
uuid from freed memory and counts up there.  `FinishSetParent` takes the outcome in which
the memory has not been given to anybody else; the parent is then a dangling pointer.

### Runs

`Instances` (five addresses, two handles, eight ids) has on its disk an entity, an
instance of it, an entity that cannot be read, an instance of that, and an
instance of metadata that is found nowhere, so that a load fails in the first, the
second and the third frame.  The application creates and scans both a data
instance and an entity, reuses ids in use with the right and with wrong
dimensions, and drops the store's reference on metadata.  Three free addresses
are enough for an instance, its metadata and one more, and small enough to run
out of memory.  `MaxLost = 1` bounds the leak above: one leaked
reference already keeps metadata alive for ever, and more only repeat it.

- `RefcountExact`: the code's increments and decrements balance along every
  path and *between any two steps*.
- `NoDangling`: handles, `meta`, `_parent` and local variables point to live
  instances, half-freed instances included.
- `StoreExact`: the store has exactly the live instances.
- `BorrowedValid`: what `dlite_instance_has()` returns is valid when it returns.
  It holds here for metadata (`HasIds = {Ent}`) and fails for data (section 11).
- `MetadataPersistent`: no call makes the store give up metadata that others use.

`InstancesTransact` (six addresses, fresh ids only) runs freeze, copy, snapshot and
set_parent in any order on chains of up to three instances: parents are frozen
and form no cycle (`TransactionsSound`; without cycles `verify_hash` and the
frees terminate), stay put while frozen (`FrozenKeepsParent`), and every call returns
(`CallsReturn`).  `Reuse = FALSE` means that no instance is created or copied onto
an id in use.  With `Reuse = TRUE` there is a
failure of `FrozenKeepsParent`: `dlite_instance_copy()` to the id of a frozen
instance replaces its parent before the properties are refused (`CopyOnto`).
In both runs the application sets parents it has a reference to (`BorrowParents = FALSE`).

With `BorrowParents = TRUE`, `NoDangling` is violated.  The application takes a snapshot
of x and calls `dlite_instance_set_parent(x, dlite_instance_get_snapshot(x, 1))`.  The only reference
to the snapshot is the one x has.  It is released, the snapshot is freed, and its
address becomes the parent of x again.  Taking the new reference before releasing the
old one would avoid it.

### Fairness

`WF_vars(Internal)`: a call that has started runs on.  The code justifies it, as
no step of it waits for anybody.  Nothing is assumed of the application: `Api` has
no fairness and `Idle` may last for ever, which is also why no state is a
deadlock.

### What is proved

`InstanceStoreProofs` proves, for every finite set of addresses, handles and ids,
every content of the storages and every `MaxLost`:

- `Invariance`: `Spec => [](IInv /\ SettingExact)`
- `RefcountsAreExact`: `Spec => [](TypeOK /\ RefcountExact)`
- `NothingDangles`: `Spec => []NoDangling`
- `StoreIsExact`: `Spec => []StoreExact`
- `TypeCorrect`: `Spec => []TypeOK`

from the named assumptions of the module (`NULL` is no address, the schemas are two
different addresses, the sets are finite, the static schemas are in no storage) and
two more.  `ScanWellformed`: what `dlite_json_scan()` is given *without stating its id* can be
read.  `ParentsHeld`: the application has a reference to what it sets as parent.  Both are
necessary: section 11 has the counterexamples.  Loading by id needs no assumption: malformed and missing
entries are covered.  (The run
`Instances` goes a little further and scans a malformed object when only the
store owns its instance.)

The argument.  `NoDangling` follows from `RefcountExact`: what has an owner has a
positive count.  But `RefcountExact` is not inductive by itself, and each conjunct
of `IInv` repairs one way in which it is not:

- `AllocExact`: an address that is not allocated holds nothing, so that a new
  instance starts with no owners; live instances have metadata.
- `StoreExact`: the store entry an instance removes when it is freed is its own,
  and creating under an unused id does not overwrite one.
- `FreeingExact`: the instances without references are exactly those on the
  `freeing` sequence, each once: nothing is freed twice and nothing is forgotten.
- `CallExact`: `got` and `lmeta` are not both owned; the handle a call returns into is
  empty, so that no reference is overwritten.
- `LoadingExact`: what is being loaded is stored, and an unreadable one is not
  an existing instance, which closes the loop "until refcount is zero" off from
  instances with other owners.  This is where `ScanWellformed` is used.
- `SettingExact`, beside `IInv`: while `dlite_instance_set_parent()` waits for the frees to
  end, the application holds the mutable instance and its frozen new parent, so that none
  of these frees reaches them.  This is where `ParentsHeld` is used.

The proofs count owners: `CountMove` says how `Count(S, f, o)` changes when one
reference moves, `Balance` that a step keeps a count exact if it changes it by as
much as the owners, and `StepMoves`, `StepReleases` and `StepCreates` prove the
conjuncts about heap, store and frees once for the three kinds of step there are.
Then there is one lemma per action.

The second part of `InstanceStoreProofs` adds, for `Reuse = FALSE`, where no id in use is created or
copied onto:

- `TransactionsAreSound`: `Spec => []TransactionsSound`
- `FrozenInstancesKeepParents`: `Spec => FrozenKeepsParent`

The invariant is `Sound == IInv /\ SettingExact /\ ParentFrozen /\ Acyclic`.  That a chain ends is said
without paths: every nonempty set of addresses has one whose parent is outside of it.
Three lemmas are all that is needed about chains: cutting references keeps them
finite (`EndsCut`), so does giving a parent to an instance that is nobody's parent
(`EndsLeaf`), and putting a new instance between an instance and its parent
(`EndsBetween`), which is what a snapshot does.  Since parents are frozen and `set_parent`
refuses frozen instances, the instance that gets a parent is a leaf; it is not its own old
parent either, by `Acyclic`.

Its third part adds

- `MetadataPersists`: `Spec => MetadataPersistent`
- `BorrowedAreValid`: `Spec => []BorrowedValid`, if what `dlite_instance_has()` is asked
  for and a storage has is metadata (`HasMetadata`).  Without this it fails (section 11).

The second needs `BorrowInv`: while `has` runs, either the asked id is being loaded, and its
metadata are the static schemas, so that the recursion is one level deep; or the load is
over, and what it returned has a second owner, which for metadata is the store.

Only model-checked: `CallsReturn`, as liveness is beyond the prover.


## 3. TripleStore and TripleSet

`TripleStore` keeps the code's array (`slots`), `length`, `size`, `map`, `niter` and
`freed`, and for each iterator its pattern and `pos`.  The loops of add, remove,
clear, free and of the compaction by the last iterator are steps; `call` holds the
loop variable.  A triple removed while iterators run is marked (`live`), as
`_remove_by_index()` clears its id; without iterators the last triple moves into its
place.  Triples' ids are `IdOf`, an arbitrary function: the code's hash of the
concatenated fields is not assumed to be injective.

`TripleSet` is what users of `triplestore.h` rely on: a set of triples with different
ids, and iterators, each with the set `todo` of what it has still to return.  Its
only weakness is deliberate: an iterator that runs while the store is *cleared* keeps
its position, so it may miss triples added afterwards.  The refinement mapping
(`Set == INSTANCE TripleSet WITH ...`) takes the live triples for the contents and the
matching live triples from `pos` on for `todo`; `IteratesSet` says every step of the
array implementation, compaction included, is a step of the set or none.

The run `TripleStores` has three triples (one with a datatype, so that the pattern of
literals matters), patterns that match two of them, batches with duplicates and
with an invalid triple in the middle, two iterators, chunks of two and at most
four slots.  Four slots make a batch cross a chunk, an array shrink, and
holes at the start, the end and everywhere; two iterators are the least number
for which "the last iterator" is not "the iterator".  Further properties:
`ArrayExact` (the asserts of the code about the length, and no write outside of
the allocation, whatever odd size shrinking left), `MapExact`, `Lifetime` (a freed store
lives until its last iterator, and no longer), `RemoveComplete` (the walk from the end
misses nothing although triples move under it).

### What is proved

`TripleStoreProofs`: all properties of the run, for every set of triples, `IdOf`, set of
patterns and batches, finite set of iterators, chunk size and bound of the array.

- `Invariance`, and from it `ArrayIsExact`, `MapIsExact`, `StoreOutlivesIterators`,
  `RemovalIsComplete`
- `StoreImplementsSet`: `Spec => IteratesSet`, the refinement of `TripleSet`, with
  `IteratorsInside`: no iterator is behind the end of the array, unless the store was
  cleared under it

`IInv` adds to the properties what the loops in progress have established: the loop that
removes has left no match behind it, the one that clears nothing live, and the one that
compacts no hole, while the last slot is live (`SweptExact`); there are holes only under
iterators or during compaction (`NoHoles`); a freed store that waits for its last iterator is
empty (`StateExact`).  The refinement is proved step by step (`StepRefines`) from
`IInv /\ Inside`: appending, marking, moving and cutting slots are four operators, with a
lemma each for what they do to the contents and to what an iterator has not yet seen.
Moving and cutting only happen without iterators, so that they change the contents as
marking does and concern no `todo`.

### Left out

An iterator is assumed to be asked for one pattern from init to deinit.  
A triple pointer kept after a later addition is not modelled.


## 4. Mapping

`dlite_mapping()` is one call.  `Create` takes references on the inputs, `Search` is
`mapping_create_rec()`, `Created` the end of `mapping_create_base()`, `Map` runs the mappers and
`Free` releases.

| Variable | Code |
| --- | --- |
| `stack` | the frames of `mapping_create_rec()`: the output, the plugin the loop has come to, how many of its inputs are realised and their cost, the cheapest plugin so far; what is on it is `visited` |
| `dead`, `created` | the maps `dead_ends` and `created`, which all frames share |
| `refs` | reference counts of the instances of each metadata |
| `nfree` | history: how often a mapping was freed |

A step of the search takes the next plugin that is not ignored (`Consider`), realises one
of its inputs (`Realise`), compares it (`Compare`), or ends one call, in a dead end
(`Fail`) or with a new mapping (`Succeed`).  The plugin is checked against `visited`
and `dead_ends` in `Consider`, and these have changed when its second input is
realised: that, and the sharing of the two maps, is what is checked.

The run `Mappings` takes *every* sequence of up to five different plugins, in the
order of the plugin iterator, from a pool with a chain, an alternative with another
cost, two cycles and two plugins with two inputs, times three sets of inputs
and two targets.  The counterexamples of section 11 need three; five leave room for detours.

- `WellFounded`: the mapping found is a finite construction from the inputs, its cost
  is what it adds up to, and unused mappings are gone, cycles or not.
- `Cheapest`: without cycles, a mapping is found if there is one, and it is the
  cheapest.  `Ways` is the reference: all trees of plugins over the inputs, up to the height
  that the number of plugins allows, with the cost of each; it shares nothing with the search.
  With cycles this fails, since what is a dead end depends on the path; the code does not
  promise it.
- `UsedInputsKept`: every input the mapping uses has its count back.

`Mappings` sets `Asserts = FALSE`, the build with `NDEBUG`: the assertion that a URI is
not a known dead end does not hold (section 11).

Known and kept as they are in the model: inputs that are not used end with
one reference fewer; instances made by submappings end with a reference nobody owns; the
NULL of a failed mapper is passed on to the next one (phase `"passed NULL"`).

The search is deterministic, so that nothing is assumed of its order; `Spec` states weak
fairness of the steps of the call, which waits for nobody, and no property of the run
depends on it.

### What is proved

`MappingProofs`: all properties of the run, for every set of metadata, all lists of
plugins with any inputs and costs, and with assertions or without.

- `MappingIsWellFounded`, `MappingIsCheapest`, `InputsKept`

`InputAssumption` types the constants and says that no plugin has the same input
twice: `Realise` identifies inputs with their URIs.

`IInv` has, during the search, `SearchInv`.  `CreatedSound`: each mapping is made by a
plugin from mappings that are there, at the cost that this adds up to (`Made`), and
has a set of mappings under it that is closed and does not contain it (`Based`), which says
that the construction is finite without a height or a path.  `StackSound`: the outputs of the
frames differ and none of them exists yet; each is the next input of the frame below it,
whose partial cost is right (`TrySound`); the cheapest plugin so far can be made of what
exists (`BestSound`).  A plugin under consideration has no input on the stack, below or
at its own frame, because the ones that were there were ignored.

`Optimal` relates the search to `Ways` where the plugins are acyclic: no dead end can be
made (`DeadSound`), nothing is cheaper than what was created (`CreatedBest`), and the
cheapest plugin of a frame is no worse than any offer of the plugins that the loop has
passed (`FrameBest`).  This is where the plugins have to be *acyclic*: the search ignores a plugin
that needs an output on the stack, and the frames above that output need each other in a
chain, so that the plugin would close a cycle (`NotIgnored`).  That sums
over the inputs are natural numbers, depend only on the prices of the inputs and
grow with them (`TotalNat`, `TotalSame`, `TotalLower`) is shown by induction over a set of
numbers, as is that `Ways` only has natural costs.

Not stated: `FreedOnce` and `NoDeadEndTwice` do not hold (section 11).


## 5. Storage

`dlite-storage.c`, the JSON driver and the search of `dlite_instance_get()`.  A record in
`storage[s]` is a `DLiteJsonStorage`: `refcount`, shared by the owner and the iterators,
`jstore`, the copy of the file that is read when the storage is opened (not in mode
`w`) and written back when it is closed, `changed`, and the `cache`.  `hot`, `capacity` and
`room` are `g->hotlist`; `room` is what the last `realloc()` asked for, in elements.
`saved`, `asked` and `crowded` are history variables.

A search is a frame of `stack`, with the innermost one first.  It asks the hot
storages by position (`NextHot`), then opens the files of the search path one by one
(`NextPath`, `SkipPath`), and gives up (`NotFound`).  Asking is `dlite_storage_load()`: the
cache answers (`LoadCached`), the file does not have it (`LoadMissing`), or it does and its
metadata is searched for in a new frame (`LoadStored`, `MetaReturned`).  These nested
searches open and close storages, and so change the hot list under the outer one;
that is what the properties are about.  `Load` and `LoadLoc` are
`dlite_instance_load()` and `dlite_instance_load_loc()`.  Instances are only their ids
here, their references are in `InstanceStore`.

The run `Storages` has D1 in a file F on the search path, after a file that does not
exist; its metadata M is in a file G that only the application opens; E, also
in F, cannot be parsed.  The application has up to two storages and one
iterator open, which leaves two slots for the nested searches: the deepest search
uses both.  A chunk of the hot list is one element, so that four
storages are enough to grow and to shrink it.

- `RefsExact`: a storage is open exactly as long as its owner, an iterator or a
  search uses it.
- `HotListExact`: the hot list has the open readable storages, each once, and is
  inside its array.  The latter is stated for lists that were never longer than
  two chunks (16 storages in the code): `dlite_storage_hotlist_remove()` reduces the
  array to as many *bytes* as it should have elements, and beyond that the claim
  does not hold.
- `SearchComplete`: no search goes on to the path before it has asked every hot
  storage, although removing one moves the last into its place; and a search that
  gives up has missed nothing on the path that could be loaded, in spite of the failures that caches remember.
- `ReturnsLive`: what a call returns is in memory.  `FreeCached = FALSE` means that the
  application frees no instance that an open storage has in its cache.
- `DataIsKept`: data that were saved with success are in the file when the storage
  is closed, although iterators keep it open after its owner has closed it.

No liveness is stated, and so no fairness assumed.

### What is proved

`StorageProofs`, for every set of storages, files, ids, metadata and path:

- `Invariance`, `ReferencesAreExact`, `HotListIsExact`, `DataAreKept`
- `ReturnsAreLive`, under `FreeCached = FALSE`, as in the run (section 11 shows what
  happens otherwise)

`IInv` is about the stack of nested searches: a frame waits exactly if there is one above
it, what a search has opened was closed before, so that no search below it uses the
storage (`StackExact`), and thus each storage has at most one search among its users
(`CountExact`).  This is what makes `refcount` a sum of three terms although frames are not
counted anywhere.  `CopyExact` says that saved data are in the copy of the file and that the
copy will be written; `RoomExact` that the array of the hot list has its full size until it
has been longer than two chunks.  `ReturnsAreLive` needs `CachesLive` in addition: caches,
and what waiting frames have found, refer to instances in memory.

- `HotIsAsked`: the first half of `SearchComplete`, `HotAsked`
- `SearchesAreComplete`: `Spec => []SearchComplete`, under `FreeCached = FALSE`

The invariants are at the end of `Storage`, and TLC can check them there.  `SearchExact` relates
the position of a search in the hot list to the *order* of that list: a search at position
`pos` has asked everything before it, and no search within it has opened any of that; behind
what a search has opened there is only what searches within it have opened (`PlaceExact`).
When such a storage is closed, the last element of the list moves into its place, and the
invariant says that this is an element that no waiting search has counted as asked.  It needs
that what a search has opened has no other user (`OpenersOwn`), as `dlite_storage_close()`
removes a storage from the list with its last reference only.

`MissExact` is about the path: a search has missed nothing in the files it is done
with (`PathExact`); each frame searches for the metadata of the one below it, and
nothing that is searched for is in memory before the innermost search loads it (`Sought`), which
is why an entry that was absent when its file was read stays so; and the answer a waiting
frame gets says whether its metadata are in memory (`RetExact`).  `CachesLive` is
needed as a cached instance counts as found.


## 6. Properties

`_instance_create()`, `dlite_instance_set_dimension_sizes()`,
`dlite_instance_set_property_by_index()`, `dlite_instance_copy()` and
`dlite_instance_free()`, as far as the sizes and the memory of properties are
concerned.  `inst[x]` has the dimensions, the property dimensions that the shape
expressions give (`PropDims`), and `mem[p]`, the block of a property as a
sequence: `<<>>` is the NULL pointer of an array without elements.  `live` counts
the strings on the heap per instance, with every `realloc`, `strdup` and `free` of a
string, and `fault` is the first access outside of memory or failing assertion.
Sizes are computed as the code does, once as `size_t` (`SizeT`) and once as `int`
(`IntT`).  An `int` is between `-IntHalf` and `IntHalf - 1`, with `IntHalf = 128` in the run.

Any allocation may fail.  When `realloc()` fails in the middle of a resize, the
instance is `torn`: some blocks are new and some old, one may be freed and still
pointed to, and the property dimensions do not fit the dimensions.

The run `PropertyMemory` has two instances, sizes up to two, and four metadata:
a matrix and strings; the shapes `N-1` and `N-1, N-1`; an expression that the
calculator refuses, first in a shape (where the code does not notice) and
last.  Two instances are what a copy needs, and sizes from zero to two grow and
shrink a block to and from nothing in every dimension.

- `MemoryExact`: every block has the size its dimensions ask for, the property
  dimensions are those of the dimensions, and no string is lost by a resize, by
  setting a property that stops half way, a copy or a free.
- `CallsSafe`: a fault has one of three causes: a shape with a negative value, an
  instance that is torn, or the copy of an instance with an empty array.  All three
  happen.
- `ResizeKeeps`: resizing keeps every element whose index remains, if at most the
  first dimension changes, and new elements are zero.

Bounds besides the sizes: the instances that are there at a time have the same
metadata, and a torn instance is freed before anything else happens (it takes
part in no other call).

### What is proved

`PropertiesProofs`, for every metadata with any shape expressions, any sizes and any number
of instances:

- `Invariance`, `MemoryIsExact`, `CallsAreSafe`, `ResizingKeeps`

all under `Fits`: where the shape of a property has no negative value, its number of elements
is less than `IntHalf`.  The hypothesis is needed.  The code computes the number of elements
as `size_t` when it creates, sets and frees an instance, and as `int` when it resizes one; beyond
an `int` they differ and there is no exactness to prove.  `MCProperties` states that the four metadata of the run
satisfy `Fits`, as an assumption TLC evaluates.  Allocations that fail are not excluded.

`Sound(i, l)`, the part of `IInv` about one instance, says for an instance that is not torn that
its property dimensions are those its dimensions give, that every block has the length of
their product (`Block`), and that `l` counts the strings it points to.  The product of a
shape is a recursive function; that it is computed alike as `size_t` and as `int` under
`Fits`, and that it is a natural number if no factor is negative, is shown by induction
over a *set* of numbers (`SetInduction`, from the well-foundedness of `<`).

`ResizingKeeps` is the action property `ResizeKeeps`.  The position of an element is the
row-major sum over its indices, a recursive function of the sizes, in which the size of
the first dimension does not occur: if the other sizes stay, so do the positions, and an index is
inside the old array exactly if its first component is.  What `realloc()` keeps is a prefix of the
block, and what `memset()` clears is the rest.


## 7. Errors

`utils/err.c` and the macros of `err.h`.  `stack` is the list of error records, the root
record first; a record has its block (the sequence of its clauses), the clause it is
at, whether it is inside of it (`in`), and the fields of `ErrRecord`.  The body of a
clause does anything the API offers; `ToCatch`, `ToOther`, `ToElse`, `ToFinally` and `EndBlock`
are what the macros do between the clauses, and `Jumped` is the `longjmp()` of an exception.
`hist` is a history variable: per record the errors that nobody has caught yet.

The run `ErrTry` has three layouts of blocks, nested to depth two, three errors, exceptions
or warnings, and three sets of modes.  A block in a block is the least depth at which an
error is passed to a block and not to the root; three errors are one to handle, one that
comes while it is handled, and one after.

- `UncaughtIsOwed`, `CaughtIsSilent`: `ErrEnd` passes an error on if, and only if, there
  is one that nobody has caught.
- `ExceptionInterrupts`: code that raised an exception is not continued.
- `RecordsExact`: records are well-formed, no `longjmp()` meets the fall-through flag,
  and when messages are appended, a message mentions every error still to be reported.

### What is proved

`ErrorsProofs` proves all four properties (`UncaughtErrorsAreOwed`, `CaughtErrorsAreSilent`,
`ExceptionsInterrupt`, `RecordsAreExact`) for every set of error values, modes and blocks,
whatever the bounds.  The assumption about blocks (`LayoutsAssumption`) is the order of
clauses that `err.h` asks for.

`IInv` relates each record to its history (`RecordExact`): there is an error value as long as
there has been an error (`ValueExact`); an error that may still be caught has met no
handler (`HandledExact`); `reraise` is that of an error that came too late to be caught,
or the record is before the end of the clause in which it will be set (`ReraiseExact`);
between header and body of a clause the record is at a clause that fits its state
(`PlaceExact`).  Warnings and the blocks inside of handlers make a record
forget (`masked`): the properties say so, and section 11 has the consequence.  All records but
the innermost are inside of a clause.


## 8. Plugins

`utils/plugin.c` with the lookups of the storage and of the mapping plugins.  `info` is the
`PluginInfo`, with counters of what its calls have done: handles to libraries (`opened`),
allocated APIs (`live`).  `plugin_load_all()` is the only call that is several steps
(`LoadPass`), since it goes on until a pass over the path loads nothing.

`PluginSearch` has six libraries that overlap: with one API, with three, with a call that
fails in the middle, one that cannot be opened and one without the symbol; six search
paths, which change at any time.

- `LibrariesExact`: a library is counted once for each API registered from it, and is
  open as long as there is one.
- `LookupsExact`: a lookup finds what the path offers, from the right file; a mapping is
  missing only after the plugins were loaded from the present path.
- `LoadAllEnds`, `LoadAllComplete`: `plugin_load_all()` ends, with everything registered.

### What is proved

`PluginsProofs` proves all four (`LibrariesAreExact`, `LookupsAreExact`, `LoadingAllEnds`,
`LoadingAllIsComplete`) for every set of libraries, with any lists of APIs, on any search
paths.  `PluginsAssumption` only types the constants.

`Consistent(i)` is the state of a `PluginInfo` between two calls: each API that has a path came
from the library of that path, and a library is counted, and has as many allocated APIs, as
there are names registered from it.  The loops over the calls of a library's function
(`Called`) and over the files of the path (`OfferAll`) are recursive functions, and
`AfterCalls` and `AfterFiles` state what holds after the `n`-th round, proved by induction
over the set of such `n`.  That `plugin_load_all()` ends after one pass that
registers something is in `IInv` as what is known then: everything the path offers is
registered.


## 9. Collection

The composition of instances, storages and relations.  A collection refers to its members
by label in its relations, not by pointer, and it finds a member again by a search for its
id, which may load it.  The reference it took when the member was added or loaded is
given back through such a search.  One action is one public call; it works on the
record `m` of memory with the recursive operators that stand for
`dlite_instance_get()`, `parse_instance()`, `dlite_collection_loadprop()`,
`dlite_collection_deinit()` and `dlite_collection_save()`, which call each other.

`Collections` has two collections, A with the members B and D, and B with the member D or
A, one reference of the application to each, and storages that come and go in two
groups.  Two collections are enough for a cycle and for a member that is released with
its collection.

- `RefsExact`: each reference count is the number of references held by the application
  and by collections, plus those that are known to be forgotten (`lost`).
- `CallsSafe`: a call crashes or recurses without end only after a collection was loaded
  without a member, or when collections contain each other.
- `SavedComplete`: what is reached from a saved collection is in the storage.

The constraint `NothingStolen` ends a behaviour where a reference was released that the
collection did not have; `CollectionReload`, without it, is the violation that shows how
(a finding of `PROJECT.json`).


## 10. Arrays and Infix

`Arrays` is `dlite-arrays.c`: a view is an address, a shape and strides over a block.  Next to it
the state has `want`, the array that the view stands for as a function of index
tuples, which every operation changes as its comment in the source says; `ViewExact`
compares the two after up to three operations in any order, and `IterationExact` runs
an iterator over every view with two or more dimensions.  `ArrayViews` has arrays of one to
three dimensions, one of them empty, and slices within what the code can do (`Slices`, and
`AllCalls = FALSE`): of continuous views only, to ranges that are not empty, with steps of one and
two forwards and of one backwards, and counted from the back in sizes 2 and 4 only.

`ViewExact` does not hold beyond this; section 11 has the inputs with which TLC shows it.
`dlite_array_slice()` returns a view with the strides of a new array of the old shape
times the step (lines 253 and 270), whatever the strides of the array it slices.  It reduces a
position, an `int`, by `%` with a `size_t` (260 and the lines after), so that a negative one
counts from the back only in a size that divides 2^64, while the comment says "index `-k` is
equivalent to `arr->shape[n]-k`" (223-224).  And it rounds the length of a slice to the
nearest number and not up (269), while "`start`, `stop` and `step` has the same meaning as in
Python" (211-212): 0 to 4 with step 3 has one element there, and two in Python.

`Infix` is `infixcalc.c`: one step per token, with the stack of values and that of operators.
`Calculator` takes every text of up to seven tokens, over three numbers, four operators
of different precedence, parentheses and an invalid token; seven tokens are enough for
parentheses around an operator between two others.  `ValueExact` compares with the value
by the structure of the expression (`Meaning`, in a module of its own since it uses recursive
operators); `AcceptedIsBalanced` is about texts that are no expressions.

### What is proved

`InfixProofs` proves `AcceptedBalanced`: `Spec => []AcceptedIsBalanced`, for any set of numbers and texts of
any length.  The invariant (`Consistent`) compares the two stacks with the tokens that were
read: as many left parentheses are on the operator stack as are open, they were never
fewer than none, and there are as many more values than operators on the stacks as among the
tokens.  An operator that is evaluated takes itself and one value off the stacks, so
that the last is kept by any number of turns of the loop (`EvaluatedGood`); a right parenthesis
takes the innermost left one off.  The lemmas about counting positions of a sequence when
a token is appended or an element removed are the bulk of the proof.

Only model-checked: `ValueExact`, whose reference is recursive over the text, and the
properties of `Arrays`, where an address is a sum over the strides of a view.


## 11. Known disagreements

Where the code does not do what it, its comments or its interface say.
`CollectionReload` (section 9) is a run of its own, which ends in a violation.  The others are in
the modules too, and each can be seen by checking the property with the constants given, in
place of those of the run:

| Run | Change | Property | What happens |
| --- | --- | --- | --- |
| `Instances` | `HasIds = {Ent, D1}`, D1 a data instance | `BorrowedValid` | `dlite_instance_has()` returns a pointer to an instance it has just freed, when only a storage has it |
| `Instances` | `ScanShared = TRUE` | `NoDangling` | scanning a malformed object whose id is in use frees an instance that others own |
| `InstancesTransact` | `BorrowParents = TRUE` | `NoDangling` | `dlite_instance_set_parent()` releases the old parent before it takes the new one, which is freed if the old one had its only reference |
| `TripleStores` | | `IndexExact` | the map should give a triple's index in the array; it gives its number in the batch it was added with |
| `Mappings` | | `FreedOnce` | two mappings share a submapping, and the recursive free frees it once for each |
| `Mappings` | `Asserts = TRUE` | `NoDeadEndTwice` | the assertion that a URI is not a dead end yet fails on acyclic plugins |
| `Storages` | `FreeCached = TRUE` | `ReturnsLive` | an instance is loaded from a storage, freed, and loaded again from the cache |
| `Storages` | | `SavedIsKept` | metadata are written directly to the file, and closing the storage writes its old copy over it |
| `ErrTry` | | `ErrorsReported` | an error followed by a warning in one clause is not reported |
| `PluginSearch` | | `MissingIsReloadedByAll` | the hash of the storage plugins is taken with a pattern that matches nothing; after a change of the path, only the first lookup that fails reloads |
| `ArrayViews` | `Shapes <- MCMatrix`, `AllCalls = TRUE` | `ViewExact` | a view that is not continuous is sliced as if it were |
| `ArrayViews` | `Slices <- MCBack` | `ViewExact` | a position counted from the back is another one unless the size divides 2^64 |
| `ArrayViews` | `Slices <- MCThird` | `ViewExact` | a slice whose step does not divide the range loses its last element |

`PropertyMemory` has three more, as the causes that `CallsSafe` names.


## 12. Not modelled

- Hashes and text formats: neither reference counts nor memory depend on them.
- `utils/map.c` (vendored): used as a function.
- The collection entity among the static schemas: it is never created from or
  freed otherwise than the entity schema.
- Push and pull of snapshots to a storage: they refuse every storage without
  `dliteTransaction`, which no driver of the repository sets.
- The path of `_instance_load_casted()` for drivers without `loadInstance` (HDF5),
  which builds an instance through the data model API: planned, below.
- Extended metadata with `_setdim` and `_loadprop` of their own in `Properties`; copying an
  instance to its own id, or to the id of an instance of other metadata (the code compares
  dimensions only); properties that are relations, references or descriptions.
- Glob patterns on the search path of storages (each match is opened as one more file), the
  lookup at `http://onto-ns.com/`, and changes to that path.
- Two input instances of a mapping with the same metadata, and mappings of strings.
- Relations between the members of a collection, copies and hashes of collections, iterators over
  members that stay open over other calls.
- Streams, prefixes and texts of error messages; `err_set_state()` between modules.
- Storage drivers, the embedded Python, SWIG and Fortran bindings and the
  Redland triple store are glue to external libraries.
- Text generation, file names, URLs, BSON, casts of values to and from text: long but
  sequential functions on strings, without state between calls.

Out of the prover's reach are liveness under fairness and `ENABLED`, recursive operators, and
the induction theorems of the library, which take an operator as parameter.  So `CallsReturn`,
the properties of `Collection` and `ValueExact` of `Infix`, which use recursive
operators, stay with TLC.  Recursive *functions* are within reach: `PropertiesProofs`,
`PluginsProofs` and `MappingProofs` prove what they compute, by induction over a set.


## 13. Plan

Done: `InstanceStore` with its proofs, `TripleSet`, `TripleStore`, `Mapping`, `Storage`,
`Properties`, `Errors`, `Plugins`, `Collection`, `Arrays`, `Infix`.

Modules left, with what was observed when reading the code:

1. The data model path of `_instance_load_casted()`: the reference to the metadata is forgotten
   where the dimensions cannot be read (`dlite-entity.c:966`), and `inst->uuid` is changed after the
   instance was added to the instance store (1005).
2. `Store` (`dlite-store.c`): the test at line 72 is the wrong way round, so that loading fails
   for every storage that has instances; freeing a store releases one reference per item,
   whatever its count.
3. `Session` (`utils/session.c`): the default session is a copy of the struct that shares its
   buckets; states are freed in the order of a map while they still can be reached by name.
4. `JStore` (`utils/jstore.c`): removing an entry leaves its label.
5. Casts of integers at the limits of a width, and the table of behaviors.

Proved: all safety properties of the runs of `InstanceStore`, `TripleStore`, `Storage`,
`Mapping`, `Properties`, `Errors` and `Plugins`, and `AcceptedIsBalanced` of `Infix`.

Only model-checked: `CallsReturn` of `InstanceStore` (liveness); `RefsExact`, `SavedComplete` and
`CallsSafe` of `Collection`; `ViewExact` and `IterationExact` of `Arrays`; `ValueExact` of `Infix`.

Theorems left, in this order: `ViewExact`, for slices and transpositions, by the sum over the
strides as in `ResizingKeeps`; `RefsExact` of `Collection`, after its recursion is a
stack of frames as in `Mapping`; `ValueExact`, with a reference that is a recursive
function on the positions of the text.
