------------------------------ MODULE Storage ------------------------------
(***************************************************************************)
(* Storages (src/src/dlite-storage.c), with the JSON driver                *)
(* (src/storages/json/dlite-json-storage.c) and the search for an instance *)
(* in dlite_instance_get() (src/src/dlite-entity.c).                       *)
(*                                                                         *)
(* An open storage has a reference count, shared by its owner and its      *)
(* iterators, a copy of its file, which is written back when it is closed, *)
(* and a cache of the instances loaded from it.  Open readable storages    *)
(* are on the hot list, where dlite_instance_get() looks first; then it    *)
(* opens the storages on the search path one by one.  Loading an instance  *)
(* gets its metadata in the same way, while the outer search is under way: *)
(* `stack` holds the frames of this recursion.                             *)
(*                                                                         *)
(* One public call runs at a time.  Instances are their ids here: metadata *)
(* stay in memory, data as long as the application holds them (module      *)
(* InstanceStore).                                                         *)
(***************************************************************************)
EXTENDS Integers, Sequences, FiniteSets, FiniteSetsExt

CONSTANTS
    Slots,        \* addresses for open storages
    Locs,         \* JSON files
    Ids, MetaIds, \* instances, and those that are metadata
    MetaOf,       \* [Ids -> MetaIds \cup {NULL}], NULL is a static schema
    Broken,       \* ids whose json text cannot be parsed
    File0,        \* initial content: [Locs -> {NULL} \cup SUBSET Ids]
    Path,         \* search path: sequence of files
    NULL,
    Opens,        \* what the application opens: <<file, mode>>
    AskIds,       \* instances the application gets or loads
    NewIds,       \* data instances the application may create
    SaveIds,      \* instances the application saves
    FreeCached,   \* may an instance be freed that an open storage caches?
    MaxOwn,       \* bound: storages the application has open
    MaxIters,     \* bound: iterators
    Chunk,        \* HOTLIST_CHUNK_LENGTH
    PtrSize       \* size of a pointer in bytes

ASSUME IdAssumption ==
    /\ MetaIds \subseteq Ids /\ MetaOf \in [Ids -> MetaIds \cup {NULL}]
    /\ Broken \subseteq Ids /\ NewIds \subseteq Ids \ MetaIds
    /\ SaveIds \subseteq Ids /\ AskIds \subseteq Ids
    /\ NULL \notin Ids \cup Slots \cup Locs
ASSUME LocAssumption ==
    /\ File0 \in [Locs -> {NULL} \cup SUBSET Ids] /\ Path \in Seq(Locs)
    /\ Opens \subseteq Locs \X {"r", "w", "a"}
ASSUME BoundAssumption ==
    /\ IsFiniteSet(Slots) /\ MaxIters \in Nat /\ MaxOwn \in Nat
    /\ FreeCached \in BOOLEAN
    /\ Chunk \in Nat \ {0} /\ PtrSize \in Nat \ {0}

VARIABLES
    file,      \* [Locs -> {NULL} \cup SUBSET Ids], NULL is no file
    storage,   \* [Slots -> {NULL} \cup Storages]
    hot,       \* g->hotlist: <<slot, ...>>
    capacity,  \* h->length
    room,      \* number of pointers that fit in h->storages
    crowded,   \* history variable: `hot` has been longer than two chunks
    mem,       \* instances in memory
    stack,     \* frames of dlite_instance_get() and its callers
    ret        \* what the innermost frame returned: [id, val] or NULL

hotlist == <<hot, capacity, room, crowded>>
vars    == <<file, storage, hotlist, mem, stack, ret>>

\* A cache entry: not there, NULL, an instance, or the address of an instance
\* that has been freed since (nothing in the code marks it).
CacheValues == {"absent", "none", "inst", "freed"}

Storages ==
    [loc : Locs, mode : {"r", "w", "a"},
     jstore : {NULL} \cup SUBSET Ids,   \* js->jstore
     changed : BOOLEAN,                 \* js->changed
     refcount : Nat,
     owned : BOOLEAN,                   \* the application has to close it
     iters : Nat,                       \* its iterators
     cache : [Ids -> CacheValues],
     saved : SUBSET Ids]                \* history: saved with success

ASSUME NullAssumption ==
    /\ NULL \notin Storages \cup CacheValues /\ \A S \in SUBSET Ids : S # NULL
    /\ NULL \notin [id : Ids, val : {"none", "inst", "freed"}]

Open == {s \in Slots : storage[s] # NULL}

Init ==
    /\ file = File0
    /\ storage = [s \in Slots |-> NULL]
    /\ hot = <<>> /\ capacity = 0 /\ room = 0 /\ crowded = FALSE
    /\ mem = {} /\ stack = <<>> /\ ret = NULL

Idle == stack = <<>> /\ ret = NULL

----------------------------------------------------------------------------
(* The hot list.                                                           *)

\* Mutant: the new storage is the first to be asked.
HotAddFirst(s) ==
    /\ hot' = <<s>> \o hot
    /\ crowded' = (crowded \/ Len(hot) + 1 > 2 * Chunk)
    /\ IF capacity <= Len(hot)
       THEN capacity' = capacity + Chunk /\ room' = capacity + Chunk
       ELSE UNCHANGED <<capacity, room>>

\* dlite_storage_hotlist_add()
HotAdd(s) ==
    /\ hot' = Append(hot, s)
    /\ crowded' = (crowded \/ Len(hot) + 1 > 2 * Chunk)
    /\ IF capacity <= Len(hot)
       THEN capacity' = capacity + Chunk /\ room' = capacity + Chunk
       ELSE UNCHANGED <<capacity, room>>

Index(s) == CHOOSE i \in 1..Len(hot) : hot[i] = s

\* Mutant: the last storage does not take the place of s.
HotRemoveLast(s) ==
    /\ hot' = SubSeq(hot, 1, Len(hot) - 1)
    /\ UNCHANGED <<capacity, room, crowded>>

\* dlite_storage_hotlist_remove(): the last one takes the place of s.  When
\* the array is much too large it is reallocated to as many bytes as it
\* should have elements.
HotRemove(s) ==
    LET n == Len(hot) - 1
        length == (n \div Chunk + 2) * Chunk
    IN /\ hot' = SubSeq([hot EXCEPT ![Index(s)] = hot[Len(hot)]], 1, n)
       /\ IF capacity > length
          THEN capacity' = length /\ room' = length \div PtrSize
          ELSE UNCHANGED <<capacity, room>>
       /\ UNCHANGED crowded

----------------------------------------------------------------------------
(* Opening and closing.                                                    *)

Readable(x) == x.mode # "w"

CanOpen(l, m) == m = "w" \/ file[l] # NULL

\* A storage as json_loader() and dlite_storage_open() make it.  The file is
\* read unless the mode is "w".
NewStorage(l, m, own) ==
    [loc |-> l, mode |-> m,
     jstore |-> IF m = "w" THEN NULL ELSE file[l],
     changed |-> FALSE, refcount |-> 1, owned |-> own, iters |-> 0,
     cache |-> [id \in Ids |-> "absent"], saved |-> {}]

\* dlite_storage_open()
OpenAt(s, l, m, own) ==
    /\ storage[s] = NULL /\ CanOpen(l, m)
    /\ storage' = [storage EXCEPT ![s] = NewStorage(l, m, own)]
    /\ IF m = "w" THEN UNCHANGED hotlist ELSE HotAdd(s)

\* json_close() writes the copy back if something was saved.
Written(x) ==
    IF x.jstore # NULL /\ x.mode # "r" /\ x.changed
    THEN [file EXCEPT ![x.loc] = x.jstore] ELSE file

\* Mutant: closing clears the mark, although only the last close writes.
CloseAsOwner(s, x) ==
    IF x.refcount > 1
    THEN /\ storage' = [storage EXCEPT ![s] = [x EXCEPT !.refcount = @ - 1,
                                                        !.changed = FALSE]]
         /\ UNCHANGED <<file, hotlist>>
    ELSE /\ storage' = [storage EXCEPT ![s] = NULL]
         /\ file' = Written(x)
         /\ IF Readable(x) THEN HotRemove(s) ELSE UNCHANGED hotlist

\* dlite_storage_close() of the storage in s, which has become x: "Only free
\* the storage when there are no more references to it."
CloseAs(s, x) ==
    IF x.refcount > 1
    THEN /\ storage' = [storage EXCEPT ![s] = [x EXCEPT !.refcount = @ - 1]]
         /\ UNCHANGED <<file, hotlist>>
    ELSE /\ storage' = [storage EXCEPT ![s] = NULL]
         /\ file' = Written(x)
         /\ IF Readable(x) THEN HotRemove(s) ELSE UNCHANGED hotlist

OpenStorage(s, l, m) ==
    /\ Idle /\ Cardinality(Open) < MaxOwn
    /\ OpenAt(s, l, m, TRUE)
    /\ UNCHANGED <<file, mem, stack, ret>>

CloseStorage(s) ==
    /\ Idle /\ s \in Open /\ storage[s].owned
    /\ CloseAs(s, [storage[s] EXCEPT !.owned = FALSE])
    /\ UNCHANGED <<mem, stack, ret>>

Iterators == MapThenSumSet(LAMBDA s : storage[s].iters, Open)

\* Mutant: an iterator takes no reference.
IterCreateUncounted(s) ==
    /\ Idle /\ s \in Open /\ storage[s].owned
    /\ storage[s].jstore # NULL /\ Iterators < MaxIters
    /\ storage' = [storage EXCEPT ![s].iters = @ + 1]
    /\ UNCHANGED <<file, hotlist, mem, stack, ret>>

\* dlite_storage_iter_create()
IterCreate(s) ==
    /\ Idle /\ s \in Open /\ storage[s].owned
    /\ storage[s].jstore # NULL /\ Iterators < MaxIters
    /\ storage' = [storage EXCEPT ![s].iters = @ + 1, ![s].refcount = @ + 1]
    /\ UNCHANGED <<file, hotlist, mem, stack, ret>>

\* dlite_storage_iter_free() ends with dlite_storage_close().
IterFree(s) ==
    /\ Idle /\ s \in Open /\ storage[s].iters > 0
    /\ CloseAs(s, [storage[s] EXCEPT !.iters = @ - 1])
    /\ UNCHANGED <<mem, stack, ret>>

----------------------------------------------------------------------------
(* Instances of the application.                                           *)

\* dlite_instance_create() of data (module InstanceStore)
CreateInstance(id) ==
    /\ Idle /\ id \notin mem /\ MetaOf[id] \in mem \cup {NULL}
    /\ mem' = mem \cup {id}
    /\ UNCHANGED <<file, storage, hotlist, stack, ret>>

Caching(id) == {s \in Open : storage[s].cache[id] = "inst"}

\* The last dlite_instance_decref() of data (module InstanceStore)
FreeInstance(id) ==
    /\ Idle /\ id \in mem \ MetaIds
    /\ FreeCached \/ Caching(id) = {}
    /\ mem' = mem \ {id}
    /\ storage' = [s \in Slots |-> IF s \in Caching(id)
                      THEN [storage[s] EXCEPT !.cache[id] = "freed"]
                      ELSE storage[s]]
    /\ UNCHANGED <<file, hotlist, stack, ret>>

Copy(x) == IF x.jstore = NULL THEN {} ELSE x.jstore

\* json_save() of data, in the default format: into the copy of the file
SaveData(s, id) ==
    /\ storage[s].mode # "r" /\ id \notin MetaIds
    /\ storage' = [storage EXCEPT ![s].jstore = Copy(storage[s]) \cup {id},
                                  ![s].changed = TRUE,
                                  ![s].saved = @ \cup {id}]
    /\ UNCHANGED file

\* json_save() of metadata: in single-entity format, to the file at once.
\* It is refused when something was saved before.
SaveMeta(s, id) ==
    /\ storage[s].mode # "r" /\ id \in MetaIds /\ ~storage[s].changed
    /\ file' = [file EXCEPT ![storage[s].loc] = {id}]
    /\ storage' = [storage EXCEPT ![s].changed = TRUE,
                                  ![s].saved = @ \cup {id}]

\* dlite_instance_save()
Save(s, id) ==
    /\ Idle /\ s \in Open /\ storage[s].owned /\ id \in mem
    /\ SaveData(s, id) \/ SaveMeta(s, id)
    /\ UNCHANGED <<hotlist, mem, stack, ret>>

----------------------------------------------------------------------------
(* Loading.  A frame is a search for the instance `id`.  It looks in the   *)
(* hot list from `pos` on (stage "hot"), then in the storages that it      *)
(* opens along the path (stage "path"); or it looks in one storage only,   *)
(* which belongs to the application ("given") or was opened for this       *)
(* purpose ("opened").  While it loads from a storage this is `src`; the   *)
(* frame may wait for the metadata; `res` is what the storage gave.        *)

Frame(id, stage, s) ==
    [id |-> id, stage |-> stage, pos |-> 0, path |-> 0, src |-> s,
     wait |-> FALSE, res |-> NULL,
     asked |-> {}]                      \* history: hot storages asked

\* A search for id starts; rest are the frames that wait for it.
Begin(id, rest) ==
    IF id \in mem
    THEN stack' = rest /\ ret' = [id |-> id, val |-> "inst"]
    ELSE stack' = <<Frame(id, "hot", NULL)>> \o rest /\ ret' = NULL

\* dlite_instance_get()
Get(id) ==
    /\ Idle /\ Begin(id, <<>>)
    /\ UNCHANGED <<file, storage, hotlist, mem>>

\* dlite_instance_load() from a storage of the application
Load(s, id) ==
    /\ Idle /\ s \in Open /\ storage[s].owned /\ id \notin mem
    /\ stack' = <<Frame(id, "given", s)>>
    /\ UNCHANGED <<file, storage, hotlist, mem, ret>>

\* dlite_instance_load_loc()
LoadLoc(s, l, id) ==
    /\ Idle /\ id \notin mem
    /\ OpenAt(s, l, "r", FALSE)
    /\ stack' = <<Frame(id, "opened", s)>>
    /\ UNCHANGED <<file, mem, ret>>

Top == Head(stack)
Under(f) == <<f>> \o Tail(stack)
Running == stack # <<>> /\ ret = NULL

\* The next storage of the hot list, until there are no more
NextHot ==
    /\ Running /\ Top.stage = "hot" /\ Top.src = NULL
    /\ stack' = Under(IF Top.pos < Len(hot)
                      THEN [Top EXCEPT !.pos = @ + 1, !.src = hot[Top.pos + 1],
                                       !.asked = @ \cup {hot[Top.pos + 1]}]
                      ELSE [Top EXCEPT !.stage = "path"])
    /\ UNCHANGED <<file, storage, hotlist, mem, ret>>

OnPath == Running /\ Top.stage = "path" /\ Top.src = NULL

\* The next storage of the path is opened, in read-only mode.
NextPath(s) ==
    /\ OnPath /\ Top.path < Len(Path)
    /\ OpenAt(s, Path[Top.path + 1], "r", FALSE)
    /\ stack' = Under([Top EXCEPT !.path = @ + 1, !.src = s])
    /\ UNCHANGED <<file, mem, ret>>

\* It cannot be opened: "suppressed error"
SkipPath ==
    /\ OnPath /\ Top.path < Len(Path)
    /\ ~CanOpen(Path[Top.path + 1], "r")
    /\ stack' = Under([Top EXCEPT !.path = @ + 1])
    /\ UNCHANGED <<file, storage, hotlist, mem, ret>>

\* The innermost frame returns v.
Return(v) ==
    /\ stack' = Tail(stack)
    /\ ret' = [id |-> Top.id, val |-> v]

NotFound ==
    /\ OnPath /\ Top.path = Len(Path)
    /\ Return("none")
    /\ UNCHANGED <<file, storage, hotlist, mem>>

\* dlite_storage_load() of the innermost frame
Asking == Running /\ Top.src # NULL /\ Top.res = NULL /\ ~Top.wait
Cached == storage[Top.src].cache[Top.id]
SetCache(v) == storage' = [storage EXCEPT ![Top.src].cache[Top.id] = v]

\* "map_get(cache)": neither a reference nor a check
LoadCached ==
    /\ Asking /\ Cached # "absent"
    /\ stack' = Under([Top EXCEPT !.res = Cached])
    /\ UNCHANGED <<file, storage, hotlist, mem, ret>>

\* json_load() does not find it.
LoadMissing ==
    /\ Asking /\ Cached = "absent" /\ Top.id \notin Copy(storage[Top.src])
    /\ SetCache("none")
    /\ stack' = Under([Top EXCEPT !.res = "none"])
    /\ UNCHANGED <<file, hotlist, mem, ret>>

\* parse_instance() asks for the metadata.  The NULL in the cache says that
\* the instance is about to be loaded.
LoadStored ==
    /\ Asking /\ Cached = "absent" /\ Top.id \in Copy(storage[Top.src])
    /\ SetCache("none")
    /\ LET waiting == Under([Top EXCEPT !.wait = TRUE])
       IN IF MetaOf[Top.id] = NULL
          THEN stack' = waiting /\ ret' = [id |-> Top.id, val |-> "inst"]
          ELSE Begin(MetaOf[Top.id], waiting)
    /\ UNCHANGED <<file, hotlist, mem>>

\* Mutant: what cannot be parsed is returned all the same.
MetaReturnedUnparsed ==
    /\ stack # <<>> /\ ret # NULL
    /\ LET ok == ret.val # "none" /\ Top.id \notin Broken
       IN /\ stack' = Under([Top EXCEPT !.wait = FALSE, !.res = ret.val])
          /\ SetCache(ret.val)
          /\ mem' = IF ok THEN mem \cup {Top.id} ELSE mem
    /\ ret' = NULL
    /\ UNCHANGED <<file, hotlist>>

\* The metadata is there, or it is not.
MetaReturned ==
    /\ stack # <<>> /\ ret # NULL
    /\ LET ok == ret.val # "none" /\ Top.id \notin Broken
           v == IF ok THEN "inst" ELSE "none"
       IN /\ stack' = Under([Top EXCEPT !.wait = FALSE, !.res = v])
          /\ SetCache(v)
          /\ mem' = IF ok THEN mem \cup {Top.id} ELSE mem
    /\ ret' = NULL
    /\ UNCHANGED <<file, hotlist>>

\* The storage has answered.  A storage that was opened for the search is
\* closed; the search goes on if it found nothing and has more to ask.
Answered ==
    /\ Running /\ Top.res # NULL
    /\ IF Top.stage \in {"path", "opened"}
       THEN CloseAs(Top.src, storage[Top.src])
       ELSE UNCHANGED <<file, storage, hotlist>>
    /\ IF Top.res = "none" /\ Top.stage \in {"hot", "path"}
       THEN stack' = Under([Top EXCEPT !.src = NULL, !.res = NULL])
            /\ UNCHANGED ret
       ELSE Return(Top.res)
    /\ UNCHANGED mem

\* The public call returns.
Done ==
    /\ stack = <<>> /\ ret # NULL
    /\ ret' = NULL
    /\ UNCHANGED <<file, storage, hotlist, mem, stack>>

----------------------------------------------------------------------------
Api ==
    \/ \E s \in Slots, lm \in Opens : OpenStorage(s, lm[1], lm[2])
    \/ \E s \in Slots : CloseStorage(s) \/ IterCreate(s) \/ IterFree(s)
    \/ \E id \in NewIds : CreateInstance(id)
    \/ \E id \in Ids : FreeInstance(id)
    \/ \E s \in Slots, id \in SaveIds : Save(s, id)
    \/ \E id \in AskIds : Get(id)
    \/ \E s \in Slots, id \in AskIds : Load(s, id)
    \/ \E s \in Slots, id \in AskIds, l \in Locs :
          <<l, "r">> \in Opens /\ LoadLoc(s, l, id)

Internal ==
    \/ NextHot \/ (\E s \in Slots : NextPath(s)) \/ SkipPath \/ NotFound
    \/ LoadCached \/ LoadMissing \/ LoadStored \/ MetaReturned
    \/ Answered \/ Done

Next == Api \/ Internal

Spec == Init /\ [][Next]_vars
----------------------------------------------------------------------------
(* Properties.                                                             *)

One(b) == IF b THEN 1 ELSE 0

Results == {"none", "inst", "freed"}

Frames ==
    [id : Ids, stage : {"hot", "path", "given", "opened"},
     pos : Nat, path : 0..Len(Path), src : Slots \cup {NULL},
     wait : BOOLEAN, res : Results \cup {NULL}, asked : SUBSET Slots]

TypeOK ==
    /\ file \in [Locs -> {NULL} \cup SUBSET Ids]
    /\ storage \in [Slots -> {NULL} \cup Storages]
    /\ hot \in Seq(Slots)
    /\ capacity \in Nat /\ room \in Nat /\ crowded \in BOOLEAN
    /\ mem \in SUBSET Ids
    /\ ret \in {NULL} \cup [id : Ids, val : Results]
    /\ stack \in Seq(Frames)

\* The frames that opened the storage s and have to close it
Opened(s) ==
    {k \in 1..Len(stack) : stack[k].src = s
                           /\ stack[k].stage \in {"path", "opened"}}

\* A storage is open as long as its owner, an iterator or a search uses it,
\* and every search loads from an open storage.
RefsExact ==
    /\ \A s \in Open :
          /\ storage[s].refcount > 0
          /\ storage[s].refcount = One(storage[s].owned) + storage[s].iters
                                   + Cardinality(Opened(s))
    /\ \A k \in 1..Len(stack) : stack[k].src \in Open \cup {NULL}

\* "Hotlist of open storages for fast lookup of instances": it contains the
\* open storages that can be read, each of them once.
HotExact ==
    /\ \A i, j \in 1..Len(hot) : hot[i] = hot[j] => i = j
    /\ {hot[i] : i \in 1..Len(hot)} = {s \in Open : Readable(storage[s])}

\* The hot list is inside of its allocated memory as long as there were never
\* more than two chunks of open storages.
HotFits == ~crowded => Len(hot) <= room

\* The hot list is exact and inside of its memory while storages are opened and
\* closed by the application, by iterators and by nested searches.
HotListExact == TypeOK /\ HotExact /\ HotFits

\* A search that goes on to the path has asked every storage of the hot list,
\* although the searches for metadata in between added to and removed from it.
HotAsked ==
    OnPath => \A i \in 1..Len(hot) : hot[i] \in Top.asked

\* A search that gives up has missed nothing on the path, although there are
\* caches that remember failures: what a file holds cannot be parsed, or its
\* metadata cannot be found.
PathSearched ==
    OnPath /\ Top.path = Len(Path) =>
       \A k \in 1..Len(Path) :
          file[Path[k]] # NULL /\ Top.id \in file[Path[k]] =>
             Top.id \in Broken \/ MetaOf[Top.id] \notin mem \cup {NULL}

\* A search ends only after all storages that could have the instance were
\* asked, first those that are hot and then those of the path.
SearchComplete == HotAsked /\ PathSearched

\* dlite_instance_load() "returns a new and fully initialised dlite
\* instance", and so does dlite_instance_get().
ReturnsLive == ret # NULL /\ ret.val # "none" /\ stack = <<>> => ret.id \in mem

\* Data that dlite_instance_save() stored with success are in the file when the
\* storage is closed, however many iterators kept it open meanwhile.
DataIsKept ==
    [][\A s \in Open : s \notin Open' =>
          storage[s].saved \ MetaIds \subseteq file'[storage[s].loc]]_vars

\* So is every instance that json_save() stored: "Saves instance `inst` to
\* storage `s`.  Returns non-zero on error."
SavedIsKept ==
    [][\A s \in Open : s \notin Open' =>
          storage[s].saved \subseteq file'[storage[s].loc]]_vars

----------------------------------------------------------------------------
(* What keeps the properties above true from step to step.                 *)

\* The frame has opened its storage.
Opener(f) == f.src # NULL /\ f.stage \in {"path", "opened"}

\* All frames but the innermost one wait for metadata, which is asked for while
\* a storage is read; the innermost one waits only for what has been returned.
FrameExact(f, waits) ==
    /\ f.wait <=> waits
    /\ f.wait => f.src # NULL /\ f.res = NULL
    /\ f.res # NULL => f.src # NULL
    /\ f.stage \in {"given", "opened"} => f.src # NULL

\* What a search opens is new: no search that waits for it uses the storage.
StackOf(frames, waits, open) ==
    /\ \A k \in 1..Len(frames) :
          /\ FrameExact(frames[k], k > 1 \/ waits)
          /\ frames[k].src \in open \cup {NULL}
    /\ \A j, k \in 1..Len(frames) :
          j < k /\ Opener(frames[j]) => frames[k].src # frames[j].src

StackExact == StackOf(stack, ret # NULL, Open)

\* So there is one search at most that has opened the storage s.
SearchedIn(frames, s) ==
    \E k \in 1..Len(frames) : Opener(frames[k]) /\ frames[k].src = s

Searches(frames, s) == One(SearchedIn(frames, s))

CountOf(x, searches) ==
    /\ x.refcount > 0
    /\ x.refcount = One(x.owned) + x.iters + searches

CountExact == \A s \in Open : CountOf(storage[s], Searches(stack, s))

\* The first two chunks of the hot list are allocated one by one, and never
\* given back.
RoomExact ==
    ~crowded => /\ capacity \in {0, Chunk, 2 * Chunk} /\ room = capacity
                /\ Len(hot) <= capacity

\* Data that were saved are in the copy, and the copy will be written.
CopyOf(x) ==
    x.saved \ MetaIds # {} =>
       x.changed /\ x.mode # "r" /\ x.saved \ MetaIds \subseteq Copy(x)

CopyExact == \A s \in Open : CopyOf(storage[s])

IInv == TypeOK /\ StackExact /\ CountExact /\ HotExact /\ RoomExact /\ CopyExact

\* As long as no instance is freed that a storage caches, what caches, frames
\* and results refer to is in memory.
Live(id, v) == v # "freed" /\ (v = "inst" => id \in mem)

CachesLive ==
    /\ \A s \in Open, id \in Ids : Live(id, storage[s].cache[id])
    /\ \A k \in 1..Len(stack) : Live(stack[k].id, stack[k].res)
    /\ ret # NULL => /\ ret.val # "freed"
                     /\ stack = <<>> => Live(ret.id, ret.val)

\* The storages that searches have opened belong to nobody else.
OpenersOwn ==
    \A k \in 1..Len(stack) : Opener(stack[k]) =>
       LET x == storage[stack[k].src]
       IN  x.mode = "r" /\ ~x.owned /\ x.iters = 0

\* One of the first n frames has opened the storage s.
OpenedBy(frames, n, s) ==
    \E j \in 1..Len(frames) : j <= n /\ Opener(frames[j]) /\ frames[j].src = s

\* A search that is at a position of the hot list has asked everything before,
\* and no search within it has opened any of this.  A search on the path has
\* asked everything but what it opened itself, or searches within it.  What a
\* search has opened is followed by what searches within it have opened.
PlaceOf(frames, h) ==
    \A k \in 1..Len(frames) :
       LET f == frames[k]
       IN  /\ f.stage = "hot" =>
                /\ f.pos <= Len(h)
                /\ \A i \in 1..f.pos : h[i] \in f.asked /\ ~OpenedBy(frames, k - 1, h[i])
           /\ f.stage = "path" =>
                \A i \in 1..Len(h) : h[i] \in f.asked \/ OpenedBy(frames, k, h[i])
           /\ Opener(f) =>
                \A i, j \in 1..Len(h) :
                   i < j /\ h[i] = f.src => OpenedBy(frames, k - 1, h[j])

PlaceExact == PlaceOf(stack, hot)

\* Every frame searches for the metadata of the frame that waits for it, and for
\* nothing that is in memory before the innermost one has loaded it.
Sought(frames) ==
    \A k \in 1..Len(frames) :
       /\ k > 1 => frames[k - 1].id = MetaOf[frames[k].id]
       /\ frames[k].id \in mem => k = 1 /\ frames[k].res = "inst"
       /\ frames[k].stage = "hot" => frames[k].path = 0

\* The innermost frame is given its metadata if they are in memory.
RetExact ==
    ret # NULL /\ stack # <<>> =>
       IF MetaOf[Top.id] = NULL THEN ret.val = "inst"
       ELSE ret.id = MetaOf[Top.id] /\ (ret.val = "none" <=> ret.id \notin mem)

\* What the first n files of the path have of id cannot be loaded.
Missed(id, n) ==
    \A k \in 1..Len(Path) :
       k <= n /\ file[Path[k]] # NULL /\ id \in file[Path[k]] =>
          id \in Broken \/ MetaOf[id] \notin mem \cup {NULL}

\* A search on the path has missed nothing in the files that it is done with,
\* and what it asks next is a new copy of the file.
PathExact ==
    Running /\ Top.stage = "path" =>
       /\ Top.src = NULL \/ Top.res = "none" => Missed(Top.id, Top.path)
       /\ Asking =>
            /\ Missed(Top.id, Top.path - 1) /\ Top.path > 0
            /\ storage[Top.src].cache[Top.id] = "absent"
            /\ storage[Top.src].jstore = file[Path[Top.path]]

SearchExact == OpenersOwn /\ PlaceExact
MissExact == Sought(stack) /\ RetExact /\ PathExact
=============================================================================
