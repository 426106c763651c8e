--------------------------- MODULE InstanceStore ---------------------------
(***************************************************************************)
(* The instances of DLite, their reference counts and the in-memory        *)
(* instance store (src/src/dlite-entity.c, with the loader of              *)
(* src/src/dlite-json.c).                                                  *)
(*                                                                         *)
(* A heap address holds one DLiteInstance.  Application code owns          *)
(* references in named handles; the other owners of references are the     *)
(* instance store (metadata only), the `meta` and `_parent` members of     *)
(* live instances and the local variables of a call in progress.  One      *)
(* public call runs at a time.  A call that only moves references is one   *)
(* step; dlite_instance_get() recurses to fetch metadata and               *)
(* dlite_instance_decref() recurses to free, so the frames of these two    *)
(* recursions are the variables `loading` and `freeing`.                   *)
(***************************************************************************)
EXTENDS Integers, Sequences, FiniteSets

CONSTANTS
    Addr,        \* heap addresses an instance may have
    Basic,       \* address of the static basic metadata schema
    Entity,      \* address of the static entity schema
    Ids,         \* UUIDs
    BasicId, EntityId,
    MetaIds,     \* ids that name metadata, the others name data instances
    Handles,     \* references owned by application code
    Dims,        \* possible dimension sizes
    NULL,
    Stored,      \* content of the storages: id -> [meta, dims, wellformed]
    NewIds,      \* ids the application gives to instances it creates
    WorkIds,     \* instances the application freezes, copies and snapshots
    HasIds,      \* ids asked for with dlite_instance_has(id, 1)
    ScanIds,     \* stored json objects scanned without stating their id
    ScanShared,  \* may a malformed one be scanned when it is in use?
    ForgetIds,   \* metadata whose store reference the application may drop
    Reuse,       \* may the application create or copy onto an id in use?
    BorrowParents, \* may it set a parent on which it holds no reference?
    MaxLost      \* bound: references leaked to one instance

Schema == {Basic, Entity}

ASSUME NullAssumption == NULL \notin Addr /\ NULL \notin Ids
ASSUME SchemaAssumption ==
    /\ Schema \subseteq Addr /\ Basic # Entity
    /\ {BasicId, EntityId} \subseteq MetaIds /\ BasicId # EntityId
    /\ MetaIds \subseteq Ids
ASSUME FiniteAssumption ==
    IsFiniteSet(Addr) /\ IsFiniteSet(Handles) /\ IsFiniteSet(Ids)
ASSUME StoredAssumption ==
    /\ DOMAIN Stored \subseteq Ids \ {BasicId, EntityId}
    /\ \A id \in DOMAIN Stored :
          Stored[id] \in [meta : MetaIds, dims : Dims, wellformed : BOOLEAN]
    /\ ScanIds \subseteq DOMAIN Stored /\ ScanShared \in BOOLEAN
ASSUME InputAssumption ==
    /\ NewIds \subseteq Ids /\ WorkIds \subseteq Ids
    /\ HasIds \subseteq Ids /\ ForgetIds \subseteq Ids
    /\ Reuse \in BOOLEAN /\ BorrowParents \in BOOLEAN
    /\ MaxLost \in Nat /\ 0 \in Dims

VARIABLES
    uuid,        \* [Addr -> id or NULL]: the address is allocated iff not NULL
    meta,        \* [Addr -> address or NULL]: inst->meta
    parent,      \* [Addr -> address or NULL]: inst->_parent->parent
    replaced,    \* address or NULL: the instance whose parent has been given
                 \* back but is still in inst->_parent->parent
    frozen,      \* [Addr -> BOOLEAN]: the dliteImmutable flag
    dims,        \* [Addr -> Dims]
    refcount,    \* [Addr -> Nat]: inst->_refcount
    istore,      \* [Ids -> address or NULL]: the instance store
    hold,        \* metadata on which the store holds a reference
    handle,      \* [Handles -> address or NULL]: owned by the application
    call,        \* the public call in progress
    loading,     \* ids being loaded, innermost first
    lmeta,       \* address or NULL: local `meta` of the innermost frame
    got,         \* address or NULL: reference returned by dlite_instance_get()
    freeing,     \* addresses being freed, innermost first
    borrowed,    \* address or NULL: what dlite_instance_has() last returned
    lost         \* [Addr -> Nat]: history variable, references leaked

heap  == <<uuid, meta, parent, replaced, frozen, dims>>
calls == <<call, loading, lmeta, got, borrowed>>
vars  == <<heap, refcount, istore, hold, handle, calls, freeing, lost>>

NoCall == [op |-> "none", h |-> NULL, id |-> NULL, dims |-> 0, to |-> NULL]

Free == {a \in Addr : uuid[a] = NULL}

\* dlite_meta_is_metameta(): the instances of m are metadata.
IsMetaMeta(m) == meta[m] = Basic
IsMeta(o) == IsMetaMeta(meta[o])

Init ==
    /\ uuid = [a \in Addr |-> IF a = Basic THEN BasicId
                              ELSE IF a = Entity THEN EntityId ELSE NULL]
    /\ meta = [a \in Addr |-> IF a \in Schema THEN Basic ELSE NULL]
    /\ parent = [a \in Addr |-> NULL] /\ replaced = NULL
    /\ frozen = [a \in Addr |-> FALSE]
    /\ dims = [a \in Addr |-> 0]
    /\ refcount = [a \in Addr |-> IF a \in Schema THEN 2 ELSE 0]
    /\ istore = [id \in Ids |-> IF id = BasicId THEN Basic
                                ELSE IF id = EntityId THEN Entity ELSE NULL]
    /\ hold = Schema
    /\ handle = [h \in Handles |-> NULL]
    /\ call = NoCall /\ loading = <<>> /\ lmeta = NULL
    /\ got = NULL /\ freeing = <<>> /\ borrowed = NULL
    /\ lost = [a \in Addr |-> 0]

----------------------------------------------------------------------------
(* Building blocks.  `rc` is the value of the reference counts when the    *)
(* block starts.                                                           *)

Idle == call = NoCall /\ freeing = <<>>

\* dlite_instance_incref()
Incref(rc, o) == [rc EXCEPT ![o] = @ + 1]

\* Mutant: a freed instance stays in the store.
ReleaseKeepStored(rc, o, rest) ==
    /\ refcount' = [rc EXCEPT ![o] = @ - 1]
    /\ istore' = istore
    /\ freeing' = IF rc[o] = 1 THEN <<o>> \o rest ELSE rest

\* dlite_instance_decref(): the last reference takes the instance out of the
\* store and starts dlite_instance_free().  The count is zero by then, so
\* the store does not release its own reference.  `rest` are the frees that
\* go on when this one is finished.
Release(rc, o, rest) ==
    /\ refcount' = [rc EXCEPT ![o] = @ - 1]
    /\ IF rc[o] = 1
       THEN /\ istore' = [istore EXCEPT ![uuid[o]] = NULL]
            /\ freeing' = <<o>> \o rest
       ELSE istore' = istore /\ freeing' = rest

Decref(rc, o) == Release(rc, o, freeing)

\* The part of _instance_create() that fills in a new instance at a.
NewInstance(a, id, m, d) ==
    /\ uuid' = [uuid EXCEPT ![a] = id]
    /\ meta' = [meta EXCEPT ![a] = m]
    /\ dims' = [dims EXCEPT ![a] = d]
    /\ istore' = [istore EXCEPT ![id] = a]
    /\ hold' = IF IsMetaMeta(m) THEN hold \cup {a} ELSE hold

\* The application may create an instance with this id.
MayUse(id) ==
    istore[id] = NULL \/ (Reuse /\ \A a \in Addr : lost[a] < MaxLost)

\* Mutant: the store takes no reference on the metadata it keeps.
FirstRefsNoStore(m) == 1

\* Its own reference and, for metadata, the one held by the store.
FirstRefs(m) == IF IsMetaMeta(m) THEN 2 ELSE 1

----------------------------------------------------------------------------
(* References the application takes, passes on and gives back.             *)

\* Mutant: the reference is passed on without counting it.
IncrefHandleUncounted(h, h2) ==
    /\ Idle /\ handle[h] # NULL /\ handle[h2] = NULL
    /\ handle' = [handle EXCEPT ![h2] = handle[h]]
    /\ borrowed' = NULL
    /\ UNCHANGED <<heap, refcount, istore, hold, call, loading, lmeta, got,
                   freeing, lost>>

IncrefHandle(h, h2) ==
    /\ Idle /\ handle[h] # NULL /\ handle[h2] = NULL
    /\ handle' = [handle EXCEPT ![h2] = handle[h]]
    /\ refcount' = Incref(refcount, handle[h])
    /\ borrowed' = NULL
    /\ UNCHANGED <<heap, istore, hold, call, loading, lmeta, got,
                   freeing, lost>>

DecrefHandle(h) ==
    /\ Idle /\ handle[h] # NULL
    /\ handle' = [handle EXCEPT ![h] = NULL]
    /\ Decref(refcount, handle[h])
    /\ borrowed' = NULL
    /\ UNCHANGED <<heap, hold, call, loading, lmeta, got, lost>>

\* "It is still possible to remove metadata by explicitly decreasing the
\* refcount hold by the instance store."
ForgetMeta(h) ==
    /\ Idle /\ handle[h] \in hold \ Schema /\ uuid[handle[h]] \in ForgetIds
    /\ hold' = hold \ {handle[h]}
    /\ Decref(refcount, handle[h])
    /\ borrowed' = NULL
    /\ UNCHANGED <<heap, handle, call, loading, lmeta, got, lost>>

----------------------------------------------------------------------------
(* dlite_instance_free(), run by dlite_instance_decref(): release the      *)
(* parent, then the memory, then the metadata.                             *)

FreeParent ==
    /\ freeing # <<>>
    /\ LET o == Head(freeing)
       IN /\ parent[o] # NULL
          /\ parent' = [parent EXCEPT ![o] = NULL]
          /\ Decref(refcount, parent[o])
    /\ UNCHANGED <<uuid, meta, replaced, frozen, dims, hold, handle, calls, lost>>

FreeMemory ==
    /\ freeing # <<>>
    /\ LET o == Head(freeing)
       IN /\ parent[o] = NULL
          /\ uuid' = [uuid EXCEPT ![o] = NULL]
          /\ meta' = [meta EXCEPT ![o] = NULL]
          /\ frozen' = [frozen EXCEPT ![o] = FALSE]
          /\ dims' = [dims EXCEPT ![o] = 0]
          /\ Release(refcount, meta[o], Tail(freeing))
    /\ UNCHANGED <<parent, replaced, hold, handle, calls, lost>>

----------------------------------------------------------------------------
(* dlite_instance_get(): the store first, then the storages.               *)

\* A public call c that starts with dlite_instance_get(id).  A call that
\* finds nothing reports an error and changes nothing.
BeginGet(c, id) ==
    /\ Idle
    /\ call' = c /\ borrowed' = NULL
    /\ \/ /\ istore[id] # NULL
          /\ got' = istore[id]
          /\ refcount' = Incref(refcount, istore[id])
          /\ UNCHANGED loading
       \/ /\ istore[id] = NULL /\ id \in DOMAIN Stored
          /\ loading' = <<id>>
          /\ UNCHANGED <<got, refcount>>
    /\ UNCHANGED <<heap, istore, hold, handle, lmeta, freeing, lost>>

Get(h, id) ==
    /\ handle[h] = NULL
    /\ BeginGet([NoCall EXCEPT !.op = "get", !.h = h], id)

\* dlite_instance_has(id, 1) of an id that is not in the store
Has(id) ==
    /\ istore[id] = NULL
    /\ BeginGet([NoCall EXCEPT !.op = "has"], id)

CreateFromId(h, mid, id, d) ==
    /\ handle[h] = NULL
    /\ (id \in MetaIds) = (mid \in {BasicId, EntityId})
    /\ MayUse(id)
    /\ BeginGet([NoCall EXCEPT !.op = "create", !.h = h, !.id = id, !.dims = d], mid)

\* dlite_json_scan() of a single instance without stating its id: the store
\* is not consulted before the instance is built.
ScanJson(h, id) ==
    /\ Idle /\ handle[h] = NULL
    /\ MayUse(id)
    /\ \/ Stored[id].wellformed \/ istore[id] = NULL \/ ScanShared
       \/ istore[id] \in hold /\ refcount[istore[id]] = 1
    /\ loading' = <<id>>
    /\ call' = [NoCall EXCEPT !.op = "get", !.h = h]
    /\ borrowed' = NULL
    /\ UNCHANGED <<heap, refcount, istore, hold, handle, lmeta, got,
                   freeing, lost>>

Loading == loading # <<>> /\ freeing = <<>>

\* parse_instance(): dlite_meta_get() of the metadata of the instance
FetchMeta ==
    /\ Loading /\ lmeta = NULL
    /\ LET mid == Stored[Head(loading)].meta
       IN \/ /\ istore[mid] # NULL
             /\ lmeta' = istore[mid]
             /\ refcount' = Incref(refcount, istore[mid])
             /\ UNCHANGED <<loading, call>>
          \/ /\ istore[mid] = NULL /\ mid \in DOMAIN Stored
             /\ loading' = <<mid>> \o loading
             /\ UNCHANGED <<lmeta, refcount, call>>
          \/ /\ istore[mid] = NULL /\ mid \notin DOMAIN Stored
             /\ loading' = <<>> /\ call' = NoCall
             /\ UNCHANGED <<lmeta, refcount>>
    /\ UNCHANGED <<heap, istore, hold, handle, got, borrowed, freeing, lost>>

\* The innermost frame returns x to the frame that waits for metadata, or to
\* the public call.
Return(x) ==
    /\ loading' = Tail(loading)
    /\ IF Tail(loading) = <<>> THEN got' = x /\ lmeta' = NULL
                               ELSE lmeta' = x /\ UNCHANGED got

Building == Loading /\ lmeta # NULL

\* Mutant: parse_instance() does not release the metadata it fetched after
\* dlite_instance_create() took a reference of its own.
BuildNewKeepsMeta(a) ==
    /\ Building
    /\ LET id == Head(loading)
       IN /\ istore[id] = NULL /\ Stored[id].wellformed
          /\ NewInstance(a, id, lmeta, Stored[id].dims)
          /\ refcount' = [refcount EXCEPT ![a] = FirstRefs(lmeta),
                                          ![lmeta] = @ + 1]
          /\ Return(a)
    /\ UNCHANGED <<parent, replaced, frozen, handle, call, freeing, borrowed,
                   lost>>

\* parse_instance() creates a new instance and hands its own reference to
\* the metadata over to it.
BuildNew(a) ==
    /\ Building
    /\ LET id == Head(loading)
       IN /\ istore[id] = NULL /\ Stored[id].wellformed
          /\ NewInstance(a, id, lmeta, Stored[id].dims)
          /\ refcount' = [refcount EXCEPT ![a] = FirstRefs(lmeta)]
          /\ Return(a)
    /\ UNCHANGED <<parent, replaced, frozen, handle, call, freeing, borrowed,
                   lost>>

\* Mutant: the metadata is released and the instance is tried again.
BuildRetries ==
    /\ Building
    /\ istore[Head(loading)] = NULL
    /\ ~Stored[Head(loading)].wellformed \/ Free = {}
    /\ Decref(refcount, lmeta)
    /\ lmeta' = NULL
    /\ UNCHANGED <<heap, hold, handle, call, loading, got, borrowed, lost>>

\* The properties cannot be read (or there is no memory): the new instance
\* is destroyed and every waiting frame fails.  `lmeta` is still owned.
BuildFails ==
    /\ Building
    /\ istore[Head(loading)] = NULL
    /\ ~Stored[Head(loading)].wellformed \/ Free = {}
    /\ loading' = <<>>
    /\ UNCHANGED <<heap, refcount, istore, hold, handle, call, lmeta,
                   got, freeing, borrowed, lost>>

\* The instance exists already: dlite_instance_create() returns it and the
\* properties are read into it.  When they cannot be read, the loop "until
\* refcount is zero" gives up the references of all its owners.
BuildOnExisting ==
    /\ Building
    /\ LET id == Head(loading)
           x == istore[id]
       IN /\ x # NULL
          /\ \/ /\ dims[x] = Stored[id].dims /\ Stored[id].wellformed
                /\ Decref(Incref(refcount, x), lmeta)
                /\ Return(x)
                /\ UNCHANGED <<hold, lost>>
             \/ /\ dims[x] = Stored[id].dims /\ ~Stored[id].wellformed
                /\ refcount' = [refcount EXCEPT ![x] = 0]
                /\ istore' = [istore EXCEPT ![id] = NULL]
                /\ freeing' = <<x>>
                /\ hold' = hold \ {x}
                /\ loading' = <<>>
                /\ UNCHANGED <<lmeta, got, lost>>
             \/ /\ dims[x] # Stored[id].dims
                /\ lost' = [lost EXCEPT ![meta[x]] = @ + 1]
                /\ refcount' = Incref(refcount, meta[x])
                /\ loading' = <<>>
                /\ UNCHANGED <<istore, hold, freeing, lmeta, got>>
    /\ UNCHANGED <<heap, handle, call, borrowed>>

\* Mutant: "metadata has an extra refcount, so loop until refcount is zero",
\* applied to the metadata instead of the instance.
ReleaseMetaLoop ==
    /\ call # NoCall /\ loading = <<>> /\ freeing = <<>> /\ lmeta # NULL
    /\ refcount' = [refcount EXCEPT ![lmeta] = 0]
    /\ istore' = [istore EXCEPT ![uuid[lmeta]] = NULL]
    /\ freeing' = <<lmeta>>
    /\ hold' = hold \ {lmeta}
    /\ lmeta' = NULL /\ call' = NoCall
    /\ UNCHANGED <<heap, handle, loading, got, borrowed, lost>>

\* The "fail" label of parse_instance() in a call that failed
ReleaseMeta ==
    /\ call # NoCall /\ loading = <<>> /\ freeing = <<>> /\ lmeta # NULL
    /\ Decref(refcount, lmeta)
    /\ lmeta' = NULL /\ call' = NoCall
    /\ UNCHANGED <<heap, hold, handle, loading, got, borrowed, lost>>

----------------------------------------------------------------------------
(* What the public calls do with the instance they got.                    *)

Returned(op) == /\ call.op = op /\ got # NULL
                /\ loading = <<>> /\ freeing = <<>>

FinishGet ==
    /\ Returned("get")
    /\ handle' = [handle EXCEPT ![call.h] = got]
    /\ got' = NULL /\ call' = NoCall
    /\ UNCHANGED <<heap, refcount, istore, hold, loading, lmeta,
                   freeing, borrowed, lost>>

\* dlite_instance_has() gives the reference back and returns the pointer.
FinishHas ==
    /\ Returned("has")
    /\ Decref(refcount, got)
    /\ borrowed' = got
    /\ got' = NULL /\ call' = NoCall
    /\ UNCHANGED <<heap, hold, handle, loading, lmeta, lost>>

\* Mutant: _instance_create() takes no reference on the metadata.
CreateWithBorrowedMeta(h, m, id, d) ==
    \/ /\ istore[id] = NULL
       /\ \E a \in Free :
             /\ NewInstance(a, id, m, d)
             /\ refcount' = [refcount EXCEPT ![a] = FirstRefs(m)]
             /\ handle' = [handle EXCEPT ![h] = a]
       /\ UNCHANGED lost
    \/ /\ istore[id] # NULL /\ d = dims[istore[id]]
       /\ refcount' = Incref(refcount, istore[id])
       /\ handle' = [handle EXCEPT ![h] = istore[id]]
       /\ UNCHANGED <<uuid, meta, dims, istore, hold, lost>>

\* _instance_create() with lookup, its result stored in handle h.  A size
\* mismatch with an existing instance takes a reference to the metadata,
\* meant for dlite_instance_free(), which is not run.
CreateWith(h, m, id, d) ==
    \/ /\ istore[id] = NULL
       /\ \E a \in Free :
             /\ NewInstance(a, id, m, d)
             /\ refcount' = [refcount EXCEPT ![a] = FirstRefs(m), ![m] = @ + 1]
             /\ handle' = [handle EXCEPT ![h] = a]
       /\ UNCHANGED lost
    \/ /\ istore[id] = NULL /\ Free = {}
       /\ UNCHANGED <<uuid, meta, dims, refcount, istore, hold, handle, lost>>
    \/ /\ istore[id] # NULL /\ d = dims[istore[id]]
       /\ refcount' = Incref(refcount, istore[id])
       /\ handle' = [handle EXCEPT ![h] = istore[id]]
       /\ UNCHANGED <<uuid, meta, dims, istore, hold, lost>>
    \/ /\ istore[id] # NULL /\ d # dims[istore[id]]
       /\ LET m1 == meta[istore[id]]
          IN /\ lost' = [lost EXCEPT ![m1] = @ + 1]
             /\ refcount' = Incref(refcount, m1)
       /\ UNCHANGED <<uuid, meta, dims, istore, hold, handle>>

\* dlite_instance_create() with metadata the application holds
Create(h, hm, id, d) ==
    /\ Idle /\ handle[h] = NULL /\ handle[hm] # NULL
    /\ IsMeta(handle[hm])
    /\ (id \in MetaIds) = IsMetaMeta(handle[hm])
    /\ MayUse(id)
    /\ CreateWith(h, handle[hm], id, d)
    /\ borrowed' = NULL
    /\ UNCHANGED <<parent, replaced, frozen, call, loading, lmeta, got, freeing>>

\* dlite_instance_create_from_id(): create, then drop the metadata
FinishCreate ==
    /\ Returned("create")
    /\ CreateWith(call.h, got, call.id, call.dims)
    /\ call' = [NoCall EXCEPT !.op = "drop"]
    /\ UNCHANGED <<parent, replaced, frozen, loading, lmeta, got, freeing, borrowed>>

DropMeta ==
    /\ Returned("drop")
    /\ Decref(refcount, got)
    /\ got' = NULL /\ call' = NoCall
    /\ UNCHANGED <<heap, hold, handle, loading, lmeta, borrowed, lost>>

----------------------------------------------------------------------------
(* Transactions.                                                           *)

\* The application works on the instance it holds in h.
WorksOn(h) == Idle /\ handle[h] # NULL /\ uuid[handle[h]] \in WorkIds

Freeze(h) ==
    /\ WorksOn(h)
    /\ frozen' = [frozen EXCEPT ![handle[h]] = TRUE]
    /\ borrowed' = NULL
    /\ UNCHANGED <<uuid, meta, parent, replaced, dims, refcount, istore, hold,
                   handle, call, loading, lmeta, got, freeing, lost>>

\* One more owner of o, unless o is NULL
IncrefIf(rc, o) == IF o = NULL THEN rc ELSE Incref(rc, o)

\* dlite_instance_copy() to an id that is not in use
CopyNew(h, h2, id) ==
    /\ WorksOn(h) /\ handle[h2] = NULL
    /\ LET x == handle[h]
       IN /\ istore[id] = NULL /\ (id \in MetaIds) = IsMeta(x)
          /\ \E a \in Free :
                /\ NewInstance(a, id, meta[x], dims[x])
                /\ parent' = [parent EXCEPT ![a] = parent[x]]
                /\ refcount' = IncrefIf([refcount EXCEPT
                                  ![a] = FirstRefs(meta[x]),
                                  ![meta[x]] = @ + 1], parent[x])
                /\ handle' = [handle EXCEPT ![h2] = a]
    /\ borrowed' = NULL
    /\ UNCHANGED <<replaced, frozen, call, loading, lmeta, got, freeing, lost>>

\* dlite_instance_copy() to the id y of another instance: y is returned by
\* dlite_instance_create() and its parent is replaced.  When y is frozen its
\* properties are refused and the copy fails after that.
CopyOnto(h, h2, y) ==
    /\ WorksOn(h) /\ handle[h2] = NULL
    /\ LET x == handle[h]
       IN /\ y # x /\ meta[y] = meta[x] /\ MayUse(uuid[y])
          /\ \/ /\ dims[y] # dims[x]
                /\ lost' = [lost EXCEPT ![meta[y]] = @ + 1]
                /\ refcount' = Incref(refcount, meta[y])
                /\ UNCHANGED <<parent, handle>>
             \/ /\ dims[y] = dims[x]
                /\ IF parent[x] # NULL
                   THEN /\ parent' = [parent EXCEPT ![y] = parent[x]]
                        /\ lost' = IncrefIf(lost, parent[y])
                   ELSE UNCHANGED <<parent, lost>>
                /\ LET rc == IncrefIf(refcount, parent[x])
                   IN IF frozen[y]
                      THEN refcount' = rc /\ UNCHANGED handle
                      ELSE /\ refcount' = Incref(rc, y)
                           /\ handle' = [handle EXCEPT ![h2] = y]
    /\ borrowed' = NULL
    /\ UNCHANGED <<uuid, meta, replaced, frozen, dims, istore, hold, call,
                   loading, lmeta, got, freeing>>

\* Mutant: the snapshot is left mutable.
SnapshotMutable(h, id) ==
    /\ WorksOn(h)
    /\ LET x == handle[h]
       IN /\ ~frozen[x] /\ istore[id] = NULL /\ (id \in MetaIds) = IsMeta(x)
          /\ \E a \in Free :
                /\ NewInstance(a, id, meta[x], dims[x])
                /\ parent' = [parent EXCEPT ![a] = parent[x], ![x] = a]
                /\ refcount' = [refcount EXCEPT ![a] = FirstRefs(meta[x]),
                                                ![meta[x]] = @ + 1]
    /\ borrowed' = NULL
    /\ UNCHANGED <<replaced, frozen, handle, call, loading, lmeta, got,
                   freeing, lost>>

\* dlite_instance_snapshot(): a frozen copy with a random id takes over the
\* parent of the instance and becomes its parent.
Snapshot(h, id) ==
    /\ WorksOn(h)
    /\ LET x == handle[h]
       IN /\ ~frozen[x] /\ istore[id] = NULL /\ (id \in MetaIds) = IsMeta(x)
          /\ \E a \in Free :
                /\ NewInstance(a, id, meta[x], dims[x])
                /\ parent' = [parent EXCEPT ![a] = parent[x], ![x] = a]
                /\ frozen' = [frozen EXCEPT ![a] = TRUE]
                /\ refcount' = [refcount EXCEPT ![a] = FirstRefs(meta[x]),
                                                ![meta[x]] = @ + 1]
    /\ borrowed' = NULL
    /\ UNCHANGED <<replaced, handle, call, loading, lmeta, got, freeing, lost>>

\* x and its ancestors: what dlite_instance_get_snapshot() of x may return,
\* all of them borrowed references
Snapshots(x) ==
    {p \in Addr : \A S \in SUBSET Addr :
        x \in S /\ (\A a \in S : parent[a] # NULL => parent[a] \in S) => p \in S}

\* The application has a reference to p, or has borrowed p from an instance
\* it has a reference to.
KnownParent(p) ==
    \E h \in Handles : /\ handle[h] # NULL
                       /\ p \in IF BorrowParents THEN Snapshots(handle[h])
                                                ELSE {handle[h]}

\* Mutant: a frozen instance may be given another parent.
SetParentOfFrozen(h, p) ==
    /\ WorksOn(h) /\ KnownParent(p) /\ frozen[p]
    /\ parent[handle[h]] = NULL /\ p # handle[h]
    /\ replaced' = handle[h]
    /\ call' = [NoCall EXCEPT !.op = "set_parent", !.to = p]
    /\ borrowed' = NULL
    /\ UNCHANGED <<uuid, meta, parent, frozen, dims, refcount, istore, hold,
                   handle, loading, lmeta, got, freeing, lost>>

\* dlite_instance_set_parent(): the old parent is released, with all that is
\* freed by it, while inst->_parent->parent still points to it.
SetParent(h, p) ==
    /\ WorksOn(h) /\ KnownParent(p) /\ frozen[p]
    /\ LET x == handle[h]
       IN /\ ~frozen[x]
          /\ replaced' = x
          /\ IF parent[x] # NULL THEN Decref(refcount, parent[x])
                                 ELSE UNCHANGED <<refcount, istore, freeing>>
    /\ call' = [NoCall EXCEPT !.op = "set_parent", !.to = p]
    /\ borrowed' = NULL
    /\ UNCHANGED <<uuid, meta, parent, frozen, dims, hold, handle,
                   loading, lmeta, got, lost>>

\* The rest of it: the new parent is assigned and a reference to it taken.
FinishSetParent ==
    /\ call.op = "set_parent" /\ freeing = <<>>
    /\ parent' = [parent EXCEPT ![replaced] = call.to]
    /\ refcount' = Incref(refcount, call.to)
    /\ replaced' = NULL /\ call' = NoCall
    /\ UNCHANGED <<uuid, meta, frozen, dims, istore, hold, handle,
                   loading, lmeta, got, borrowed, freeing, lost>>

----------------------------------------------------------------------------
Api ==
    \/ \E h, h2 \in Handles : IncrefHandle(h, h2)
    \/ \E h \in Handles : DecrefHandle(h)
    \/ \E h \in Handles : ForgetMeta(h)
    \/ \E h \in Handles, id \in Ids : Get(h, id)
    \/ \E id \in HasIds : Has(id)
    \/ \E h \in Handles, mid \in MetaIds, id \in NewIds, d \in Dims :
          CreateFromId(h, mid, id, d)
    \/ \E h \in Handles, id \in ScanIds : ScanJson(h, id)
    \/ \E h, hm \in Handles, id \in NewIds, d \in Dims : Create(h, hm, id, d)
    \/ \E h \in Handles : Freeze(h)
    \/ \E h, h2 \in Handles, id \in NewIds : CopyNew(h, h2, id)
    \/ \E h, h2 \in Handles, y \in Addr \ Free : CopyOnto(h, h2, y)
    \/ \E h \in Handles, id \in NewIds : Snapshot(h, id)
    \/ \E h \in Handles, p \in Addr : SetParent(h, p)

Internal ==
    \/ FreeParent \/ FreeMemory
    \/ FetchMeta \/ (\E a \in Free : BuildNew(a)) \/ BuildFails
    \/ BuildOnExisting \/ ReleaseMeta
    \/ FinishGet \/ FinishHas \/ FinishCreate \/ DropMeta
    \/ FinishSetParent

Next == Api \/ Internal

\* A call that has started runs on: the library never waits.
Spec == Init /\ [][Next]_vars /\ WF_vars(Internal)

----------------------------------------------------------------------------
(* Properties.                                                             *)

Count(S, f, o) == Cardinality({s \in S : f[s] = o})
One(b) == IF b THEN 1 ELSE 0

\* The references to o owned by the application, by the instances of the
\* metadata o and by the instances with parent o, except that one whose parent
\* is being replaced has given its reference back.
HandleRefs(o) == Count(Handles, handle, o)
MetaRefs(o)   == Count(Addr \ Schema, meta, o)
ParentRefs(o) == Count(Addr \ {replaced}, parent, o)

\* Every owner of a reference to o: these, the static data, the store, the
\* local variables of the running call, and what was leaked.
Owners(o) ==
    One(o \in Schema) + One(o \in hold)
    + HandleRefs(o) + MetaRefs(o) + ParentRefs(o)
    + One(lmeta = o) + One(got = o) + lost[o]

PublicCalls == [op : {"none", "get", "has", "create", "drop", "set_parent"},
                h : Handles \cup {NULL}, id : Ids \cup {NULL}, dims : Dims,
                to : Addr \cup {NULL}]

TypeOK ==
    /\ uuid \in [Addr -> Ids \cup {NULL}]
    /\ meta \in [Addr -> Addr \cup {NULL}]
    /\ parent \in [Addr -> Addr \cup {NULL}]
    /\ replaced \in Addr \cup {NULL}
    /\ frozen \in [Addr -> BOOLEAN]
    /\ dims \in [Addr -> Dims]
    /\ refcount \in [Addr -> Nat]
    /\ istore \in [Ids -> Addr \cup {NULL}]
    /\ hold \in SUBSET Addr
    /\ handle \in [Handles -> Addr \cup {NULL}]
    /\ call \in PublicCalls
    /\ loading \in Seq(Ids)
    /\ lmeta \in Addr \cup {NULL}
    /\ got \in Addr \cup {NULL}
    /\ freeing \in Seq(Addr)
    /\ borrowed \in Addr \cup {NULL}
    /\ lost \in [Addr -> Nat]

\* The reference count of every instance, between any two steps of any call,
\* is the number of references that exist to it (dlite_instance_incref() and
\* dlite_instance_decref() are balanced along every path of the code).
RefcountExact == \A o \in Addr : refcount[o] = Owners(o)

Live == {a \in Addr : uuid[a] # NULL /\ refcount[a] > 0}

\* No owner points to freed memory: handles, the metadata and parent of live
\* instances, locals of the running call.  (A parent that is being replaced
\* is no longer owned, nor followed before dlite_instance_set_parent() ends.)
NoDangling ==
    /\ \A h \in Handles : handle[h] # NULL => handle[h] \in Live
    /\ \A a \in Addr : /\ meta[a] # NULL => meta[a] \in Live
                       /\ a # replaced /\ parent[a] # NULL => parent[a] \in Live
    /\ lmeta # NULL => lmeta \in Live
    /\ got # NULL => got \in Live

\* The store maps a UUID to the one live instance that has it, and holds its
\* reference on metadata only.
StoreExact ==
    /\ \A id \in Ids : \A a \in Addr :
          istore[id] = a <=> a \in Live /\ uuid[a] = id
    /\ \A a \in hold : a \in Live /\ IsMeta(a)

\* "Returns a pointer to the instance (borrowed reference) if it exists":
\* the pointer that dlite_instance_has() returns is valid when it returns.
BorrowedValid == freeing = <<>> /\ borrowed # NULL => borrowed \in Live

\* Only an immutable instance is the parent of another.
ParentFrozen ==
    \A a \in Addr \ {replaced} : parent[a] # NULL => frozen[parent[a]]

\* Following the parents of an instance ends at a root: the recursions of
\* verify_hash and push_snapshot terminate.
Acyclic ==
    \A S \in SUBSET Addr :
        S # {} => \E a \in S : parent[a] \notin S

\* Whatever copies, snapshots, set_parent and frees did, the transactions are
\* chains of immutable instances that end at a root.
TransactionsSound == ParentFrozen /\ Acyclic

\* A frozen instance keeps its place in the transaction until it is freed.
FrozenKeepsParent ==
    [][\A a \in Addr : frozen[a] /\ refcount[a] > 0 => parent'[a] = parent[a]]_vars

\* The store gives up its reference to metadata only when the application
\* drops it, or when nobody else refers to the metadata.
MetadataPersistent ==
    [][\A a \in hold :
          a \in hold' \/ uuid[a] \in ForgetIds \/ refcount[a] = 1]_vars

\* Every call returns, all frees included.
CallsReturn == ~Idle ~> Idle

----------------------------------------------------------------------------
(* What keeps the properties above true from step to step.                 *)

\* An address that is not allocated holds nothing and nobody refers to it.
\* The static schemas keep their metadata.
AllocExact ==
    /\ \A a \in Addr : IF uuid[a] = NULL
                       THEN meta[a] = NULL /\ parent[a] = NULL /\ refcount[a] = 0
                       ELSE meta[a] # NULL
    /\ \A a \in Schema : meta[a] = Basic

\* The instances without references are those in the sequence fr of
\* instances being freed, each of them once.
Freeing(fr, u, rc) ==
    /\ \A i \in 1..Len(fr) : u[fr[i]] # NULL /\ rc[fr[i]] = 0
    /\ \A i, j \in 1..Len(fr) : fr[i] = fr[j] => i = j
    /\ \A a \in Addr : u[a] # NULL /\ rc[a] = 0 =>
          \E i \in 1..Len(fr) : fr[i] = a

FreeingExact == Freeing(freeing, uuid, refcount)

\* The local variables of the call in progress.
CallExact ==
    /\ call = NoCall => loading = <<>> /\ lmeta = NULL /\ got = NULL
    /\ loading # <<>> \/ lmeta # NULL => got = NULL
    /\ call.op \in {"get", "create"} =>
          call.h \in Handles /\ handle[call.h] = NULL
    /\ call.op = "create" => call.id \in Ids

\* In dlite_instance_set_parent() the application holds the mutable instance
\* and the immutable one that becomes its parent.
SettingExact ==
    IF call.op = "set_parent"
    THEN /\ loading = <<>> /\ lmeta = NULL /\ got = NULL
         /\ \A x \in {replaced, call.to} :
               x # NULL /\ \E h \in Handles : handle[h] = x
         /\ ~frozen[replaced] /\ frozen[call.to]
    ELSE replaced = NULL

\* What is being loaded is stored, and is not an existing instance whose
\* stored properties cannot be read.
LoadingExact ==
    \A i \in 1..Len(loading) :
       /\ loading[i] \in DOMAIN Stored
       /\ Stored[loading[i]].wellformed \/ istore[loading[i]] = NULL

IInv == /\ TypeOK /\ RefcountExact /\ AllocExact /\ StoreExact
        /\ FreeingExact /\ CallExact /\ LoadingExact
=============================================================================
