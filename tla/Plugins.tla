------------------------------ MODULE Plugins ------------------------------
(***************************************************************************)
(* Plugins in shared libraries (src/src/utils/plugin.c) and the lookups of *)
(* dlite-storage-plugins.c and dlite-mapping-plugins.c built on it.        *)
(* A library offers a list of APIs, each newly allocated at every call of  *)
(* its symbol function, as that of the Python storages does; a null entry  *)
(* stands for a call that fails and ends the list.  All calls come from    *)
(* one thread.  plugin_load_all() is the only one that is several steps: a *)
(* pass over the search path each, until a pass loads nothing.             *)
(***************************************************************************)
EXTENDS Integers, Sequences, FiniteSets, FiniteSetsExt, Functions

CONSTANTS
  Libs,        \* the shared libraries
  Names,       \* names of APIs
  NULL,
  Base,        \* Base[l]: the file name of l without extension, or NULL
  Opens,       \* the libraries that dsl_open() can open
  HasSymbol,   \* the libraries that have the function info->symbol
  Apis,        \* Apis[l]: what the function of l returns
  SearchPaths, \* the sequences of libraries that the search path may find
  Kinds,       \* the lookups: "storage" or "mapping"
  MaxOpen      \* bound on the handles to one library that are lost

ASSUME PluginsAssumption ==
  /\ NULL \notin Libs \cup Names \cup SearchPaths
  /\ Apis \in [Libs -> Seq(Names \cup {NULL})]
  /\ SearchPaths \subseteq Seq(Libs) /\ Kinds \subseteq {"storage", "mapping"}
  /\ Opens \subseteq Libs /\ HasSymbol \subseteq Libs

VARIABLES
  kind,        \* which lookup the PluginInfo belongs to
  path,        \* what the search path finds now
  info,        \* the PluginInfo, with what its calls have done to libraries
  hash,        \* the hash of the path at the last reload
  call,        \* "idle", "load_all" or "freed"
  passes,      \* passes of the plugin_load_all() that runs (a history)
  wanted,      \* the name that the lookup looks for, or NULL
  answer,      \* the name of the last lookup and how it ended
  loaded       \* the path of the last complete plugin_load_all()

vars == <<kind, path, info, hash, call, passes, wanted, answer, loaded>>

-----------------------------------------------------------------------------
(* apis maps a name to the library its API is from (NULL for one of        *)
(* plugin_register_api()), paths a name to a library, count a library to   *)
(* its number of APIs (0: not in info->plugins).  opened is the number of  *)
(* dsl_open() less the dsl_close(), live that of allocated APIs.  cut are  *)
(* the libraries that were closed with an API registered by the same call. *)

Empty == [apis |-> <<>>, paths |-> <<>>, count |-> [l \in Libs |-> 0],
          opened |-> [l \in Libs |-> 0], live |-> [l \in Libs |-> 0],
          cut |-> {}]

Has(i, name) == name \in DOMAIN i.apis
With(f, x, y) == [k \in DOMAIN f \cup {x} |-> IF k = x THEN y ELSE f[k]]
Without(f, x) == Restrict(f, DOMAIN f \ {x})

Close(i, l) == [i EXCEPT !.opened[l] = IF @ = 0 THEN 0 ELSE @ - 1]

\* register_plugin()
RegisterPlugin(i, name, l) ==
  [i EXCEPT !.apis = With(@, name, l), !.paths = With(@, name, l),
            !.count[l] = @ + 1, !.live[l] = @ + 1]

\* Mutant: an API is told to be loaded although its name is registered.
OfferLoud(acc, api, name, l) ==
  IF acc.stop \/ api = NULL THEN [acc EXCEPT !.stop = TRUE]
  ELSE IF ~Has(acc.info, api) /\ name \in {NULL, api}
  THEN [acc EXCEPT !.info = RegisterPlugin(@, api, l), !.registered = TRUE,
                   !.loaded = TRUE, !.stop = name # NULL, !.found = name # NULL]
  ELSE [acc EXCEPT !.registered = FALSE, !.loaded = TRUE]

\* Mutant: the function is called once for each library.
OfferFirst(acc, api, name, l) ==
  IF acc.stop \/ api = NULL \/ Has(acc.info, api) \/ name \notin {NULL, api}
  THEN [acc EXCEPT !.stop = TRUE]
  ELSE [acc EXCEPT !.info = RegisterPlugin(@, api, l), !.registered = TRUE,
                   !.loaded = TRUE, !.stop = TRUE, !.found = name # NULL]

\* One call of the function of l.  An API that is not registered is freed.
Offer(acc, api, name, l) ==
  IF acc.stop \/ api = NULL THEN [acc EXCEPT !.stop = TRUE]
  ELSE IF ~Has(acc.info, api) /\ name \in {NULL, api}
  THEN [acc EXCEPT !.info = RegisterPlugin(@, api, l), !.registered = TRUE,
                   !.loaded = TRUE, !.stop = name # NULL, !.found = name # NULL]
  ELSE [acc EXCEPT !.registered = FALSE,
                   !.loaded = @ \/ ~Has(acc.info, api)]

\* All calls of the function of l
OfferAll(acc, name, l) ==
  LET end[k \in 0..Len(Apis[l])] ==
        IF k = 0 THEN acc ELSE Offer(end[k - 1], Apis[l][k], name, l)
  IN  end[Len(Apis[l])]

\* plugin_load() with the next file, if it matches the pattern.  The handle of
\* a library without the symbol stays in `handle` after it was closed.
TryLibrary(acc, name, pattern, l) ==
  IF acc.found \/ l \notin pattern THEN acc
  ELSE IF l \notin Opens THEN [acc EXCEPT !.handle = NULL]
  ELSE IF l \notin HasSymbol THEN [acc EXCEPT !.handle = l]
  ELSE LET open == [acc EXCEPT !.info.opened[l] = @ + 1,
                               !.registered = FALSE, !.stop = FALSE]
           end == OfferAll(open, name, l)
           some == end.info.count[l] > acc.info.count[l]
           closed == [Close(end.info, l) EXCEPT !.cut = IF some THEN @ \cup {l} ELSE @]
       IN  IF end.registered THEN [end EXCEPT !.handle = l]
           ELSE [end EXCEPT !.handle = NULL, !.info = closed]

\* The patterns name.EXT and *.EXT
Called(name) == {l \in Libs : Base[l] = name}

\* plugin_load(): loaded is what it returns without a name, found with one.
Load(i, name, pattern) ==
  LET start == [info |-> i, registered |-> FALSE, stop |-> FALSE,
                loaded |-> FALSE, found |-> FALSE, handle |-> NULL]
      try[k \in 0..Len(path)] ==
        IF k = 0 THEN start ELSE TryLibrary(try[k - 1], name, pattern, path[k])
      end == try[Len(path)]
      null == ~end.found /\ (name # NULL \/ ~end.loaded)
  IN  IF null /\ end.handle # NULL
      THEN [end EXCEPT !.info = Close(@, end.handle)] ELSE end

\* Mutant: only the file with the name of the API is looked at.
GetApiNamed(i, name) ==
  IF Has(i, name) THEN i
  ELSE Load(i, name, Called(name)).info
\* plugin_get_api(): the API is registered afterwards if it was found.
GetApi(i, name) ==
  IF Has(i, name) THEN i
  ELSE LET own == Load(i, name, Called(name))
       IN  IF own.found THEN own.info ELSE Load(own.info, name, Libs).info

NoAnswer == [name |-> NULL, how |-> "none"]
Answer(i, name) ==
  [name |-> name, how |-> IF Has(info, name) THEN "registered"
                          ELSE IF ~Has(i, name) THEN "missing"
                          ELSE IF call = "idle" THEN "searched" ELSE "reloaded"]

-----------------------------------------------------------------------------
Init ==
  /\ kind \in Kinds /\ path \in SearchPaths
  /\ info = Empty
  /\ hash = NULL /\ loaded = NULL
  /\ call = "idle" /\ passes = 0 /\ wanted = NULL /\ answer = NoAnswer

\* What is hashed: the mappings hash the path; pathshash() is given the
\* pattern DSL_EXT, which only a file with no other name matches.
Hash == IF kind = "mapping" THEN path ELSE SelectSeq(path, LAMBDA l : Base[l] = NULL)

\* dlite_storage_plugin_get(), dlite_mapping_plugin_get() up to the reload
Get(name) ==
  LET i == GetApi(info, name)
  IN  /\ call = "idle"
      /\ info' = i
      /\ IF ~Has(i, name) /\ Hash # hash
         THEN call' = "load_all" /\ wanted' = name /\ UNCHANGED answer
         ELSE answer' = Answer(i, name) /\ UNCHANGED <<call, wanted>>
      /\ UNCHANGED <<kind, path, hash, loaded, passes>>

\* dlite_mapping_plugin_init_iter()
InitIter ==
  /\ call = "idle" /\ kind = "mapping" /\ Hash # hash
  /\ call' = "load_all"
  /\ UNCHANGED <<kind, path, info, hash, wanted, answer, loaded, passes>>

\* dlite_storage_plugin_load_all()
LoadAll ==
  /\ call = "idle" /\ kind = "storage"
  /\ call' = "load_all"
  /\ UNCHANGED <<kind, path, info, hash, wanted, answer, loaded, passes>>

\* A pass of plugin_load_all(); after the last one the caller goes on.
LoadPass ==
  LET pass == Load(info, NULL, Libs)
      i == IF wanted = NULL THEN pass.info ELSE GetApi(pass.info, wanted)
  IN  /\ call = "load_all"
      /\ IF pass.loaded
         THEN /\ info' = pass.info /\ passes' = passes + 1
              /\ UNCHANGED <<call, hash, wanted, answer, loaded>>
         ELSE /\ info' = i
              /\ call' = "idle" /\ passes' = 0 /\ wanted' = NULL /\ loaded' = path
              /\ hash' = IF wanted # NULL \/ kind = "mapping" THEN Hash ELSE hash
              /\ answer' = IF wanted = NULL THEN answer ELSE Answer(i, wanted)
      /\ UNCHANGED <<kind, path>>

\* plugin_register_api(): the Python mappings
RegisterApi(name) ==
  /\ call = "idle" /\ ~Has(info, name)
  /\ info' = [info EXCEPT !.apis = With(@, name, NULL)]
  /\ UNCHANGED <<kind, path, hash, call, wanted, answer, loaded, passes>>

\* Mutant: the last API of a library takes the one before with it.
UnregisteredAll(i, name) ==
  LET l == i.apis[name]
      j == [i EXCEPT !.apis = Without(@, name), !.paths = Without(@, name)]
  IN  IF l = NULL THEN j ELSE Close([j EXCEPT !.count[l] = @ - 1, !.live[l] = @ - 1], l)
\* plugin_unload() and plugin_decref()
Unregistered(i, name) ==
  LET l == i.apis[name]
      j == [i EXCEPT !.apis = Without(@, name), !.paths = Without(@, name)]
      k == [j EXCEPT !.count[l] = @ - 1, !.live[l] = @ - 1]
  IN  IF l = NULL THEN j ELSE IF k.count[l] = 0 THEN Close(k, l) ELSE k

\* dlite_mapping_plugin_unload()
Unload(name) ==
  /\ call = "idle" /\ kind = "mapping" /\ Has(info, name)
  /\ \A l \in Libs : info.opened[l] < MaxOpen
  /\ info' = Unregistered(info, name)
  /\ answer' = NoAnswer
  /\ UNCHANGED <<kind, path, hash, call, wanted, loaded, passes>>

\* plugin_path_append(), plugin_path_remove() and the like
ChangePath ==
  /\ call = "idle"
  /\ path' \in SearchPaths \ {path}
  /\ answer' = NoAnswer
  /\ UNCHANGED <<kind, info, hash, call, wanted, loaded, passes>>

\* plugin_info_free(): every API is freed, every plugin released once.
InfoFree ==
  /\ call = "idle"
  /\ call' = "freed"
  /\ info' = [info EXCEPT
       !.apis = <<>>, !.paths = <<>>, !.live = [l \in Libs |-> 0],
       !.count = [l \in Libs |-> IF @[l] = 0 THEN 0 ELSE @[l] - 1],
       !.opened = [l \in Libs |-> IF info.count[l] = 1 /\ @[l] > 0
                                  THEN @[l] - 1 ELSE @[l]]]
  /\ UNCHANGED <<kind, path, hash, wanted, answer, loaded, passes>>

Freed == call = "freed" /\ UNCHANGED vars

Next ==
  \/ \E name \in Names : Get(name) \/ RegisterApi(name) \/ Unload(name)
  \/ InitIter \/ LoadAll \/ LoadPass \/ ChangePath \/ InfoFree \/ Freed

Spec == Init /\ [][Next]_vars

-----------------------------------------------------------------------------
(* Properties.                                                             *)

\* What the function of l returns before the first failure.
Reachable(l) ==
  {Apis[l][k] : k \in {j \in 1..Len(Apis[l]) : \A m \in 1..j : Apis[l][m] # NULL}}
Offers(l, name) == l \in Opens \cap HasSymbol /\ name \in Reachable(l)
Offered(p) == {name \in Names : \E k \in 1..Len(p) : Offers(p[k], name)}

\* The first of the files that offer the name, those called name first.
First(p, name) ==
  LET offers == {k \in 1..Len(p) : Offers(p[k], name)}
      own == {k \in offers : p[k] \in Called(name)}
  IN  p[Min(IF own # {} THEN own ELSE offers)]

\* The count of a library is the number of registered APIs that came from it,
\* and each of them is the only one of its APIs that is allocated: those that
\* are looked at and not registered are freed, and none is freed twice.
RefsExact == \A l \in Libs :
  LET n == Cardinality({name \in DOMAIN info.paths : info.paths[name] = l})
  IN  call # "freed" => info.count[l] = n /\ info.live[l] = n

\* The library that a registered API came from is open, however often it was
\* opened to look for other names, and whatever was unloaded; except one whose
\* last API could not be registered in the call that registered an earlier one.
LibraryOpen == \A name \in DOMAIN info.paths :
  info.opened[info.paths[name]] > 0 \/ info.paths[name] \in info.cut

\* Libraries are counted once for each of their APIs, and open as long as one of
\* those is registered.
LibrariesExact == RefsExact /\ LibraryOpen

\* plugin_get_api() finds an API that the search path offers, from the file with
\* the name of the API, or else from the first one that has it; whatever other
\* APIs and broken libraries it meets on the way.
GetFinds ==
  /\ answer.how = "missing" => answer.name \notin Offered(path)
  /\ answer.how = "searched" /\ call # "freed" =>
       info.apis[answer.name] = First(path, answer.name)

\* After plugin_load_all() every API of the search path is registered.
LoadAllComplete == [][call = "load_all" /\ call' = "idle" =>
                        Offered(path) \subseteq DOMAIN info'.apis]_vars

\* plugin_load_all() ends: whatever was registered before, after a pass that
\* registers something comes one that returns NULL.
LoadAllEnds == passes <= 1

\* A name is told to be missing only after everything on the present search path
\* was loaded ("if any plugin path has changed, reload all plugins and try
\* again", dlite-storage-plugins.c:121); here for mapping plugins.
MissingIsReloaded == kind = "mapping" /\ answer.how = "missing" => loaded = path

\* A lookup finds what the path offers, and a name is missing only after the
\* plugins were loaded from the present path.
LookupsExact == GetFinds /\ MissingIsReloaded

\* The same for both lookups.
MissingIsReloadedByAll == answer.how = "missing" => loaded = path

-----------------------------------------------------------------------------
(* What keeps the properties above true from step to step.                 *)

InfoFields == DOMAIN Empty
From(i, l) == {name \in DOMAIN i.paths : i.paths[name] = l}

\* A PluginInfo whose counts are right and whose libraries are open
Consistent(i) ==
  /\ DOMAIN i = InfoFields
  /\ IsFiniteSet(DOMAIN i.apis)
  /\ \A name \in DOMAIN i.apis : i.apis[name] \in Libs \cup {NULL}
  /\ DOMAIN i.paths = {name \in DOMAIN i.apis : i.apis[name] # NULL}
  /\ \A name \in DOMAIN i.paths :
       /\ i.paths[name] = i.apis[name]
       /\ i.paths[name] \in Opens \cap HasSymbol
       /\ i.opened[i.paths[name]] > 0 \/ i.paths[name] \in i.cut
  /\ i.count \in [Libs -> Nat] /\ i.live \in [Libs -> Nat] /\ i.opened \in [Libs -> Nat]
  /\ \A l \in Libs : i.count[l] = Cardinality(From(i, l)) /\ i.live[l] = i.count[l]

IInv ==
  /\ path \in SearchPaths /\ passes \in 0..1
  /\ call \in {"idle", "load_all", "freed"}
  /\ IF call = "freed" THEN DOMAIN info.paths = {} ELSE Consistent(info)
  /\ kind = "mapping" => hash \in {NULL, loaded}
  /\ MissingIsReloaded /\ GetFinds
  /\ answer.how = "searched" /\ call # "freed" => Has(info, answer.name)
  /\ passes = 1 => call = "load_all" /\ Offered(path) \subseteq DOMAIN info.apis
=============================================================================
