------------------------------ MODULE Mapping ------------------------------
(***************************************************************************)
(* Instance mappings (src/src/dlite-mapping.c).  Given instances of some   *)
(* metadata, dlite_mapping() searches the registered plugins for the       *)
(* cheapest way to an instance of the target metadata, calls the mappers   *)
(* of the plugins it found and frees the mapping.                          *)
(*                                                                         *)
(* The recursion of mapping_create_rec() is a stack of frames that share   *)
(* the maps `created` and `dead_ends`; a step realises one input of one    *)
(* plugin, compares one plugin or ends one call.                           *)
(***************************************************************************)
EXTENDS Integers, Sequences, FiniteSets, SequencesExt, FiniteSetsExt

CONSTANTS
    Uris,         \* URIs of metadata
    PluginLists,  \* registered plugins in the order of the plugin iterator:
                  \* sequences of [out, ins, cost]
    Givens,       \* sets of metadata of which the caller has an instance
    Targets,      \* output URIs asked for
    Asserts,      \* are assertions compiled in?
    NULL

ASSUME InputAssumption ==
    /\ Givens \subseteq SUBSET Uris /\ Targets \subseteq Uris
    /\ Asserts \in BOOLEAN /\ NULL \notin Uris
    /\ PluginLists \subseteq Seq([out : Uris, ins : Seq(Uris), cost : Nat])
    /\ \A list \in PluginLists : \A k \in DOMAIN list :
          list[k] # NULL /\ IsInjective(list[k].ins)

VARIABLES
    plugins,      \* the registered plugins
    given,        \* metadata of the input instances
    target,       \* output_uri
    phase,        \* how far dlite_mapping() has come
    stack,        \* the frames of mapping_create_rec()
    dead,         \* `dead_ends`
    created,      \* URI -> [via, cost]: mappings that exist, by output URI
    found,        \* whether there is a mapping to the target
    refs,         \* [Uris -> Int]: reference counts of the instances
    nfree         \* [Uris -> Nat]: how often a mapping has been freed

vars == <<plugins, given, target, phase, stack, dead, created, found, refs, nfree>>
callers == <<plugins, given, target>>

Init ==
    /\ plugins \in PluginLists /\ given \in Givens /\ target \in Targets
    /\ phase = "create" /\ stack = << >> /\ dead = {}
    /\ created = << >> /\ found = FALSE
    /\ refs = [u \in Uris |-> IF u \in given THEN 1 ELSE 0]
    /\ nfree = [u \in Uris |-> 0]

Inputs(p) == ToSet(p.ins)

----------------------------------------------------------------------------
(* mapping_create_rec().  A frame has its output URI, the number k of the  *)
(* plugin it has come to and, while that one is being realised, how many   *)
(* of its inputs are (i, otherwise -1) and their cost; `via` and `best`    *)
(* are the cheapest plugin so far and its cost.                            *)
NewFrame(u) == [out |-> u, k |-> 0, i |-> -1, cost |-> 0, via |-> NULL, best |-> -1]
Frame == Last(stack)
Plugin == plugins[Frame.k]
Top(frame) == [stack EXCEPT ![Len(stack)] = frame]
Visited == {stack[j].out : j \in DOMAIN stack}

\* "avoid infinite cyclic loops and known dead ends"
Ignored(p) == Inputs(p) \cap (Visited \cup dead) # {}

\* Mutant: the last mapping wins.
CheaperOrEqual(frame) == TRUE

\* The first of the cheapest mappings wins.
Cheaper(frame) == frame.via = NULL \/ frame.cost < frame.best

\* Mutant: the cost of the last input replaces the others.
SumLast(cost, mapping) == mapping.cost

\* The cost of a mapping includes those of its submappings.
Sum(cost, mapping) == cost + mapping.cost

\* The plugins with this output that are left
Candidates ==
    {k \in DOMAIN plugins :
       k > Frame.k /\ plugins[k].out = Frame.out /\ ~Ignored(plugins[k])}

Searching == phase = "search" /\ stack # << >>

Consider ==
    /\ Searching /\ Frame.i = -1
    /\ \E k \in Candidates :
          /\ \A j \in Candidates : k <= j
          /\ stack' = Top([Frame EXCEPT !.k = k, !.i = 0, !.cost = plugins[k].cost])
    /\ UNCHANGED <<phase, dead, created>>

\* The next input is given, exists, or has to be created by another call.
Realise ==
    /\ Searching /\ Frame.i >= 0 /\ Frame.i < Len(Plugin.ins)
    /\ LET x == Plugin.ins[Frame.i + 1]
       IN \/ /\ x \in given
             /\ stack' = Top([Frame EXCEPT !.i = @ + 1])
             /\ UNCHANGED phase
          \/ /\ x \notin given /\ x \in DOMAIN created
             /\ stack' = Top([Frame EXCEPT !.i = @ + 1, !.cost = Sum(@, created[x])])
             /\ UNCHANGED phase
          \/ /\ x \notin given \cup DOMAIN created
             /\ IF Asserts /\ x \in dead \cup Visited
                THEN phase' = "aborted" /\ UNCHANGED stack
                ELSE stack' = Append(stack, NewFrame(x)) /\ UNCHANGED phase
    /\ UNCHANGED <<dead, created>>

Compare ==
    /\ Searching /\ Frame.i >= 0 /\ Frame.i = Len(Plugin.ins)
    /\ stack' = Top(IF Cheaper(Frame)
                    THEN [Frame EXCEPT !.i = -1, !.via = Plugin, !.best = Frame.cost]
                    ELSE [Frame EXCEPT !.i = -1])
    /\ UNCHANGED <<phase, dead, created>>

\* A dead end: the plugin that needed this output is ignored, too.
Fail ==
    /\ Searching /\ Frame.i = -1 /\ Candidates = {} /\ Frame.via = NULL
    /\ dead' = dead \cup {Frame.out}
    /\ stack' = [j \in 1..(Len(stack) - 1) |->
                   IF j = Len(stack) - 1 THEN [stack[j] EXCEPT !.i = -1] ELSE stack[j]]
    /\ UNCHANGED <<phase, created>>

Succeed ==
    /\ Searching /\ Frame.i = -1 /\ Candidates = {} /\ Frame.via # NULL
    /\ created' = [u \in DOMAIN created \cup {Frame.out} |->
                     IF u = Frame.out THEN [via |-> Frame.via, cost |-> Frame.best]
                     ELSE created[u]]
    /\ stack' = Front(stack)
    /\ UNCHANGED <<phase, dead>>

----------------------------------------------------------------------------
(* The mapping as a graph.                                                 *)

\* The submappings of the mapping to u: the inputs that are not given
Subs(c, u) == IF c[u].via = NULL THEN {} ELSE Inputs(c[u].via) \ given

\* The mappings in S and their submappings, down to the inputs
Closed(c, T) == \A u \in T : Subs(c, u) \subseteq T
Reach(c, S) ==
    {u \in DOMAIN c :
       \A T \in SUBSET DOMAIN c : S \subseteq T /\ Closed(c, T) => u \in T}

\* Input instances that the mapping uses
Used(c) ==
    given \cap UNION {IF c[u].via = NULL THEN {u} ELSE Inputs(c[u].via) : u \in DOMAIN c}

\* How often dlite_mapping_free() of the mapping to the target frees that to v
Visits(c, v) ==
    LET visits[n \in 0..Cardinality(Uris)] ==
          IF n = 0 THEN [u \in DOMAIN c |-> 0]
          ELSE [u \in DOMAIN c |->
                  (IF u = v THEN 1 ELSE 0)
                  + MapThenSumSet(LAMBDA x : visits[n - 1][x], Subs(c, u))]
    IN visits[Cardinality(Uris)][target]

----------------------------------------------------------------------------
\* One more or one fewer reference on the instances in S
Add(rc, S, n) == [u \in Uris |-> IF u \in S THEN rc[u] + n ELSE rc[u]]

\* "Free all created mappings not in retval"
Kept(c) == [u \in Reach(c, {target}) |-> c[u]]

\* set_inputs(), and the start of mapping_create_base()
Create ==
    /\ phase = "create"
    /\ refs' = Add(refs, given, 1)
    /\ \/ /\ target \in given
          /\ created' = [u \in {target} |-> [via |-> NULL, cost |-> 0]]
          /\ found' = TRUE /\ phase' = "map"
          /\ UNCHANGED stack
       \/ /\ target \notin given
          /\ stack' = << NewFrame(target) >> /\ phase' = "search"
          /\ UNCHANGED <<created, found>>
    /\ UNCHANGED <<dead, nfree>>

\* The end of mapping_create_base()
Created ==
    /\ phase = "search" /\ stack = << >>
    /\ found' = (target \in DOMAIN created)
    /\ IF found' THEN created' = Kept(created) /\ phase' = "map"
                 ELSE created' = << >> /\ phase' = "free"
    /\ UNCHANGED <<stack, dead, refs, nfree>>

\* Mutant: an input that is used is given back twice, too.
GivenBackAlways == given

\* What is left in `inputs` after remove_inputs_rec()
GivenBack == given \ Used(created)

\* dlite_mapping_map(): the mappers create instances of all submappings, on
\* each of which another reference is taken, then of the target, whose
\* mapper may fail.  If another one fails, NULL is passed on to a mapper.
Map ==
    /\ phase = "map"
    /\ LET rc == Add(refs, GivenBack, -1)
           new == DOMAIN created \ given
       IN \/ /\ refs' = IF target \in given THEN Add(rc, {target}, 1)
                        ELSE Add(rc, new, 2)
             /\ phase' = "free"
          \/ /\ target \notin given
             /\ refs' = Add(rc, new \ {target}, 2)
             /\ phase' = "free"
          \/ /\ new \ {target} # {}
             /\ refs' = rc
             /\ phase' = "passed NULL"
    /\ UNCHANGED <<stack, dead, created, found, nfree>>

\* dlite_mapping_free() and decref_inputs()
Free ==
    /\ phase = "free"
    /\ nfree' = IF found THEN [u \in Uris |-> IF u \in DOMAIN created
                                 THEN Visits(created, u) ELSE 0]
                ELSE nfree
    /\ refs' = Add(refs, given, -1)
    /\ phase' = "done"
    /\ UNCHANGED <<stack, dead, created, found>>

Search ==
    /\ Consider \/ Realise \/ Compare \/ Fail \/ Succeed
    /\ UNCHANGED <<found, refs, nfree>>

Step == (Create \/ Search \/ Created \/ Map \/ Free) /\ UNCHANGED callers

\* The call has returned, or the program has stopped.
Returned ==
    /\ phase \in {"done", "aborted", "passed NULL"}
    /\ UNCHANGED vars

Next == Step \/ Returned

Spec == Init /\ [][Next]_vars /\ WF_vars(Step)

----------------------------------------------------------------------------
(* Properties.                                                             *)

\* Does making u never need u, as far as the plugins are concerned?
Needs(list, u) == UNION {Inputs(p) : p \in {q \in ToSet(list) : q.out = u}}
Acyclic(list) ==
    \A u \in Uris : \E T \in SUBSET Uris :
       u \notin T /\ Needs(list, u) \subseteq T /\ \A x \in T : Needs(list, x) \subseteq T

\* The cost of plugin p and of its first n inputs, which is nothing for those
\* that are given
Price(c, x) == IF x \in DOMAIN c THEN c[x].cost ELSE 0
Total(c, p, n) ==
    LET total[k \in 0..Len(p.ins)] ==
          IF k = 0 THEN p.cost ELSE total[k - 1] + Price(c, p.ins[k])
    IN total[n]

\* All ways to make something: <<URI, cost>> for the trees of plugins of a
\* height up to the number of plugins that end in inputs given, gv.
Offers(gv, w, p) ==
    {c \in [Inputs(p) \ gv -> [cost : {x[2] : x \in w}]] :
       \A x \in DOMAIN c : << x, c[x].cost >> \in w}
Ways(list, gv) ==
    LET ways[n \in 0..Len(list)] ==
          IF n = 0 THEN {}
          ELSE LET w == ways[n - 1]
               IN w \cup UNION {{<< p.out, Total(c, p, Len(p.ins)) >> : c \in Offers(gv, w, p)} :
                                  p \in ToSet(list)}
    IN ways[Len(list)]

\* The mapping to the target is a finite construction from given inputs, it
\* contains what it needs and nothing else, and its cost is the sum of the
\* costs of its plugins, whatever cycles the plugins form.
WellFounded ==
    found /\ target \notin given =>
       /\ target \in DOMAIN created
       /\ DOMAIN created = Reach(created, {target})
       /\ \A u \in DOMAIN created :
             /\ created[u].via \in ToSet(plugins) /\ created[u].via.out = u
             /\ Subs(created, u) \subseteq DOMAIN created
             /\ u \notin Reach(created, Subs(created, u))
             /\ created[u].cost = Total(created, created[u].via, Len(created[u].via.ins))

\* "Find cheapest mapping": when the plugins form no cycle, a mapping is found
\* if there is one, and it is the cheapest, although the dead ends and the
\* created mappings are shared by all branches of the search.
Cheapest ==
    phase \notin {"create", "search", "aborted"} /\ Acyclic(plugins) =>
       \A w \in Ways(plugins, given) :
          w[1] = target => found /\ created[target].cost <= w[2]

\* The inputs that the mapping used, and all inputs when there is no mapping,
\* have their reference count back; the caller owns one more reference when
\* the result is one of them.
UsedInputsKept ==
    phase = "done" =>
       \A u \in (IF found THEN Used(created) ELSE given) :
          refs[u] = IF u = target THEN 2 ELSE 1

\* "Frees a nested mapping tree."
FreedOnce == \A u \in Uris : nfree[u] <= 1

\* "Ensure that this not an already known dead end"
NoDeadEndTwice == phase # "aborted"
=============================================================================
