---------------------------- MODULE PluginLoading ---------------------------
(***************************************************************************)
(* Loading a directory of plugins: the dependency order of the resolver,   *)
(* the loads that may fail, and the sandboxed loader, which goes by name.   *)
(* Conflicts and versions that do not match are warnings, and what a plugin *)
(* does or violates is one of the ways its load can end.                   *)
(***************************************************************************)
EXTENDS Naturals, FiniteSets, Sequences

CONSTANTS
  Directory,  \* the names of the plugins, as the directory is sorted
  Missing,    \* a name that plugins may need and that is not there
  MaxNeeds    \* a bound on the dependencies declared, for TLC

PluginNames == {Directory[k] : k \in DOMAIN Directory}

ASSUME PluginAssumption ==
  /\ Missing \notin PluginNames /\ MaxNeeds \in Nat
  /\ Directory \in Seq(PluginNames)
  /\ \A i, j \in DOMAIN Directory : Directory[i] = Directory[j] => i = j

VARIABLES
  needs,       \* what each plugin declares of each name
  loader,      \* the manager's own loader, the sandboxed one, or its strict mode
  degree,      \* in_degree of the resolver
  queue,       \* plugins whose dependencies are in the order
  order,       \* the load order
  remaining,   \* plugins that are still to be loaded
  broken,      \* plugins whose load failed or which were rejected
  loaded,      \* loaded_names, in the order of loading
  registered   \* plugins that the manager knows

pluginVars == <<needs, loader, degree, queue, order, remaining, broken, loaded, registered>>

Members(s) == {s[k] : k \in DOMAIN s}

\* The fault that LoadedAsDeclared guards against: a dependency that is
\* optional does not count, and is taken off again when it is met.
DegreeOfRequired(p) == Cardinality({q \in PluginNames : needs[p][q] = "required"})
Degree(p) == Cardinality({q \in PluginNames : needs[p][q] # "no"})
Dependents(q) == {p \in PluginNames : needs[p][q] # "no"}

\* The plugins of S in the order of the directory.
Position(p) == CHOOSE k \in DOMAIN Directory : Directory[k] = p
AsListed(S) ==
  CHOOSE s \in [1..Cardinality(S) -> S] :
    Members(s) = S /\ \A i, j \in DOMAIN s : i < j => Position(s[i]) < Position(s[j])

Roots == AsListed({p \in PluginNames : Degree(p) = 0})

Declarations ==
  LET Edges == PluginNames \X (PluginNames \cup {Missing})
      Chosen == {E \in SUBSET Edges : Cardinality(E) <= MaxNeeds}
      AsNeeds(E, O) == [p \in PluginNames |-> [q \in PluginNames \cup {Missing} |->
                         IF <<p, q>> \in O THEN "optional"
                         ELSE IF <<p, q>> \in E THEN "required" ELSE "no"]]
  IN  UNION {{AsNeeds(E, O) : O \in SUBSET E} : E \in Chosen}

\* Every file is read and its metadata parsed before the first is loaded.
PluginInit ==
  /\ needs \in Declarations /\ loader \in {"ordered", "sandboxed", "strict"}
  /\ degree = [p \in PluginNames |-> Degree(p)]
  /\ queue = IF loader = "ordered" THEN Roots ELSE <<>>
  /\ order = <<>> /\ remaining = IF loader = "ordered" THEN <<>> ELSE Directory
  /\ broken = {} /\ loaded = <<>> /\ registered = {}

\* One round of Kahn's algorithm; after the last the order is loaded.
Resolves ==
  /\ queue # <<>>
  /\ LET next == Head(queue)
         met == Dependents(next)
         rest == [p \in PluginNames |-> IF p \in met THEN degree[p] - 1 ELSE degree[p]]
         ready == AsListed({p \in met : rest[p] = 0})
     IN  /\ degree' = rest
         /\ order' = Append(order, next)
         /\ queue' = Tail(queue) \o ready
         /\ remaining' = IF queue' = <<>> THEN order' ELSE <<>>
  /\ UNCHANGED <<needs, loader, broken, loaded, registered>>

Unmet(p) == \E q \in PluginNames \cup {Missing} :
              needs[p][q] = "required" /\ q \notin Members(loaded)

\* A plugin that lacks a dependency is skipped; only the manager's own loader asks.
Skips ==
  /\ remaining # <<>> /\ loader = "ordered" /\ Unmet(Head(remaining))
  /\ remaining' = Tail(remaining)
  /\ UNCHANGED <<needs, loader, degree, queue, order, broken, loaded, registered>>

Loads ==
  /\ remaining # <<>> /\ (loader = "ordered" => ~Unmet(Head(remaining)))
  /\ remaining' = Tail(remaining)
  /\ loaded' = Append(loaded, Head(remaining)) /\ registered' = registered \cup {Head(remaining)}
  /\ UNCHANGED <<needs, loader, degree, queue, order, broken>>

\* The module raises, before or after it registered something, or has no
\* register function; it is logged and the next one is loaded.
FailsToLoad ==
  /\ remaining # <<>> /\ (loader = "ordered" => ~Unmet(Head(remaining)))
  /\ remaining' = Tail(remaining) /\ broken' = broken \cup {Head(remaining)}
  /\ registered' \in {registered, registered \cup {Head(remaining)}}
  /\ UNCHANGED <<needs, loader, degree, queue, order, loaded>>

\* Only the strict mode rejects what the sandbox finds fault with.
Rejects ==
  /\ remaining # <<>> /\ loader = "strict"
  /\ remaining' = Tail(remaining) /\ broken' = broken \cup {Head(remaining)}
  /\ UNCHANGED <<needs, loader, degree, queue, order, loaded, registered>>

PluginNext == Resolves \/ Skips \/ Loads \/ FailsToLoad \/ Rejects
PluginSpec == PluginInit /\ [][PluginNext]_pluginVars

-----------------------------------------------------------------------------
PluginTypeOK ==
  /\ degree \in [PluginNames -> 0..MaxNeeds]
  /\ Members(queue) \cup Members(order) \cup Members(remaining) \subseteq PluginNames
  /\ Members(loaded) \subseteq registered /\ broken \cap Members(loaded) = {}

LoadingEnds == queue = <<>> /\ remaining = <<>>

\* The plugins on a cycle or behind one: the largest set in which each needs
\* another.
Stuck == UNION {S \in SUBSET PluginNames : \A p \in S : \E q \in S : needs[p][q] # "no"}

(***************************************************************************)
(* The manager's own loader loads a plugin after everything it requires,   *)
(* each plugin once, and leaves out only what fails, what requires         *)
(* something that was left out, and what is on or behind a cycle.          *)
(***************************************************************************)
RequirementsFirst ==
  \A k \in DOMAIN loaded, q \in PluginNames \cup {Missing} :
    needs[loaded[k]][q] = "required" => \E j \in 1..(k - 1) : loaded[j] = q
NobodyIsForgotten ==
  LoadingEnds => \A p \in PluginNames \ Members(loaded) : p \in broken \cup Stuck \/ Unmet(p)
LoadedAsDeclared ==
  loader = "ordered" =>
    /\ RequirementsFirst /\ NobodyIsForgotten
    /\ Cardinality(Members(order)) = Len(order) /\ Members(order) \cap Stuck = {}

\* Refuted: dependency.py:20-21, "If True, failure to resolve this dependency is
\* a warning, not an error": an optional dependency in a cycle keeps a plugin out.
OptionalIsOptional ==
  loader = "ordered" /\ LoadingEnds =>
    \A p \in PluginNames \ Members(loaded) : p \in broken \/ Unmet(p)

\* Refuted: manager.py:126-128, "plugins are loaded in dependency order": the
\* application gives its manager the sandboxed loader, which goes by name.
RequirementsFirstAlways == RequirementsFirst
=============================================================================
