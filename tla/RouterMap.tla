-------------------------------- MODULE RouterMap --------------------------------
(***************************************************************************)
(* The routers of a bundle (RouterMapHelper).  Each module may have a file of *)
(* routers, a route of a name each; of the routes with one name, whatever     *)
(* files they are in, the bundle gets one.  A route carries the version of    *)
(* the package it leads to, at the end of its URL.                           *)
(***************************************************************************)
EXTENDS Naturals, SequencesExt

CONSTANTS
    Modules,      \* the modules, as numbers in the order of their names
    Apps,         \* those of type ENTRY or FEATURE
    RouteNames,   \* names of routes, as numbers in their order
    Versions,     \* versions in the order of precedence that semantic versions have
    MaxRoutes     \* bounds the routes in all files

VARIABLES
    files,        \* of each module: its routes, in order, and whether all can be parsed
    routerArray   \* what GetBundleInfoForSelf makes of them

vars == <<files, routerArray>>

\* An identifier of a version: a number, a word of letters and digits (the empty one has
\* rank 0), each with its rank among its kind, or other text.
Identifiers == [kind : {"number", "word", "other"}, rank : Nat]

\* A version as SemVer splits it.  Build metadata only makes the raw text another one.
IsVersion(v) ==
    /\ {v.major, v.minor, v.patch} \subseteq Identifiers
    /\ Range(v.prerelease) \subseteq Identifiers
    /\ v.buildMeta \in STRING

RouterItem(name, version, module) == [name |-> name, version |-> version, moduleName |-> module]

RouterItems ==
    {RouterItem(n, Versions[v], m) : n \in RouteNames, v \in DOMAIN Versions, m \in Modules}

TypeOK ==
    /\ \A v \in Range(Versions) : IsVersion(v)
    /\ DOMAIN files = Modules
    /\ \A m \in Modules : files[m].valid \in BOOLEAN /\ files[m].routes \in Seq(RouterItems)
    /\ routerArray \in Seq(RouterItems)

Init ==
    /\ files = [m \in Modules |-> [valid |-> TRUE, routes |-> << >>]]
    /\ routerArray = << >>

-------------------------------------------------------------------------------
\* CompareIdentifiers.  A number precedes a word; other text comes after anything.
CompareIdentifiers(a, b) ==
    CASE "other" \in {a.kind, b.kind} -> 1
      [] a.kind # b.kind -> IF a.kind = "number" THEN -1 ELSE 1
      [] OTHER -> IF a.rank > b.rank THEN 1 ELSE IF a.rank < b.rank THEN -1 ELSE 0

\* The result of the first comparison that is not 0.
FirstOf(results) ==
    LET i == SelectInSeq(results, LAMBDA r : r # 0) IN IF i = 0 THEN 0 ELSE results[i]

CompareMain(v, w) ==
    FirstOf(<<CompareIdentifiers(v.major, w.major),
              CompareIdentifiers(v.minor, w.minor),
              CompareIdentifiers(v.patch, w.patch)>>)

\* ComparePre: no prerelease comes after any; else the first identifiers that differ
\* decide, then the number of identifiers.
ComparePre(v, w) ==
    LET n == Len(v.prerelease)
        k == Len(w.prerelease)
        common == 1 .. (IF n < k THEN n ELSE k)
    IN  IF n = 0 \/ k = 0
        THEN IF n = k THEN 0 ELSE IF n = 0 THEN 1 ELSE -1
        ELSE FirstOf([i \in common |->
                IF v.prerelease[i] = w.prerelease[i] THEN 0
                ELSE CompareIdentifiers(v.prerelease[i], w.prerelease[i])]
              \o <<IF n > k THEN 1 ELSE IF n < k THEN -1 ELSE 0>>)

\* Compare: by the raw text first.
Compare(v, w) == IF v = w THEN 0 ELSE FirstOf(<<CompareMain(v, w), ComparePre(v, w)>>)

\* Mutant of ModuleBefore: by name only.
NameBefore(m1, m2) == m1 < m2

\* The modules whose names are in moduleNameSet come before others.
ModuleBefore(m1, m2) ==
    IF m1 \in Apps <=> m2 \in Apps THEN m1 < m2 ELSE m1 \in Apps

\* RouterItemCompare: by name, the highest version first, then by module.
RouterItemCompare(r1, r2) ==
    LET c == Compare(r1.version, r2.version)
    IN  IF r1.name # r2.name THEN r1.name < r2.name
        ELSE IF c # 0 THEN c > 0
        ELSE ModuleBefore(r1.moduleName, r2.moduleName)

\* routerMap.emplace: an item that is equivalent to one in the map is not inserted.
Emplace(map, r) ==
    LET before == {i \in DOMAIN map : RouterItemCompare(map[i], r)}
        after  == {i \in DOMAIN map : RouterItemCompare(r, map[i])}
    IN  IF before \cup after # DOMAIN map THEN map
        ELSE InsertAt(map, Cardinality(before) + 1, r)

\* MergeRouter: the first item of each name in the order of the map.
MergeRouter(items) ==
    LET map == FoldLeft(Emplace, << >>, items)
        IsFirst(i) == i = 1 \/ map[i].name # map[i - 1].name
    IN  FoldLeftDomain(LAMBDA merged, i : IF IsFirst(i) THEN Append(merged, map[i]) ELSE merged,
                       << >>, map)

\* ProcessBundleRouterMap: a file that cannot be parsed ends it before anything is merged.
ProcessBundleRouterMap(of) ==
    IF \E m \in Modules : ~of[m].valid THEN << >>
    ELSE MergeRouter(FlattenSeq([i \in 1 .. Cardinality(Modules) |->
                                    of[SetToSortSeq(Modules, <)[i]].routes]))

-------------------------------------------------------------------------------
Routes == FoldFunction(LAMBDA f, n : n + Len(f.routes), 0, files)

\* A module comes with another route in its file, if ParseRouterArray does not skip it for
\* its data.
AddRoute(m, n, v) ==
    /\ files[m].valid /\ Routes < MaxRoutes
    /\ files' = [files EXCEPT ![m].routes = Append(@, RouterItem(n, Versions[v], m))]

\* A file is missing, or its array is not one of objects: ParseRouterArray fails.
Spoil(m) == files' = [files EXCEPT ![m] = [valid |-> FALSE, routes |-> << >>]]

\* The bundle is asked for after each change.
GetBundleInfoForSelf == routerArray' = ProcessBundleRouterMap(files')

Next ==
    /\ \E m \in Modules :
         \/ \E n \in RouteNames, v \in DOMAIN Versions : AddRoute(m, n, v)
         \/ Spoil(m)
    /\ GetBundleInfoForSelf

Spec == Init /\ [][Next]_vars

-------------------------------------------------------------------------------
\* Of two routes of one name the one that is to be preferred, by precedence of its version
\* and by its module; versions with the same precedence follow each other in Versions and
\* differ in their build metadata only.
SamePrecedence(v, w) == [v EXCEPT !.buildMeta = w.buildMeta] = w
Rank(v) == SelectInSeq(Versions, LAMBDA w : w = v)
Preferred(r1, r2) ==
    IF SamePrecedence(r1.version, r2.version)
    THEN \/ r1.moduleName \in Apps /\ r2.moduleName \notin Apps
         \/ /\ r1.moduleName \in Apps <=> r2.moduleName \in Apps
            /\ r1.moduleName < r2.moduleName
    ELSE Rank(r1.version) > Rank(r2.version)

\* Every name any file has leads somewhere, once, and no other route of that name should
\* have been taken: whatever the order of the files and of the routes in them, prereleases
\* come behind releases, and the app's own pages before those of shared packages.
RoutersMerged ==
    (\A m \in Modules : files[m].valid) =>
        LET items == UNION {Range(files[m].routes) : m \in Modules}
        IN  /\ {r.name : r \in Range(routerArray)} = {r.name : r \in items}
            /\ IsInjective([i \in DOMAIN routerArray |-> routerArray[i].name])
            /\ \A r \in Range(routerArray) :
                 /\ r \in items
                 /\ ~\E s \in items : s.name = r.name /\ Preferred(s, r)
================================================================================
