----------------------------- MODULE BundleContents -----------------------------
(***************************************************************************)
(* What the application knows of its bundle (BundleContainer and              *)
(* InnerBundleInfo): modules by package, and the abilities and skills of all   *)
(* modules in one map each, by keys that are spliced from three names.  The    *)
(* descriptions of the app are read at its launch; a module that is installed *)
(* or updated later, while the app runs, is read when it is first asked for.   *)
(***************************************************************************)
EXTENDS Naturals, SequencesExt

CONSTANTS
    BundleName,   \* the parts of the name, between its dots
    Apps,         \* what apps may come with: lists of descriptions, GetModuleJsonBufferList
    Installable   \* descriptions that may come to the directory of modules later

VARIABLES
    packaged,     \* the descriptions this app has come with
    bundleInfo,   \* InnerBundleInfo, or NoBundle
    installed,    \* of a module: its description in the directory of modules, if any
    changed,      \* modules for which IsDynamicUpdateModule is true
    latest,       \* of each module that is known: the last description of it that was read
    ready         \* the module the last request was for, if it has been read anew

vars == <<packaged, bundleInfo, installed, changed, latest, ready>>

NoBundle == [modules |-> << >>]
Nothing == [text |-> "none"]  \* no description
NoPackage == << >>
Descriptions == Installable \cup UNION {Range(app) : app \in Apps}

\* The module a description is of.  SplicingModuleName puts the name of the bundle in front
\* of names if there is a directory of that name; those names are spliced already here.
Package(d) == d.module
Packages == {Package(d) : d \in Descriptions}

\* key.append(bundleName).append(".").append(moduleName).append(".").append(abilityName)
Key(p, ability) == BundleName \o p \o <<ability>>

-------------------------------------------------------------------------------
\* ToInnerModuleInfo, and the keys of its abilities; the first ability with the skill of
\* the home screen is the entry ability.
InnerModuleInfo(d) ==
    LET home == SelectInSeq(d.abilities, LAMBDA a : a.home)
    IN  [moduleName |-> d.module, isEntry |-> d.type = "entry", version |-> d.version,
         dependencies |-> d.dependencies, requestPermissions |-> d.permissions,
         abilityKeys |-> {Key(d.module, a.name) : a \in Range(d.abilities)},
         entryAbilityKey |-> IF home = 0 THEN << >> ELSE Key(d.module, d.abilities[home].name)]

TypeOK ==
    /\ packaged \in Apps
    /\ bundleInfo # NoBundle =>
        /\ DOMAIN bundleInfo.modules \subseteq Packages
        /\ DOMAIN bundleInfo.skills
             \subseteq UNION {InnerModuleInfo(d).abilityKeys : d \in Descriptions}
        /\ bundleInfo.mainEntry \in Packages \cup {NoPackage}
    /\ installed \in [Packages -> Descriptions \cup {Nothing}]
    /\ changed \subseteq {p \in Packages : installed[p] # Nothing}
    /\ latest \in [Packages -> Descriptions \cup {Nothing}]
    /\ ready \in Packages \cup {NoPackage}

\* ToAbilityInfo.
AbilityInfo(d, a) == [name |-> a.name, moduleName |-> d.module, version |-> d.version]

\* ToBundleInfo: only an entry module is the main entry.
MainEntry(d) == IF d.type = "entry" THEN d.module ELSE NoPackage

ToInnerBundleInfo(d) ==
    LET keys == InnerModuleInfo(d).abilityKeys
        Of(k) == CHOOSE a \in Range(d.abilities) : Key(d.module, a.name) = k
    IN  [modules |-> d.module :> InnerModuleInfo(d),
         abilities |-> [k \in keys |-> AbilityInfo(d, Of(k))],
         skills |-> [k \in keys |-> [home |-> Of(k).home, version |-> d.version]],
         mainEntry |-> MainEntry(d)]

\* The Add functions: try_emplace keeps what is there.
AddInnerModuleInfo(b, new) ==
    [b EXCEPT !.modules = @ @@ new.modules,
              !.abilities = @ @@ new.abilities,
              !.skills = @ @@ new.skills]

Without(f, keys) == Restrict(f, DOMAIN f \ keys)

RemoveModuleInfo(b, p) ==
    IF p \notin DOMAIN b.modules THEN b
    ELSE LET old == b.modules[p]
         IN  [modules   |-> Without(b.modules, {p}),
              abilities |-> Without(b.abilities, old.abilityKeys),
              skills    |-> Without(b.skills, old.abilityKeys),
              mainEntry |-> IF old.isEntry THEN NoPackage ELSE b.mainEntry]

\* UpdateModuleInfo: the main entry is not set again.
UpdateModuleInfo(b, d) ==
    AddInnerModuleInfo(RemoveModuleInfo(b, Package(d)), ToInnerBundleInfo(d))

\* One turn of LoadBundleInfos, with AddModuleInfo: the first description makes the bundle,
\* one that cannot be parsed is skipped.
LoadBundleInfo(b, d) ==
    IF ~d.valid THEN b
    ELSE IF b = NoBundle THEN ToInnerBundleInfo(d)
    ELSE IF Package(d) \in DOMAIN b.modules THEN UpdateModuleInfo(b, d)
    ELSE AddInnerModuleInfo(b, ToInnerBundleInfo(d))

LoadBundleInfos(b, list) == FoldLeft(LoadBundleInfo, b, list)

-------------------------------------------------------------------------------
\* FindHapModuleInfo: the abilities are those with the name of the package, between dots,
\* anywhere in their key.
HasPart(key, p) ==
    \E i \in 2 .. Len(key) - Len(p) : SubSeq(key, i, i + Len(p) - 1) = p

FindHapModuleInfo(b, p) ==
    IF p \notin DOMAIN b.modules THEN Nothing
    ELSE [moduleName |-> b.modules[p].moduleName, version |-> b.modules[p].version,
          dependencies |-> b.modules[p].dependencies,
          abilityInfos |-> {b.abilities[k] : k \in {k \in DOMAIN b.abilities : HasPart(k, p)}}]

\* FindAbilityInfo: the first in the order of the keys, any of them here.
FindAbilityInfo(b, p, ability) ==
    LET found == {k \in DOMAIN b.abilities :
                    b.abilities[k].name = ability /\ b.abilities[k].moduleName = p}
    IN  IF found = {} THEN Nothing ELSE b.abilities[CHOOSE k \in found : TRUE]

FindAbilityInfos(b) == Range(b.abilities)

\* RemoveDuplicateName: the permissions that the modules ask for.
RequestedPermissions(b) == UNION {b.modules[p].requestPermissions : p \in DOMAIN b.modules}

\* The permissions are there only if flags ask for them.
GetApplicationInfoV9(b, flags) ==
    [moduleInfos |-> {b.modules[p].moduleName : p \in DOMAIN b.modules},
     permissions |-> IF "permission" \in flags THEN RequestedPermissions(b) ELSE {}]

\* GetBundleInfoV9, with all flags: ProcessBundleFlags asks for the metadata of the application
\* at most, GetBundleWithReqPermissionsV9 adds the permissions to the bundle itself.
GetBundleInfoV9(b) ==
    [applicationInfo |-> GetApplicationInfoV9(b, {"metadata"}),
     reqPermissions |-> RequestedPermissions(b),
     hapModuleInfos |-> {FindHapModuleInfo(b, p) : p \in DOMAIN b.modules}]

\* GetMainAbilityInfo: that of an entry module, or else of any module, the last of them.
MainAbilities(b) ==
    LET having == {p \in DOMAIN b.modules : b.modules[p].entryAbilityKey \in DOMAIN b.abilities}
        entries == {p \in having : b.modules[p].isEntry}
    IN  {b.abilities[b.modules[p].entryAbilityKey] : p \in IF entries = {} THEN having ELSE entries}

\* GetDependentModuleNames, which fails for a module that is not known.
Dependencies(b, p) == IF p \in DOMAIN b.modules THEN b.modules[p].dependencies ELSE << >>

\* GetAllDependentModuleNames: the queue of names and what has come out of it.
RECURSIVE Visit(_, _, _)
Visit(b, moduleDeque, names) ==
    IF moduleDeque = << >> THEN names
    ELSE LET name == Head(moduleDeque)
         IN  IF name \in Range(names) THEN Visit(b, Tail(moduleDeque), names)
             ELSE Visit(b, Tail(moduleDeque) \o Dependencies(b, name), Append(names, name))

GetAllDependentModuleNames(b, p) == Visit(b, Dependencies(b, p), << >>)

-------------------------------------------------------------------------------
\* What is read replaces what was known of its module.
Read(known, list) ==
    [p \in Packages |->
        LET last == SelectLastInSeq(list, LAMBDA d : d.valid /\ Package(d) = p)
        IN  IF last = 0 THEN known[p] ELSE list[last]]

NothingKnown == [p \in Packages |-> Nothing]

\* ScheduleLaunchApplication reads what the app has come with.
Init ==
    /\ packaged \in Apps
    /\ bundleInfo = LoadBundleInfos(NoBundle, packaged)
    /\ latest = Read(NothingKnown, packaged)
    /\ installed = NothingKnown /\ changed = {} /\ ready = NoPackage

\* A module is installed or updated; its version code tells.
Install(d) ==
    /\ installed[Package(d)] # d
    /\ installed' = [installed EXCEPT ![Package(d)] = d]
    /\ changed' = changed \cup {Package(d)}
    /\ ready' = NoPackage
    /\ UNCHANGED <<packaged, bundleInfo, latest>>

\* HandleDispatchOnCreate and ParseHspModuleJson up to GetHapModuleInfo: a module that has
\* changed is removed, and one that is not known is read with the descriptions in list, if
\* its own can be read.
MakeReady(p, list) ==
    LET dynamic == p \in changed
        known == IF dynamic THEN RemoveModuleInfo(bundleInfo, p) ELSE bundleInfo
        reads == p \notin DOMAIN known.modules /\ installed[p] # Nothing
        kept == IF dynamic THEN [latest EXCEPT ![p] = Nothing] ELSE latest
    IN  /\ bundleInfo' = IF reads THEN LoadBundleInfos(known, list) ELSE known
        /\ latest' = IF reads THEN Read(kept, list) ELSE kept
        /\ changed' = changed \ {p}
        /\ ready' = IF reads /\ installed[p].valid THEN p ELSE NoPackage
        /\ UNCHANGED <<packaged, installed>>

\* Mutant of HandleDispatchOnCreate: the module is put in front of the app's descriptions.
DynamicFirst(p) == MakeReady(p, <<installed[p]>> \o packaged)

\* HandleDispatchOnCreate reads the descriptions of the app again, then that of the module.
HandleDispatchOnCreate(p) == MakeReady(p, Append(packaged, installed[p]))

\* ParseHspModuleJson, when a script imports from a module, reads that of the module.
ParseHspModuleJson(p) == MakeReady(p, <<installed[p]>>)

Next ==
    \/ \E d \in Installable : Install(d)
    \/ \E p \in Packages : HandleDispatchOnCreate(p) \/ ParseHspModuleJson(p)

Spec == Init /\ [][Next]_vars

-------------------------------------------------------------------------------
Known == {p \in Packages : latest[p] # Nothing}
AbilitiesOf(d) == {AbilityInfo(d, a) : a \in Range(d.abilities)}

\* Modules, abilities and skills are those of the last description of each module, however
\* often it was read, removed and read again: nothing is left of an older one, and no module
\* has taken anything of another with it.
NothingStale ==
    /\ DOMAIN bundleInfo.modules = Known
    /\ bundleInfo # NoBundle =>
        /\ FindAbilityInfos(bundleInfo) = UNION {AbilitiesOf(latest[p]) : p \in Known}
        /\ DOMAIN bundleInfo.skills = DOMAIN bundleInfo.abilities
        /\ \A k \in DOMAIN bundleInfo.skills :
                bundleInfo.skills[k].version = bundleInfo.abilities[k].version
        /\ bundleInfo.mainEntry # NoPackage =>
                bundleInfo.mainEntry \in Known /\ latest[bundleInfo.mainEntry].type = "entry"

\* A module's description holds its own abilities only, although they are looked for by a
\* part of their key, and every ability is found.
FindsItsOwn ==
    \A p \in Known :
        /\ FindHapModuleInfo(bundleInfo, p).abilityInfos = AbilitiesOf(latest[p])
        /\ FindHapModuleInfo(bundleInfo, p) \in GetBundleInfoV9(bundleInfo).hapModuleInfos
        /\ \A a \in AbilitiesOf(latest[p]) : FindAbilityInfo(bundleInfo, p, a.name) = a

\* The bundle asks for what its modules ask for, as they were read last, and so does the
\* application if it is asked for its permissions.
AsksForItsOwn ==
    LET asked == UNION {latest[p].permissions : p \in Known}
    IN  /\ GetBundleInfoV9(bundleInfo).reqPermissions = asked
        /\ GetApplicationInfoV9(bundleInfo, {"permission"}).permissions = asked

\* The main ability is that of an entry module, if one has an ability for the home screen.
HomeIsEntry ==
    bundleInfo # NoBundle =>
        \A a \in MainAbilities(bundleInfo) :
            \/ latest[a.moduleName].type = "entry"
            \/ \A p \in Known : latest[p].type = "entry" =>
                    \A x \in Range(latest[p].abilities) : ~x.home

\* All that a module needs, directly or not, is found, even if modules need each other.
RECURSIVE Reachable(_)
Reachable(ps) ==
    LET next == ps \cup UNION {Range(latest[p].dependencies) : p \in ps \cap Known}
    IN  IF next = ps THEN ps ELSE Reachable(next)
DependenciesFound ==
    \A p \in Known :
        LET names == GetAllDependentModuleNames(bundleInfo, p)
        IN  /\ IsInjective(names)
            /\ Range(names) = Reachable(Range(latest[p].dependencies))

\* A module that has changed is as it was installed once it has been read for a request,
\* although the descriptions of the app are read with it.
ReadAnew == ready # NoPackage => latest[ready] = installed[ready]

\* The bundle is that of the descriptions read last, of each module.
BundleSafe ==
    /\ NothingStale /\ FindsItsOwn /\ AsksForItsOwn /\ HomeIsEntry /\ DependenciesFound /\ ReadAnew
================================================================================
