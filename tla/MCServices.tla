------------------------------ MODULE MCServices ------------------------------
(***************************************************************************)
(* Instances for TLC of the components beside the event queue, and of the    *)
(* data of bundles, routes and wants.  They share no state: `part' says      *)
(* which of them a behaviour is about, and the others stay in their initial  *)
(* states.                                                                   *)
(***************************************************************************)
EXTENDS Services

VARIABLES
    part,
    packaged, bundleInfo, installed, changed, latest, ready,
    files, routerArray,
    object, given, params, crossed, steps

collectorVars ==
    <<thread, owner, finish, creator, depositMap, reclaims, daemon, daemonJoins, isWaiting,
      destroying, threadLock, needCreate, exiting, exitJoins, joined>>
syncVars == vars
delegatorVars == <<life, properties, registered, record, jsOf, matched, abilityRecord, task>>
eventsVars ==
    <<kinds, eventMap, mapping, observerSeq, lastSeq, watchers, seqOf, row, waited, batch, freed,
      hasHandleTimeout, timers, js, tasks, delivered, clears>>
paramsVars == <<customParamMap, lastSet>>
rejectionVars ==
    <<pending, observers, settled, promiseAt, observerAt, calling, due, told, done, cut, refusing,
      dangling>>
bundleVars == <<packaged, bundleInfo, installed, changed, latest, ready>>
routerVars == <<files, routerArray>>
wantVars == <<object, given, params, crossed, steps>>
otherVars == <<rejectionVars, bundleVars, routerVars, wantVars>>

-------------------------------------------------------------------------------
\* A bundle com.app with an entry and a feature, which an app has or may be given later, and
\* a library whose name has been spliced; a description that cannot be parsed in every place.
Ability(name, home) == [name |-> name, home |-> home]
Description(module, type, version, abilities, dependencies, permissions) ==
    [module |-> module, type |-> type, version |-> version, valid |-> TRUE,
     abilities |-> abilities, dependencies |-> dependencies, permissions |-> permissions]
Bad(d) == [d EXCEPT !.valid = FALSE, !.version = 3]
EntryName == <<"entry">>
FeatureName == <<"feature">>
LibName == <<"com", "app", "lib">>
Entry1 == Description(EntryName, "entry", 1, <<Ability("Main", FALSE), Ability("Home", TRUE)>>,
                      <<LibName>>, {"net"})
Entry2 == Description(EntryName, "entry", 2, <<Ability("Main", TRUE)>>,
                      <<FeatureName, LibName>>, {})
Feature1 == Description(FeatureName, "feature", 1, <<Ability("Home", TRUE)>>,
                        <<LibName, FeatureName>>, {"net"})
Feature2 == Description(FeatureName, "feature", 2, <<Ability("Other", FALSE)>>, << >>, {"gps"})
Lib1 == Description(LibName, "shared", 1, << >>, <<EntryName>>, {})
Lib2 == Description(LibName, "shared", 2, <<Ability("Main", FALSE)>>, << >>, {})

\* Three modules, of which the one in the middle is one of the app, and versions that differ
\* in every way that matters; the empty one is that of a route without a version.
Number(n) == [kind |-> "number", rank |-> n]
Word(n) == [kind |-> "word", rank |-> n]
Version(prerelease, build) ==
    [major |-> Number(1), minor |-> Number(0), patch |-> Number(0),
     prerelease |-> prerelease, buildMeta |-> build]
Unversioned ==
    [major |-> Word(0), minor |-> Word(0), patch |-> Word(0), prerelease |-> << >>,
     buildMeta |-> ""]

-------------------------------------------------------------------------------
\* Objects of scripts, as WantParams has them: each kind of value, pairs of them in arrays,
\* objects that stand for something else, all of that one level deeper, and pairs of
\* properties.  1 is 4 fractions, of which 2 are still shown; 48 is too large for an int.
WantValue(kind, n, parts) == [kind |-> kind, n |-> n, parts |-> parts]
Leaf(kind, n) == WantValue(kind, n, << >>)
Property(key, value) == [key |-> key, value |-> value]
Elements(values) ==
    WantValue("array", 0, [i \in DOMAIN values |-> Property(<<"0", "1", "2">>[i], values[i])])
Object(parts) == WantValue("object", 0, parts)

Leaves ==
    {Leaf("string", n) : n \in {0, 1, 1003}} \cup {Leaf("boolean", 1), Leaf("null", 0)} \cup
    {Leaf("number", n) : n \in {4, 6, 7, 48, 4000, 4004}}
Element ==
    {Leaf("string", 1), Leaf("boolean", 0), Leaf("number", 4), Leaf("number", 6),
     Leaf("number", 4004), Leaf("null", 0), Elements(<<Leaf("number", 4)>>),
     Object(<<Property("a", Leaf("number", 4))>>)}
Simple == {Leaf("number", 4), Leaf("number", 6), Leaf("boolean", 1), Leaf("string", 1)}
ArrayValues ==
    {Elements(<< >>)} \cup {Elements(<<x>>) : x \in Element} \cup
    {Elements(<<x, y>>) : x, y \in Element} \cup {Elements(<<x, y, z>>) : x, y, z \in Simple}
Special(type, value) == Object(<<Property("type", Leaf("string", type)), Property("value", value)>>)
Specials ==
    {Special(t, v) : t \in {1, 1001, 1002},
                     v \in {Leaf("number", 4), Leaf("number", 6), Leaf("null", 0), Object(<< >>),
                            Elements(<<Leaf("boolean", 1)>>)}} \cup
    {Object(<<Property("a", Leaf("null", 0))>> \o Special(1002, Object(<< >>)).parts)}
Deep ==
    {Object(<<Property("x", v)>>) : v \in ArrayValues \cup Specials} \cup
    {Elements(<<v>>) : v \in Specials \cup {Object(<<Property("x", a)>>) : a \in ArrayValues}}
ScriptObjects ==
    {Object(<< >>)} \cup
    {Object(<<Property("a", v)>>) : v \in Leaves \cup ArrayValues \cup Specials \cup Deep} \cup
    {Object(<<Property("a", v), Property("b", w)>>) : v \in Leaves, w \in Leaves \cup Specials}

\* Parameters that native code sets: every type and arrays of it, beside an int, an empty
\* array, or parameters with something that is lost.
NativeKinds == {"byte", "char", "short", "int", "long", "float", "double", "string"}
NativeValues ==
    {Leaf(k, 4) : k \in NativeKinds} \cup
    {Leaf("boolean", 1), Leaf("float", 6), Leaf("double", 7), Elements(<< >>)} \cup
    {Elements(<<Leaf(k, 4), Leaf(k, 8)>>) : k \in NativeKinds}
Inner == <<Property("c", Elements(<< >>)), Property("d", Leaf("short", 4))>>
NativeParams ==
    {WantValue("params", 0, <<Property("a", v), Property("b", w)>>) :
        v \in NativeValues,
        w \in {Leaf("int", 4), Elements(<< >>), WantValue("params", 0, Inner)}}

-------------------------------------------------------------------------------
\* A monitor of an ability and one of a stage.
MCWatches == [m1 |-> {"a1"}, k1 |-> {"s1"}]

\* Two watchers, of one name or each of its own: of the same events.
MCNameOf == [w1 |-> "n", w2 |-> "n"]
MCOwnNameOf == [w1 |-> "n1", w2 |-> "n2"]
MCRowOf == [w1 |-> 0, w2 |-> 2]
MCTimeoutOf == [w1 |-> 0, w2 |-> 1]
MCKindsOf == [w1 |-> {"x"}, w2 |-> {"x"}]

Bundle == INSTANCE BundleContents WITH
    BundleName <- <<"com", "app">>,
    Apps <- {<<Feature1, Entry1>>, <<Bad(Feature1), Entry1>>, <<Bad(Entry1)>>},
    Installable <- {Entry2, Bad(Entry2), Feature2, Lib1, Lib2}

Routers == INSTANCE RouterMap WITH
    Modules <- 1 .. 3, Apps <- {2}, RouteNames <- 1 .. 2, MaxRoutes <- 3,
    Versions <- <<Version(<<Number(2)>>, ""), Version(<<Word(1)>>, ""),
                  Version(<<Word(1), Number(1)>>, ""), Version(<< >>, ""),
                  Version(<< >>, "b"), Unversioned>>

Wants == INSTANCE WantParams WITH
    Scripts <- ScriptObjects, Natives <- NativeParams,
    One <- 4, Digit <- 2, IntMax <- 10, MaxSteps <- 3

SuiteInit ==
    /\ part \in {"collector", "sync", "delegator", "events", "params", "rejections", "bundle",
                 "routers", "wants"}
    /\ Collector!Init /\ Init /\ Delegator!Init /\ AppEvent!Init /\ Params!Init
    /\ Rejections!Init
    /\ IF part = "bundle" THEN Bundle!Init
       ELSE packaged = << >> /\ bundleInfo = Bundle!NoBundle /\ installed = << >> /\ changed = {}
            /\ latest = << >> /\ ready = << >>
    /\ Routers!Init
    /\ IF part = "wants" THEN Wants!Init
       ELSE object = Wants!NoObject /\ given = Wants!Params(<< >>) /\ params = given
            /\ crossed = FALSE /\ steps = 0

CollectorStep ==
    /\ part = "collector" /\ Collector!Next
    /\ UNCHANGED <<part, syncVars, delegatorVars, eventsVars, paramsVars, otherVars>>
SyncStep ==
    /\ part = "sync" /\ Next
    /\ UNCHANGED <<part, collectorVars, delegatorVars, eventsVars, paramsVars, otherVars>>
DelegatorStep ==
    /\ part = "delegator" /\ Delegator!Next
    /\ UNCHANGED <<part, collectorVars, syncVars, eventsVars, paramsVars, otherVars>>
EventsStep ==
    /\ part = "events" /\ AppEvent!Next
    /\ UNCHANGED <<part, collectorVars, syncVars, delegatorVars, paramsVars, otherVars>>
ParamsStep ==
    /\ part = "params" /\ Params!Next
    /\ UNCHANGED <<part, collectorVars, syncVars, delegatorVars, eventsVars, otherVars>>
RejectionsStep ==
    /\ part = "rejections" /\ Rejections!Next
    /\ UNCHANGED <<part, collectorVars, syncVars, delegatorVars, eventsVars, paramsVars,
                   bundleVars, routerVars, wantVars>>
BundleStep ==
    /\ part = "bundle" /\ Bundle!Next
    /\ UNCHANGED <<part, collectorVars, syncVars, delegatorVars, eventsVars, paramsVars,
                   rejectionVars, routerVars, wantVars>>
RoutersStep ==
    /\ part = "routers" /\ Routers!Next
    /\ UNCHANGED <<part, collectorVars, syncVars, delegatorVars, eventsVars, paramsVars,
                   rejectionVars, bundleVars, wantVars>>
WantsStep ==
    /\ part = "wants" /\ Wants!Next
    /\ UNCHANGED <<part, collectorVars, syncVars, delegatorVars, eventsVars, paramsVars,
                   rejectionVars, bundleVars, routerVars>>

SuiteNext ==
    \/ CollectorStep \/ SyncStep \/ DelegatorStep \/ EventsStep \/ ParamsStep
    \/ RejectionsStep \/ BundleStep \/ RoutersStep \/ WantsStep

allVars ==
    <<part, collectorVars, syncVars, delegatorVars, eventsVars, paramsVars, otherVars>>

\* The fairness of each part.
CollectorGoesOn ==
    /\ \A t \in Threads : WF_collectorVars(part = "collector" /\ Collector!Worker(t))
    /\ WF_collectorVars(part = "collector" /\ Collector!Daemon)
    /\ WF_collectorVars(part = "collector" /\ Collector!Stop)
SyncGoesOn == \A t \in Senders : WF_syncVars(part = "sync" /\ Progress(t))
DelegatorGoesOn ==
    \A c \in 1 .. MaxCalls : WF_delegatorVars(part = "delegator" /\ Delegator!Progress(c))
EventsGoOn ==
    /\ WF_eventsVars(part = "events" /\ AppEvent!HandleTimeout)
    /\ WF_eventsVars(part = "events" /\ AppEvent!RunTask)
    /\ WF_eventsVars(part = "events" /\ AppEvent!PublishWatcher)
SuiteSpec ==
    /\ SuiteInit /\ [][SuiteNext]_allVars
    /\ CollectorGoesOn /\ SyncGoesOn /\ DelegatorGoesOn /\ EventsGoOn

\* Application events by themselves.
EventsSpec == part = "events" /\ SuiteInit /\ [][SuiteNext]_allVars

-------------------------------------------------------------------------------
\* The bundle is what was read last of each module, the routes are those to be preferred, and
\* parameters of wants come as they were given.
DataHolds ==
    /\ part = "bundle" => Bundle!TypeOK /\ Bundle!BundleSafe
    /\ part = "routers" => Routers!TypeOK /\ Routers!RoutersMerged
    /\ part = "wants" => Wants!TypeOK /\ Wants!WantsKept
================================================================================
