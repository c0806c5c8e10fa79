----------------------------- MODULE ResourceCalls -----------------------------
(***************************************************************************)
(* The resource manager of scripts (ResourceManagerAddon).  A function that   *)
(* ends in Sync answers at once; the others put their arguments into a        *)
(* ResMgrDataContext, which a thread of the pool works on and the main thread *)
(* completes.  A resource is named by its number, by its name or by a         *)
(* Resource object; the latter is looked up in a manager made for its module. *)
(* The library that holds the resources is external.                         *)
(***************************************************************************)
EXTENDS Naturals, Sequences, FiniteSets

CONSTANTS
    Asked,       \* the calls that scripts make: manager, function and arguments
    MaxCalls,    \* bounds the calls
    MaxChanges   \* bounds how often the configuration, the overlays, ... change

VARIABLES
    world,       \* what answers depend on: configurations, overlays, modules, the theme
    descriptors, \* paths with an open descriptor
    resCalls,    \* calls in the order they were made
    changes

vars == <<world, descriptors, resCalls, changes>>

\* Arguments.  The resource 1 has the name and the path "r"; nothing has number 0 or 2 or the
\* name "x"; the raw directory "e" is empty.
Argument(type, id, name, module, whole) ==
    [type |-> type, id |-> id, name |-> name, module |-> module, whole |-> whole]
Id(n) == Argument("number", n, "", "", TRUE)
Name(s) == Argument("string", 0, s, "", TRUE)
Object(module, n) == Argument("object", n, "", module, TRUE)
Broken == Argument("object", 1, "", "entry", FALSE)
FunctionArgument == Argument("function", 0, "", "", TRUE)
NoArgument == Argument("undefined", 0, "", "", TRUE)

Firsts ==
    {NoArgument, FunctionArgument, Broken} \cup {Id(n) : n \in 0 .. 2} \cup
    {Name(s) : s \in {"r", "x", "e"}} \cup
    {Object("entry", 1), Object("entry", 2), Object("lib", 1)}
Seconds == {"none", "undefined", "number", "string", "function"}
Thirds == {"none", "number", "function"}
Arguments ==
    {a \in [first : Firsts, second : Seconds, third : Thirds] :
        /\ a.first = NoArgument => a.second = "none"
        /\ a.second = "none" => a.third = "none"}

\* The functions: what they ask for and by which of their names.  "old" are those of the
\* first version of the interface.
Op(whats, ways) == [what : whats, by : ways]
AsyncOps ==
    Op({"string", "array", "media", "base64", "plural"}, {"id", "name", "old"}) \cup
    Op({"color"}, {"id", "name"}) \cup
    Op({"file", "descriptor", "close"}, {"path", "oldPath"}) \cup
    Op({"list"}, {"path"}) \cup Op({"config", "device"}, {"none"})
SyncOps ==
    Op({"string", "symbol", "color", "number", "boolean", "base64", "media", "plural",
        "intPlural", "doublePlural", "array", "drawable"}, {"id", "name"}) \cup
    Op({"file", "descriptor", "close", "list", "isDirectory"}, {"path"}) \cup
    Op({"config", "device", "locales"}, {"none"})

\* Managers that scripts have: that of a context, one that overrides its configuration, and
\* that of the system.
Addons == {"own", "override", "system"}

\* Answers.
NoContent == [what |-> "", config |-> 0, overlaid |-> FALSE, extra |-> FALSE]
Content(what, config, overlaid, extra) ==
    [what |-> what, config |-> config, overlaid |-> overlaid, extra |-> extra]
Answer(how, code, content) == [how |-> how, code |-> code, content |-> content]
Value(content) == Answer("value", "", content)
Error(code) == Answer("error", code, NoContent)
Nothing == Answer("nothing", "", NoContent)

-------------------------------------------------------------------------------
\* The library: a manager has a configuration, and overlays that hide its resources.
Configurations == {1, 2}
OverrideConfigurations == {3, 4}
SystemConfiguration == 5
ManagerOf(w, addon) ==
    CASE addon = "own"      -> [config |-> w.managed, overlaid |-> w.overlaid]
      [] addon = "override" -> [config |-> w.override, overlaid |-> FALSE]
      [] addon = "system"   -> [config |-> SystemConfiguration, overlaid |-> FALSE]
Get(manager, what, extra) == Value(Content(what, manager.config, manager.overlaid, extra))
GetById(manager, id, what, extra) ==
    IF id = 1 THEN Get(manager, what, extra) ELSE Error("notFoundById")
GetByName(manager, name, what, extra) ==
    IF name = "r" THEN Get(manager, what, extra) ELSE Error("notFoundByName")
GetRaw(manager, path, what) ==
    IF path = "r" \/ (path = "e" /\ what \in {"list", "isDirectory"}) THEN Get(manager, what, FALSE)
    ELSE Error("path")
CloseRaw(manager, path) ==
    IF path \in descriptors THEN Get(manager, "close", FALSE) ELSE Error("path")

-------------------------------------------------------------------------------
\* ResMgrDataContext.  Numbers are only told apart by whether they were given.
NoContext ==
    [resId |-> 0, resource |-> FALSE, object |-> 0, module |-> "", resName |-> "", path |-> "",
     density |-> FALSE, param |-> FALSE, callback |-> FALSE]
WithId(first) == [NoContext EXCEPT !.resId = first.id]
WithName(first) == [NoContext EXCEPT !.resName = first.name]
WithPath(first) == [NoContext EXCEPT !.path = first.name]
GetResourceObject(first) ==
    [NoContext EXCEPT !.resource = TRUE, !.object = first.id, !.module = first.module]

\* GetDataType
IsNumberOrMissing(x) == x \in {"none", "undefined", "number"}

\* Mutant of GetHapResourceManager: a system manager asks for a context as well.
AlwaysOfModule(w, addon, c) ==
    IF ~c.resource
    THEN [found |-> TRUE, manager |-> ManagerOf(w, addon), id |-> c.resId]
    ELSE [found |-> c.module \in w.installed, id |-> c.object,
          manager |-> [config |-> w.config, overlaid |-> FALSE]]

\* The manager of a new context for the module, with the configuration of the application,
\* unless the manager is one of the system or overrides the configuration.
GetHapResourceManager(w, addon, c) ==
    IF ~c.resource
    THEN [found |-> TRUE, manager |-> ManagerOf(w, addon), id |-> c.resId]
    ELSE IF addon # "own"
    THEN [found |-> TRUE, manager |-> ManagerOf(w, addon), id |-> c.object]
    ELSE [found |-> c.module \in w.installed, id |-> c.object,
          manager |-> [config |-> w.config, overlaid |-> FALSE]]

-------------------------------------------------------------------------------
\* Functions that answer at once.
InitIdResourceAddon(first) ==
    CASE first.type = "number" -> WithId(first)
      [] first.type = "object" -> GetResourceObject(first)
IsIdOrResource(first) == first.type = "number" \/ (first.type = "object" /\ first.whole)

\* A second argument is refused before the manager is looked for, a format afterwards.
SyncById(w, addon, a, what, refused, format, extra) ==
    IF ~IsIdOrResource(a.first) \/ refused THEN Error("invalid")
    ELSE LET c == InitIdResourceAddon(a.first)
             hap == GetHapResourceManager(w, addon, c)
         IN  IF ~hap.found THEN Error("notFoundById")
             ELSE IF ~format THEN Error("idFormat")
             ELSE GetById(hap.manager, hap.id, what, extra)

\* InitNameAddon
SyncByName(w, addon, a, what, refused, format, extra) ==
    IF a.first.type # "string" \/ refused THEN Error("invalid")
    ELSE IF ~format THEN Error("nameFormat")
    ELSE GetByName(ManagerOf(w, addon), a.first.name, what, extra)

\* InitParamsFromParamArray, from the second argument or from the third one on.
InitNapiParameters(a) ==
    /\ a.second \in {"none", "number", "string"}
    /\ a.third \in {"none", "number", "string"}
InitOptionalParameters(a) == a.third \in {"none", "number", "string"}

GetStringSync(w, addon, a) ==
    SyncById(w, addon, a, "string", FALSE, InitNapiParameters(a), FALSE)
GetSymbol(w, addon, a) == SyncById(w, addon, a, "symbol", FALSE, TRUE, FALSE)
GetColorSync(w, addon, a) == SyncById(w, addon, a, "color", FALSE, TRUE, FALSE)
GetNumber(w, addon, a) == SyncById(w, addon, a, "number", FALSE, TRUE, FALSE)
GetBoolean(w, addon, a) == SyncById(w, addon, a, "boolean", FALSE, TRUE, FALSE)
GetMediaContentBase64Sync(w, addon, a) ==
    SyncById(w, addon, a, "base64", ~IsNumberOrMissing(a.second), TRUE, a.second = "number")
GetMediaContentSync(w, addon, a) ==
    SyncById(w, addon, a, "media", ~IsNumberOrMissing(a.second), TRUE, a.second = "number")
GetPluralStringValueSync(w, addon, a) ==
    SyncById(w, addon, a, "plural", a.second # "number", TRUE, TRUE)
GetStringArrayValueSync(w, addon, a) == SyncById(w, addon, a, "array", FALSE, TRUE, FALSE)
GetIntPluralStringValueSync(w, addon, a) ==
    SyncById(w, addon, a, "intPlural", a.second # "number", InitOptionalParameters(a), TRUE)
GetDoublePluralStringValueSync(w, addon, a) ==
    SyncById(w, addon, a, "doublePlural", a.second # "number", InitOptionalParameters(a), TRUE)

\* The third argument asks for the icon of the theme; a plain one will do as well.  Nothing
\* is thrown for a module that is not known.
GetDrawableDescriptor(w, addon, a) ==
    LET refused == ~IsNumberOrMissing(a.second) \/ ~IsNumberOrMissing(a.third)
        what == IF a.third = "number" /\ w.theme THEN "themeIcon" ELSE "drawable"
    IN  IF IsIdOrResource(a.first) /\ ~refused
           /\ ~GetHapResourceManager(w, addon, InitIdResourceAddon(a.first)).found
        THEN Nothing
        ELSE SyncById(w, addon, a, what, refused, TRUE, a.second = "number")

GetStringByNameSync(w, addon, a) ==
    SyncByName(w, addon, a, "string", FALSE, InitNapiParameters(a), FALSE)
GetSymbolByName(w, addon, a) == SyncByName(w, addon, a, "symbol", FALSE, TRUE, FALSE)
GetColorByNameSync(w, addon, a) == SyncByName(w, addon, a, "color", FALSE, TRUE, FALSE)
GetNumberByName(w, addon, a) == SyncByName(w, addon, a, "number", FALSE, TRUE, FALSE)
GetBooleanByName(w, addon, a) == SyncByName(w, addon, a, "boolean", FALSE, TRUE, FALSE)
GetPluralStringByNameSync(w, addon, a) ==
    SyncByName(w, addon, a, "plural", a.second # "number", TRUE, TRUE)
GetMediaBase64ByNameSync(w, addon, a) ==
    SyncByName(w, addon, a, "base64", ~IsNumberOrMissing(a.second), TRUE, a.second = "number")
GetMediaByNameSync(w, addon, a) ==
    SyncByName(w, addon, a, "media", ~IsNumberOrMissing(a.second), TRUE, a.second = "number")
GetStringArrayByNameSync(w, addon, a) == SyncByName(w, addon, a, "array", FALSE, TRUE, FALSE)
GetIntPluralStringByNameSync(w, addon, a) ==
    SyncByName(w, addon, a, "intPlural", a.second # "number", InitOptionalParameters(a), TRUE)
GetDoublePluralStringByNameSync(w, addon, a) ==
    SyncByName(w, addon, a, "doublePlural", a.second # "number", InitOptionalParameters(a), TRUE)

\* By its name, an icon of the theme is taken or none.
GetDrawableDescriptorByName(w, addon, a) ==
    LET refused == ~IsNumberOrMissing(a.second) \/ ~IsNumberOrMissing(a.third)
        themed == a.third = "number"
        found == SyncByName(w, addon, a, IF themed THEN "themeIcon" ELSE "drawable", refused,
                            TRUE, a.second = "number")
    IN  IF found.how = "value" /\ themed /\ ~w.theme THEN Error("notFoundByName") ELSE found

\* InitPathAddon
SyncByPath(w, addon, a, what) ==
    IF a.first.type # "string" THEN Error("invalid")
    ELSE IF what = "close" THEN CloseRaw(ManagerOf(w, addon), a.first.name)
    ELSE GetRaw(ManagerOf(w, addon), a.first.name, what)

\* An empty list is an error here.
GetRawFileListSync(w, addon, a) ==
    IF a.first.name = "e" THEN Error("path") ELSE SyncByPath(w, addon, a, "list")

\* The configuration, the capability of the device, and locales, which take an optional
\* boolean that is none of the arguments here.
GetConfigurationSync(w, addon, what) == Get(ManagerOf(w, addon), what, FALSE)
GetLocales(w, addon, a) ==
    IF a.first.type # "undefined" THEN Error("invalid")
    ELSE Get(ManagerOf(w, addon), "locales", FALSE)

AnswerById(w, addon, what, a) ==
    CASE what = "string"       -> GetStringSync(w, addon, a)
      [] what = "symbol"       -> GetSymbol(w, addon, a)
      [] what = "color"        -> GetColorSync(w, addon, a)
      [] what = "number"       -> GetNumber(w, addon, a)
      [] what = "boolean"      -> GetBoolean(w, addon, a)
      [] what = "base64"       -> GetMediaContentBase64Sync(w, addon, a)
      [] what = "media"        -> GetMediaContentSync(w, addon, a)
      [] what = "plural"       -> GetPluralStringValueSync(w, addon, a)
      [] what = "intPlural"    -> GetIntPluralStringValueSync(w, addon, a)
      [] what = "doublePlural" -> GetDoublePluralStringValueSync(w, addon, a)
      [] what = "array"        -> GetStringArrayValueSync(w, addon, a)
      [] what = "drawable"     -> GetDrawableDescriptor(w, addon, a)
AnswerByName(w, addon, what, a) ==
    CASE what = "string"       -> GetStringByNameSync(w, addon, a)
      [] what = "symbol"       -> GetSymbolByName(w, addon, a)
      [] what = "color"        -> GetColorByNameSync(w, addon, a)
      [] what = "number"       -> GetNumberByName(w, addon, a)
      [] what = "boolean"      -> GetBooleanByName(w, addon, a)
      [] what = "base64"       -> GetMediaBase64ByNameSync(w, addon, a)
      [] what = "media"        -> GetMediaByNameSync(w, addon, a)
      [] what = "plural"       -> GetPluralStringByNameSync(w, addon, a)
      [] what = "intPlural"    -> GetIntPluralStringByNameSync(w, addon, a)
      [] what = "doublePlural" -> GetDoublePluralStringByNameSync(w, addon, a)
      [] what = "array"        -> GetStringArrayByNameSync(w, addon, a)
      [] what = "drawable"     -> GetDrawableDescriptorByName(w, addon, a)
SyncAnswer(w, addon, op, a) ==
    CASE op.by = "id"        -> AnswerById(w, addon, op.what, a)
      [] op.by = "name"      -> AnswerByName(w, addon, op.what, a)
      [] op.what = "list"    -> GetRawFileListSync(w, addon, a)
      [] op.what = "locales" -> GetLocales(w, addon, a)
      [] op.what \in {"config", "device"} -> GetConfigurationSync(w, addon, op.what)
      [] op.what \in {"file", "descriptor", "close", "isDirectory"} -> SyncByPath(w, addon, a, op.what)

-------------------------------------------------------------------------------
\* The others: their arguments are looked at and put into a context.
Prepared(how, context) == [how |-> how, context |-> context]
Queued(c) == Prepared("queued", c)
Thrown == Prepared("thrown", NoContext)
Silent == Prepared("silent", NoContext)

\* Then an optional density and an optional callback.
DensityAndCallback(c, a) ==
    IF a.second = "function" THEN Queued([c EXCEPT !.callback = TRUE])
    ELSE IF ~IsNumberOrMissing(a.second) THEN Thrown
    ELSE Queued([c EXCEPT !.density = a.second = "number", !.callback = a.third = "function"])

ProcessNameParamV9(a) == DensityAndCallback(WithName(a.first), a)
ProcessIdParamV9(a) == DensityAndCallback(WithId(a.first), a)
ProcessResourceParamV9(a) ==
    IF ~a.first.whole THEN Thrown ELSE DensityAndCallback(GetResourceObject(a.first), a)

\* A string is taken for a path, whatever is asked for.
ProcessOnlyIdParam(a) ==
    LET c == CASE a.first.type = "number" -> WithId(a.first)
               [] a.first.type = "string" -> WithPath(a.first)
               [] a.first.type = "object" -> GetResourceObject(a.first)
               [] OTHER                   -> NoContext
    IN  IF ~a.first.whole THEN Thrown ELSE Queued([c EXCEPT !.callback = a.second = "function"])

\* An object that is not a Resource is not even refused: nothing comes of the call.
ProcessIdNameParam(a) ==
    LET c == CASE a.first.type = "number" -> WithId(a.first)
               [] a.first.type = "string" -> WithName(a.first)
               [] a.first.type = "object" -> GetResourceObject(a.first)
               [] OTHER                   -> NoContext
    IN  IF ~a.first.whole THEN Silent
        ELSE IF a.second \notin {"none", "number"} THEN Thrown
        ELSE Queued([c EXCEPT !.param = a.second = "number", !.callback = a.third = "function"])

ProcessNoParam(a) == Queued([NoContext EXCEPT !.callback = a.first.type = "function"])

\* What the functions ask of their arguments before.
ByIdOrResource(a) ==
    CASE a.first.type = "number" -> ProcessIdParamV9(a)
      [] a.first.type = "object" -> ProcessResourceParamV9(a)
      [] OTHER                   -> Thrown
Prepare(op, a) ==
    LET string == a.first.type = "string"
    IN  CASE op.what = "plural" ->
                 IF op.by = "old" \/ string = (op.by = "name") THEN ProcessIdNameParam(a) ELSE Thrown
          [] op.by = "id" /\ op.what # "plural"   -> ByIdOrResource(a)
          [] op.by = "name" /\ op.what # "plural" -> IF string THEN ProcessNameParamV9(a) ELSE Thrown
          [] op.by = "path" -> IF string THEN ProcessOnlyIdParam(a) ELSE Thrown
          [] op.by = "oldPath" \/ (op.by = "old" /\ op.what # "plural") -> ProcessOnlyIdParam(a)
          [] op.by = "none" -> ProcessNoParam(a)

-------------------------------------------------------------------------------
\* What a thread of the pool does.  Nothing is said of a module that is not known.
OfResource(w, addon, c, what, extra) ==
    LET hap == GetHapResourceManager(w, addon, c)
    IN  IF hap.found THEN GetById(hap.manager, hap.id, what, extra) ELSE Nothing
OfName(w, addon, c, what, extra) == GetByName(ManagerOf(w, addon), c.resName, what, extra)
\* Without a number and an object, the name is used.
OfEither(w, addon, c, what, extra) ==
    IF c.resId # 0 \/ c.resource THEN OfResource(w, addon, c, what, extra)
    ELSE OfName(w, addon, c, what, extra)

getStringFunc(w, addon, c) == OfResource(w, addon, c, "string", FALSE)
getStringByNameFunc(w, addon, c) == OfName(w, addon, c, "string", FALSE)
getStringArrayFunc(w, addon, c) == OfEither(w, addon, c, "array", FALSE)
getMediaFunc(w, addon, c) == OfResource(w, addon, c, "media", c.density)
getMediaByNameFunc(w, addon, c) == OfName(w, addon, c, "media", c.density)
getMediaBase64Func(w, addon, c) == OfEither(w, addon, c, "base64", c.density)
getPluralCapFunc(w, addon, c) == OfEither(w, addon, c, "plural", c.param)
getColorFunc(w, addon, c) == OfResource(w, addon, c, "color", FALSE)
getColorByNameFunc(w, addon, c) == OfName(w, addon, c, "color", FALSE)
g_getRawFileFunc(w, addon, c) == GetRaw(ManagerOf(w, addon), c.path, "file")
g_getRawFileDescriptorFunc(w, addon, c) == GetRaw(ManagerOf(w, addon), c.path, "descriptor")
getRawFileListFunc(w, addon, c) == GetRaw(ManagerOf(w, addon), c.path, "list")

\* These three only name the function that makes the answer, on the main thread.
LaterOps == {"close", "config", "device"}
Work(w, addon, op, c) ==
    CASE op.what = "string" -> IF op.by = "name" THEN getStringByNameFunc(w, addon, c)
                               ELSE getStringFunc(w, addon, c)
      [] op.what = "media"  -> IF op.by = "name" THEN getMediaByNameFunc(w, addon, c)
                               ELSE getMediaFunc(w, addon, c)
      [] op.what = "color"  -> IF op.by = "name" THEN getColorByNameFunc(w, addon, c)
                               ELSE getColorFunc(w, addon, c)
      [] op.what = "array"      -> getStringArrayFunc(w, addon, c)
      [] op.what = "base64"     -> getMediaBase64Func(w, addon, c)
      [] op.what = "plural"     -> getPluralCapFunc(w, addon, c)
      [] op.what = "file"       -> g_getRawFileFunc(w, addon, c)
      [] op.what = "descriptor" -> g_getRawFileDescriptorFunc(w, addon, c)
      [] op.what = "list"       -> getRawFileListFunc(w, addon, c)
      [] op.what \in LaterOps   -> Nothing

-------------------------------------------------------------------------------
\* The values that scripts get are made of what was found; each step of that may fail.
CreateJsString(found, made) == IF made THEN found ELSE Error("unmade")
CreateJsArray(found, made) == IF made THEN found ELSE Error("unmade")
CreateJsRawFd(found, made) == IF made THEN found ELSE Error("unmade")
CreateJsColor(found, made) == IF made THEN found ELSE Nothing
CreateJsConfig(w, addon, made) ==
    IF made THEN Get(ManagerOf(w, addon), "config", FALSE) ELSE Error("unmade")
CreateJsDeviceCap(w, addon, made) ==
    IF made THEN Get(ManagerOf(w, addon), "device", FALSE) ELSE Error("unmade")
CloseJsRawFd(w, addon, path, made) ==
    IF made THEN CloseRaw(ManagerOf(w, addon), path) ELSE Nothing

\* Mutant of CreateJsUint8Array: the context keeps the data.
DataIsKept(found, step) ==
    IF step = "made" THEN [answer |-> found, owners |-> {"context", "script"}]
    ELSE [answer |-> Error("unmade"),
          owners |-> {"context"} \cup (IF step = "array" THEN {"script"} ELSE {})]

\* First a buffer is made of the data, which is the buffer's from then on, and then an array of
\* the buffer; only then does the context let the data go.
CreateJsUint8Array(found, step) ==
    IF step = "made" THEN [answer |-> found, owners |-> {"script"}]
    ELSE [answer |-> Error("unmade"),
          owners |-> {"context"} \cup (IF step = "array" THEN {"script"} ELSE {})]

\* The step of making the value that fails, or "made".
Steps(call) ==
    IF call.reply.how = "value" \/ call.op.what \in LaterOps
    THEN {"made", "value"} \cup (IF call.op.what \in {"media", "file"} THEN {"array"} ELSE {})
    ELSE {"made"}
CreateValue(w, call, step) ==
    LET made == step = "made"
        what == call.op.what
    IN  CASE what = "close"  -> CloseJsRawFd(w, call.addon, call.context.path, made)
          [] what = "config" -> CreateJsConfig(w, call.addon, made)
          [] what = "device" -> CreateJsDeviceCap(w, call.addon, made)
          [] what \in {"string", "base64", "plural"} -> CreateJsString(call.reply, made)
          [] what \in {"array", "list"} -> CreateJsArray(call.reply, made)
          [] what = "descriptor" -> CreateJsRawFd(call.reply, made)
          [] what = "color" -> CreateJsColor(call.reply, made)
          [] what \in {"media", "file"} -> CreateJsUint8Array(call.reply, step).answer

-------------------------------------------------------------------------------
Calls == DOMAIN resCalls
Idle == world.config = world.managed   \* the main thread is not updating the configuration
UnderWay(call) == call.stage \in {"queued", "executed"}

NewCall(q, context, stage, reply, told) ==
    [asked |-> q, addon |-> q.addon, op |-> q.op, context |-> context, stage |-> stage,
     reply |-> reply, told |-> told, reference |-> context.callback, threw |-> FALSE,
     step |-> "made", owners |-> {}, worlds |-> {world}]

MayCall(q) ==
    /\ Idle /\ Len(resCalls) < MaxCalls /\ q \in Asked
    /\ q.addon = "override" => world.override \in OverrideConfigurations

Init ==
    /\ world = [config |-> 1, managed |-> 1, overlaid |-> FALSE, installed |-> {"entry"},
                override |-> 0, theme |-> FALSE]
    /\ descriptors = {} /\ resCalls = <<>> /\ changes = 0

Descriptors(open, what, path, reply) ==
    IF reply.how # "value" THEN open
    ELSE CASE what = "descriptor" -> open \cup {path}
           [] what = "close"      -> open \ {path}
           [] OTHER               -> open

\* Of the functions that answer at once, two change what others find.
CallSync(q) ==
    /\ MayCall(q) /\ q.sync
    /\ LET reply == SyncAnswer(world, q.addon, q.op, q.args)
       IN  /\ descriptors' = Descriptors(descriptors, q.op.what, q.args.first.name, reply)
           /\ resCalls' = Append(resCalls,
                NewCall(q, WithPath(q.args.first), "settled", reply, 1))
    /\ UNCHANGED <<world, changes>>

\* The work is queued, unless that fails: then the context is deleted, and nothing else happens.
GetResult(q) ==
    /\ MayCall(q) /\ ~q.sync
    /\ LET prepared == Prepare(q.op, q.args)
       IN  \E stage \in IF prepared.how = "queued" THEN {"queued", "lost"} ELSE {prepared.how} :
            resCalls' = Append(resCalls, NewCall(q, prepared.context, stage, Nothing, 0))
    /\ UNCHANGED <<world, descriptors, changes>>

\* Mutant of Execute: the work of a module that is not known is never completed.
ExecuteGivesUp(i) ==
    /\ resCalls[i].stage = "queued"
    /\ LET call == resCalls[i]
           found == Work(world, call.addon, call.op, call.context)
       IN  /\ found # Nothing \/ call.op.what \in LaterOps
           /\ resCalls' = [resCalls EXCEPT ![i].stage = "executed", ![i].reply = found]
           /\ descriptors' = Descriptors(descriptors, call.op.what, call.context.path, found)
    /\ UNCHANGED <<world, changes>>

\* On a thread of the pool.
Execute(i) ==
    /\ resCalls[i].stage = "queued"
    /\ LET call == resCalls[i]
           found == Work(world, call.addon, call.op, call.context)
       IN  /\ resCalls' = [resCalls EXCEPT ![i].stage = "executed", ![i].reply = found,
                ![i].owners = IF found.how = "value" /\ call.op.what \in {"media", "file"}
                              THEN {"context"} ELSE {}]
           /\ descriptors' = Descriptors(descriptors, call.op.what, call.context.path, found)
    /\ UNCHANGED <<world, changes>>

\* A descriptor was opened by Execute; it is closed by Complete.
OnMainThread(call, reply) ==
    IF call.op.what = "close" THEN Descriptors(descriptors, "close", call.context.path, reply)
    ELSE descriptors

\* Mutant of Complete: an answer that is an error leaves the reference.
CompleteKeepsReference(i) ==
    /\ Idle /\ resCalls[i].stage = "executed"
    /\ LET call == resCalls[i]
       IN  \E step \in Steps(call) :
            LET reply == CreateValue(world, call, step)
            IN  /\ resCalls' = [resCalls EXCEPT ![i].stage = "settled", ![i].step = step,
                     ![i].reply = reply, ![i].told = 1,
                     ![i].reference = call.reference /\ reply.how = "error"]
                /\ descriptors' = OnMainThread(call, reply)
    /\ UNCHANGED <<world, changes>>

\* On the main thread.  A promise cannot be resolved with nothing; a callback can be called
\* with nothing, and its reference stays when it throws.  What the context still owns goes.
Complete(i) ==
    /\ Idle /\ resCalls[i].stage = "executed"
    /\ LET call == resCalls[i]
       IN  \E step \in Steps(call), threw \in IF call.reference THEN BOOLEAN ELSE {FALSE} :
            LET reply == CreateValue(world, call, step)
            IN  /\ resCalls' = [resCalls EXCEPT ![i].stage = "settled", ![i].step = step,
                     ![i].reply = reply,
                     ![i].told = IF call.reference \/ reply # Nothing THEN 1 ELSE 0,
                     ![i].threw = threw, ![i].reference = threw,
                     ![i].owners = IF call.owners = {} THEN {}
                                   ELSE CreateJsUint8Array(call.reply, step).owners]
                /\ descriptors' = OnMainThread(call, reply)
    /\ UNCHANGED <<world, changes>>

-------------------------------------------------------------------------------
\* What answers depend on changes, while calls are under way.
Change(w) ==
    /\ world' = w
    /\ resCalls' = [i \in Calls |-> IF UnderWay(resCalls[i])
                                    THEN [resCalls[i] EXCEPT !.worlds = @ \cup {w}] ELSE resCalls[i]]
    /\ UNCHANGED descriptors
MayChange == Idle /\ changes < MaxChanges /\ changes' = changes + 1

AddResource ==
    /\ MayChange /\ ~world.overlaid /\ Change([world EXCEPT !.overlaid = TRUE])
RemoveResource ==
    /\ MayChange /\ world.overlaid /\ Change([world EXCEPT !.overlaid = FALSE])

GetOverrideResourceManager(config) ==
    /\ MayChange /\ world.override = 0 /\ Change([world EXCEPT !.override = config])
UpdateOverrideConfiguration(config) ==
    /\ MayChange /\ world.override \notin {0, config} /\ Change([world EXCEPT !.override = config])

\* Application, and then each ability, whose manager it is.
UpdateConfiguration(config) ==
    /\ MayChange /\ config # world.config /\ Change([world EXCEPT !.config = config])
UpdateManager ==
    /\ ~Idle /\ Change([world EXCEPT !.managed = world.config]) /\ UNCHANGED changes

\* The packages and the theme are not this process's.
ModuleInstalled ==
    /\ MayChange /\ "lib" \notin world.installed
    /\ Change([world EXCEPT !.installed = @ \cup {"lib"}])
ThemeChanges ==
    /\ MayChange /\ Change([world EXCEPT !.theme = ~@])

Next ==
    \/ \E q \in Asked : CallSync(q) \/ GetResult(q)
    \/ \E i \in Calls : Execute(i) \/ Complete(i)
    \/ AddResource \/ RemoveResource \/ UpdateManager \/ ModuleInstalled \/ ThemeChanges
    \/ \E config \in OverrideConfigurations :
        GetOverrideResourceManager(config) \/ UpdateOverrideConfiguration(config)
    \/ \E config \in Configurations : UpdateConfiguration(config)

ExecuteOf(i) == i \in Calls /\ Execute(i)
CompleteOf(i) == i \in Calls /\ Complete(i)
Fairness ==
    /\ WF_vars(UpdateManager)
    /\ \A i \in 1 .. MaxCalls : WF_vars(ExecuteOf(i)) /\ WF_vars(CompleteOf(i))
Spec == Init /\ [][Next]_vars /\ Fairness

-------------------------------------------------------------------------------
TypeOK ==
    /\ world \in [config : Configurations, managed : Configurations, overlaid : BOOLEAN,
                  installed : SUBSET {"entry", "lib"}, override : {0} \cup OverrideConfigurations,
                  theme : BOOLEAN]
    /\ descriptors \subseteq {"r"} /\ changes \in 0 .. MaxChanges
    /\ \A i \in Calls :
        /\ resCalls[i].stage \in {"queued", "executed", "settled", "lost", "thrown", "silent"}
        /\ resCalls[i].told \in {0, 1} /\ resCalls[i].reply.how \in {"value", "error", "nothing"}

\* The rule the functions have in common: an argument that names a resource in the way of the
\* function, further arguments it has a use for, and a resource of that name.
NamesInItsWay(op, first) ==
    /\ op.by # "none" => first.whole
    /\ CASE op.by = "id"   -> first.type \in {"number", "object"}
         [] op.by = "old"  -> first.type \in {"number", "object"} \/ (op.what = "plural" /\ first.type = "string")
         [] op.by \in {"name", "path", "oldPath"} -> first.type = "string"
         [] op.by = "none" -> op.what = "locales" => first.type = "undefined"
UsesSync(op, a) ==
    CASE op.what \in {"media", "base64"} -> a.second \in {"none", "undefined", "number"}
      [] op.what = "drawable"  -> a.second \in {"none", "undefined", "number"} /\ a.third \in {"none", "number"}
      [] op.what = "plural"    -> a.second = "number"
      [] op.what \in {"intPlural", "doublePlural"} -> a.second = "number" /\ a.third # "function"
      [] op.what = "string"    -> a.second \in {"none", "number", "string"} /\ a.third # "function"
      [] OTHER                 -> TRUE
UsesAsync(op, a) ==
    CASE op.what = "plural"                     -> a.second \in {"none", "number"}
      [] op.by \in {"id", "name"} /\ op.what # "plural" -> a.second # "string"
      [] OTHER                                  -> TRUE
\* A resource object of the own manager is of its module, without overlays.
OfModule(addon, op, first) == addon = "own" /\ op.by # "none" /\ first.type = "object"
IsThere(w, addon, op, first, ofDirectories) ==
    CASE op.by = "none" -> TRUE
      [] op.by # "none" /\ first.type = "string" -> first.name = "r" \/ (first.name = "e" /\ op.what \in ofDirectories)
      [] op.by # "none" /\ first.type # "string" ->
            first.id = 1 /\ (OfModule(addon, op, first) => first.module \in w.installed)
Manager(w, addon, op, first) ==
    IF OfModule(addon, op, first) THEN [config |-> w.config, overlaid |-> FALSE] ELSE ManagerOf(w, addon)

ThemedSync(w, op, a) == op.what = "drawable" /\ a.third = "number"
PromisedSync(w, addon, op, a) ==
    IF /\ NamesInItsWay(op, a.first) /\ UsesSync(op, a) /\ IsThere(w, addon, op, a.first, {"isDirectory"})
       /\ op.by = "name" /\ ThemedSync(w, op, a) => w.theme
    THEN Get(Manager(w, addon, op, a.first),
             IF ThemedSync(w, op, a) /\ w.theme THEN "themeIcon" ELSE op.what,
             (a.second = "number" /\ op.what \in {"media", "base64", "drawable"})
                \/ op.what \in {"plural", "intPlural", "doublePlural"})
    ELSE Nothing
PromisedAsync(w, addon, op, a) ==
    IF NamesInItsWay(op, a.first) /\ UsesAsync(op, a) /\ IsThere(w, addon, op, a.first, {"list"})
    THEN Get(Manager(w, addon, op, a.first), op.what,
             a.second = "number" /\ (op.what = "plural" \/ (op.by # "old" /\ op.what \in {"media", "base64"})))
    ELSE Nothing
Fits(reply, promised) == IF promised.how = "value" THEN reply = promised ELSE reply.how # "value"

\* Some sixty functions, written one by one, follow that rule: each gives the resource that
\* was asked for, of the manager that was asked, to whoever asks properly and to no one else.
\* Closing is not a matter of resources.
FunctionsFollowRule ==
    resCalls = <<>> =>
        \A addon \in Addons, a \in Arguments :
            /\ \A op \in SyncOps : op.what # "close" =>
                Fits(SyncAnswer(world, addon, op, a), PromisedSync(world, addon, op, a))
            /\ \A op \in AsyncOps : op.what \notin LaterOps =>
                LET prepared == Prepare(op, a)
                IN  Fits(IF prepared.how = "queued" THEN Work(world, addon, op, prepared.context)
                         ELSE Nothing,
                         PromisedAsync(world, addon, op, a))

\* A call that is settled has been given what was right at some time between the call and the
\* completion; there is nothing in between, of two configurations or of none.
AnswersOfTheirTime ==
    \A i \in Calls :
        LET call == resCalls[i]
        IN  call.stage = "settled" /\ ~call.asked.sync /\ call.op.what # "close" /\ call.step = "made" =>
                \E w \in call.worlds : Fits(call.reply, PromisedAsync(w, call.addon, call.op, call.asked.args))

\* A call that was queued is answered, by its callback or its promise; only a promise of a
\* module that is not known is not, and one whose color or close could not be made.
\* The reference of a callback goes, unless it threw or the work could not be queued, and data
\* has one owner, unless the array of a buffer could not be made.
ToldOnce ==
    \A i \in Calls :
        LET call == resCalls[i]
        IN  call.stage = "settled" =>
                /\ call.told = 0 =>
                    /\ ~call.context.callback
                    /\ \/ call.step # "made" /\ call.op.what \in {"color", "close"}
                       \/ OfModule(call.addon, call.op, call.asked.args.first)
                /\ call.reference => call.threw
                /\ Cardinality(call.owners) > 1 => call.step = "array"

\* With nothing under way, a descriptor is open only if a script was given it, or could not be
\* given it for want of a value; and who was given one that nobody closed has it.
DescriptorsKnown ==
    (\A i \in Calls : ~UnderWay(resCalls[i])) =>
        LET Settled(what) == {i \in Calls : resCalls[i].op.what = what /\ resCalls[i].stage = "settled"}
            Given(what) == {i \in Settled(what) : resCalls[i].reply.how = "value"}
            Spoiled == {i \in Settled("descriptor") : resCalls[i].step # "made"}
        IN  /\ descriptors # {} => Given("descriptor") \cup Spoiled # {}
            /\ Given("descriptor") # {} /\ Given("close") = {} => descriptors # {}

ResourcesHold ==
    FunctionsFollowRule /\ AnswersOfTheirTime /\ ToldOnce /\ DescriptorsKnown

\* Every call that was queued is settled, so that again and again none is under way.
AllSettled == \A i \in Calls : ~UnderWay(resCalls[i])
CallsAreSettled == []<>AllSettled
================================================================================
