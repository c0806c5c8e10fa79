---------------------------- MODULE AppConfiguration ----------------------------
(***************************************************************************)
(* The configuration of the app: color mode, font size and language, which  *)
(* the system and the application both set.  Application keeps the level    *)
(* each was set on, merges an update into configuration_ and tells it to    *)
(* the abilities of all stages, one after the other.  Their scripts may set *)
(* the configuration in turn, while they are told or created: everything    *)
(* happens on the main thread, and such an update is nested in the step     *)
(* that called the script.                                                  *)
(***************************************************************************)
EXTENDS Naturals, Sequences, FiniteSetsExt

CONSTANTS
    Modules,
    ColorModes, \* "light", "dark" and "auto"
    FontScales, Languages,
    FontConfig, \* fontSizeScale of a module's font configuration, MainModule's for the app
    MaxNested   \* bounds the updates that are under way at a time

MainModule == "main"
Empty == ""

\* SetLevel.
System == 0
SA == 1
Application == 2
Levels == System .. Application

Settings ==
    [colorMode : ColorModes \cup {Empty}, fontScale : FontScales \cup {Empty},
     appFontScale : {"followSystem", "nonFollowSystem", Empty}, language : Languages \cup {Empty}]
Nothing == [colorMode |-> Empty, fontScale |-> Empty, appFontScale |-> Empty, language |-> Empty]

VARIABLES
    configuration,    \* configuration_, a set with its items, empty as long as it is null
    colorModeVal,     \* colorModeVal_ of each level
    colorModeSetLevel, fontSizeSetLevel, languageSetLevel,
    stages,           \* the keys of abilityStages_
    abilities,        \* the stages that have an ability in abilities_
    creating,         \* the stage that is created or launches an ability, if any
    resColor,         \* the color of the resource manager, which all stages share
    updates,          \* the updates under way, the innermost first
    behind            \* history: the resource manager has missed or lost an update

manager == <<colorModeVal, colorModeSetLevel, fontSizeSetLevel, languageSetLevel>>
app == <<stages, abilities, creating>>
vars == <<configuration, manager, app, resColor, updates, behind>>

\* The color mode of an update, and the stages that it has not been told to.
Updates == [colorMode : ColorModes \cup {Empty}, left : SUBSET Modules]

TypeOK ==
    /\ configuration \in SUBSET Settings
    /\ colorModeVal \in [Levels -> ColorModes \cup {Empty}]
    /\ colorModeSetLevel \in Levels
    /\ fontSizeSetLevel \in {System, Application} /\ languageSetLevel \in {System, Application}
    /\ stages \in SUBSET Modules /\ abilities \in SUBSET stages
    /\ creating \in SUBSET [module : Modules, launched : BOOLEAN]
    /\ resColor \in {"none", "unset", "light", "dark"}
    /\ updates \in Seq(Updates) /\ Len(updates) <= MaxNested
    /\ behind \in BOOLEAN

Init ==
    /\ configuration = {}
    /\ colorModeVal = [l \in Levels |-> Empty]
    /\ colorModeSetLevel = System /\ fontSizeSetLevel = System /\ languageSetLevel = System
    /\ stages = {} /\ abilities = {} /\ creating = {}
    /\ resColor = "none" /\ updates = << >> /\ behind = FALSE

\* UpdateConfigurationInfo, AddItem: items that are given replace those that are there.
Merged(c, d) == [i \in DOMAIN c |-> IF d[i] = Empty THEN c[i] ELSE d[i]]

\* AddConfigurationData.
WithFontConfig(c, m) == Merged(c, [Nothing EXCEPT !.appFontScale = FontConfig[m]])

-------------------------------------------------------------------------------
(* ApplicationConfigurationManager *)

\* The levels that decide on the color mode: "auto" leaves it to the others.
Deciding(vals) == {l \in Levels : vals[l] \notin {Empty, "auto"}}

\* Mutant: the lowest of the levels that decide.
LowestLevel(vals) == IF Deciding(vals) = {} THEN colorModeSetLevel ELSE Min(Deciding(vals))

\* SetColorModeSetLevel keeps the level if there is none.
NewColorLevel(vals) == IF Deciding(vals) = {} THEN colorModeSetLevel ELSE Max(Deciding(vals))

WithColor(l, c) == [colorModeVal EXCEPT ![l] = c]

-------------------------------------------------------------------------------
(* Application *)

\* IsUpdateColorNeeded: the color mode that is told is the one that is now in force.
ColorTold(l, c) ==
    LET vals == WithColor(l, c)
        effective == vals[NewColorLevel(vals)] IN
    IF c = Empty THEN Empty
    ELSE IF effective # Empty THEN effective
    ELSE IF l < colorModeSetLevel THEN Empty ELSE c

\* IsUpdateFontSizeNeeded, for the configuration there is.
FontReaches(c, d, level) == d.fontScale # Empty /\ level >= fontSizeSetLevel
AppFontDecides(c, level) == level = fontSizeSetLevel /\ c.appFontScale # Empty
FontTold(c, d, level) ==
    IF FontReaches(c, d, level) /\ (AppFontDecides(c, level) => c.appFontScale = "followSystem")
    THEN d.fontScale ELSE Empty
FontTaken(c, d, level) == FontReaches(c, d, level) /\ ~AppFontDecides(c, level)

\* IsUpdateLanguageNeeded.
LanguageTold(d, level) == IF level >= languageSetLevel THEN d.language ELSE Empty

\* What is left of an update once the three have removed what is not to be told.
Told(c, d, colorLevel, level) ==
    [colorMode |-> ColorTold(colorLevel, d.colorMode), fontScale |-> FontTold(c, d, level),
     appFontScale |-> d.appFontScale, language |-> LanguageTold(d, level)]

\* An update whose color an earlier one will overwrite, once it goes on.
Overtakes ==
    \E i \in DOMAIN updates : updates[i].colorMode # Empty /\ updates[i].left \cap abilities # {}

\* OnConfigurationUpdate, up to the loop over the stages.  An update of the system that the
\* service ability has made carries COLORMODE_IS_SET_BY_SA.
OnConfigurationUpdate(d, colorLevel, level) ==
    \E c \in configuration :
        LET told == Told(c, d, colorLevel, level)
            kept == IF FontTaken(c, d, level) THEN [c EXCEPT !.appFontScale = Empty] ELSE c IN
        /\ told # Nothing
        /\ Len(updates) < MaxNested
        /\ configuration' = {Merged(kept, told)}
        /\ colorModeVal' = IF d.colorMode = Empty THEN colorModeVal ELSE WithColor(colorLevel, d.colorMode)
        /\ colorModeSetLevel' = IF d.colorMode = Empty THEN colorModeSetLevel ELSE NewColorLevel(colorModeVal')
        /\ fontSizeSetLevel' = IF FontTaken(c, d, level) THEN level ELSE fontSizeSetLevel
        /\ languageSetLevel' = IF LanguageTold(d, level) # Empty THEN level ELSE languageSetLevel
        /\ updates' = <<[colorMode |-> told.colorMode, left |-> stages]>> \o updates
        /\ behind' = IF told.colorMode = Empty THEN behind ELSE Overtakes \/ abilities = {}
        /\ UNCHANGED <<app, resColor>>

\* The modes of the resource manager.
Mode(c) == IF c \in {"light", "dark"} THEN c ELSE "unset"

\* AbilityStage::OnConfigurationUpdate: the abilities of a stage, then its script.
TellStage(m) ==
    LET update == Head(updates) IN
    /\ updates # << >> /\ m \in update.left
    /\ resColor' = IF m \in abilities /\ update.colorMode # Empty
                   THEN Mode(update.colorMode) ELSE resColor
    /\ updates' = <<[update EXCEPT !.left = @ \ {m}]>> \o Tail(updates)
    /\ UNCHANGED <<configuration, manager, app, behind>>

\* The loop ends.
EndUpdate ==
    /\ updates # << >> /\ Head(updates).left = {}
    /\ updates' = Tail(updates)
    /\ UNCHANGED <<configuration, manager, app, resColor, behind>>

-------------------------------------------------------------------------------
(* The tasks of the main thread, and the scripts they call. *)

Idle == updates = << >> /\ creating = {}
ScriptRuns ==
    IF updates = << >> THEN abilities # {} \/ creating # {} ELSE Head(updates).left # stages

\* HandleInitConfiguration: the first one only.
HandleInitConfiguration(d) ==
    /\ Idle /\ configuration = {}
    /\ configuration' = {WithFontConfig(d, MainModule)}
    /\ colorModeVal' = WithColor(System, d.colorMode)
    /\ colorModeSetLevel' = NewColorLevel(colorModeVal')
    /\ behind' = TRUE
    /\ UNCHANGED <<fontSizeSetLevel, languageSetLevel, app, resColor, updates>>

\* HandleOnConfigurationUpdate.
HandleOnConfigurationUpdate(d, colorLevel) ==
    /\ Idle
    /\ OnConfigurationUpdate(WithFontConfig(d, MainModule), colorLevel, System)

\* ApplicationContext's SetColorMode, SetFontSizeScale and SetLanguage.
SetByApplication(d) == ScriptRuns /\ OnConfigurationUpdate(d, Application, Application)

\* HandleDispatchOnCreate, up to the scripts: UpdateModuleConfiguration, and the resource
\* manager of a new stage, which is that of the last one.
HandleDispatchOnCreate(m) ==
    /\ Idle /\ m \notin abilities
    /\ configuration' = {WithFontConfig(c, m) : c \in configuration}
    /\ UNCHANGED <<manager, stages, abilities, updates>>
    /\ \/ m \notin stages /\ UNCHANGED <<creating, resColor, behind>>
       \/ /\ \E launched \in BOOLEAN : creating' = {[module |-> m, launched |-> launched]}
          /\ IF m \in stages THEN UNCHANGED <<resColor, behind>>
             ELSE /\ resColor' = IF configuration = {} THEN "unset"
                                 ELSE Mode((CHOOSE c \in configuration : TRUE).colorMode)
                  /\ behind' = FALSE

\* The ability is put into its stage, and the stage into abilityStages_.
StageCreated ==
    /\ updates = << >>
    /\ \E x \in creating :
        /\ stages' = stages \cup {x.module}
        /\ abilities' = IF x.launched THEN abilities \cup {x.module} ELSE abilities
    /\ creating' = {}
    /\ UNCHANGED <<configuration, manager, resColor, updates, behind>>

\* HandleDispatchOnDestroy, of the one ability of a stage.
HandleDispatchOnDestroy(m) ==
    /\ Idle /\ m \in stages
    /\ stages' = stages \ {m} /\ abilities' = abilities \ {m}
    /\ UNCHANGED <<configuration, manager, creating, resColor, updates, behind>>

\* What the platform and the setters give: one item at a time, or a color and a font size.
SystemSettings ==
    {[Nothing EXCEPT !.colorMode = c, !.fontScale = f] :
        c \in ColorModes \cup {Empty}, f \in FontScales \cup {Empty}}
        \cup {[Nothing EXCEPT !.language = l] : l \in Languages}
ApplicationSettings ==
    {[Nothing EXCEPT !.colorMode = c] : c \in ColorModes}
        \cup {[Nothing EXCEPT !.fontScale = f] : f \in FontScales}
        \cup {[Nothing EXCEPT !.language = l] : l \in Languages}

Next ==
    \/ \E d \in SystemSettings :
        \/ HandleInitConfiguration(d)
        \/ \E l \in {System, SA} : HandleOnConfigurationUpdate(d, l)
    \/ \E d \in ApplicationSettings : SetByApplication(d)
    \/ \E m \in Modules : HandleDispatchOnCreate(m) \/ TellStage(m) \/ HandleDispatchOnDestroy(m)
    \/ EndUpdate \/ StageCreated

Spec == Init /\ [][Next]_vars

-------------------------------------------------------------------------------
\* Whatever the levels were set to, and in what order, the configuration has the color mode
\* of the highest level that is set to one, and none if all leave it open.
ColorOfHighest ==
    \A c \in configuration :
        IF Deciding(colorModeVal) = {} THEN c.colorMode \in {"auto", Empty}
        ELSE c.colorMode = colorModeVal[Max(Deciding(colorModeVal))]

\* Once everyone has been told, resources have the color of the configuration, unless an
\* update found no ability to tell, or overtook another one.
ResourcesAgree ==
    updates = << >> /\ resColor # "none" /\ ~behind =>
        \A c \in configuration : resColor = Mode(c.colorMode)

\* What the application has set, the system does not change any more: only an update of the
\* application does.
ApplicationPrevails ==
    \A c \in configuration, d \in configuration' :
        \/ \E a \in ApplicationSettings : SetByApplication(a)
        \/ /\ languageSetLevel = Application => d.language = c.language
           /\ fontSizeSetLevel = Application => d.fontScale = c.fontScale
           /\ Application \in Deciding(colorModeVal) => d.colorMode = c.colorMode
================================================================================
