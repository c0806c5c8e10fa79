-------------------------------- MODULE AppProofs --------------------------------
(***************************************************************************)
(* Proofs about the lifecycle of abilities and about the listeners of       *)
(* scripts, for all values of their constants.                              *)
(***************************************************************************)
EXTENDS App, SequenceTheorems, FiniteSetTheorems, TLAPS

\* What TypeOK and AbilitiesHaveStage say of the app, without the platform and
\* its posted requests.
AppOK ==
    /\ process \in {"starting", "running", "dead"}
    /\ loaded \in SUBSET Modules
    /\ stages \in SUBSET Modules
    /\ state \in [Slots -> States]
    /\ windowDue \in SUBSET Slots
    /\ \A s \in windowDue : state[s] \in {"STARTED_NEW", "BACKGROUND_NEW"}
    /\ want \in [Slots -> Wants]
    /\ AbilitiesHaveStage

\* The inductive invariant.
IInv == TypeOK /\ AbilitiesHaveStage

\* Every instance has a slot.
LEMMA SlotType ==
    ASSUME NEW i \in Instances
    PROVE  Slot(i) \in Slots /\ Slot(i)[1] = ModuleOf[i] /\ ModuleOf[i] \in Modules
BY InstancesAssumption DEF Slot, Slots

\* A launch leaves a sound app, provided the stage is there.
LEMMA LaunchAbilityOK ==
    ASSUME AppOK, NEW i \in Instances, NEW w \in Wants,
           LaunchAbility(i, w), stages' = stages \cup {ModuleOf[i]},
           process' \in {"starting", "running", "dead"}, loaded' \in SUBSET Modules
    PROVE  AppOK'
<1>1. Slot(i) \in Slots /\ Slot(i)[1] = ModuleOf[i] /\ ModuleOf[i] \in Modules
  BY SlotType
<1>2. CASE state[Slot(i)] = "none" /\ i \in Declared
  <2>1. /\ state' = [state EXCEPT ![Slot(i)] = "STARTED_NEW"]
        /\ windowDue' = windowDue \cup {Slot(i)}
        /\ want' = [want EXCEPT ![Slot(i)] = w]
    BY <1>2 DEF LaunchAbility
  <2>2. \A s \in Slots : state'[s] # "none" => s[1] \in stages'
    BY <1>1, <2>1 DEF AppOK, AbilitiesHaveStage
  <2>3. \A s \in windowDue' : state'[s] \in {"STARTED_NEW", "BACKGROUND_NEW"}
    BY <1>1, <2>1 DEF AppOK
  <2>4. state' \in [Slots -> States] /\ want' \in [Slots -> Wants]
        /\ windowDue' \in SUBSET Slots
    BY <1>1, <2>1 DEF AppOK, States
  <2>5. QED
    BY <1>1, <2>2, <2>3, <2>4 DEF AppOK, AbilitiesHaveStage
<1>3. CASE ~(state[Slot(i)] = "none" /\ i \in Declared)
  BY <1>1, <1>3 DEF LaunchAbility, AppOK, AbilitiesHaveStage
<1>4. QED
  BY <1>2, <1>3

LEMMA CreateOK ==
    ASSUME AppOK, NEW i \in Instances, NEW w \in Wants, HandleDispatchOnCreate(i, w)
    PROVE  AppOK'
<1>1. CASE process = "starting"
  BY <1>1 DEF HandleDispatchOnCreate, Drop, appVars, AppOK, AbilitiesHaveStage
<1>2. CASE process # "starting"
  <2>1. PICK found \in BOOLEAN :
          /\ FindModule(ModuleOf[i], found)
          /\ \/ UNCHANGED process /\ HandleAbilityStage(i, w)
             \/ process' = "dead" /\ UNCHANGED <<stages, state, windowDue, want>>
    BY <1>2 DEF HandleDispatchOnCreate
  <2>2. loaded' \in SUBSET Modules
    BY <2>1, SlotType, ModulesAssumption DEF FindModule, AppOK
  <2>3. CASE process' = "dead" /\ UNCHANGED <<stages, state, windowDue, want>>
    BY <2>2, <2>3 DEF AppOK, AbilitiesHaveStage
  <2>4. CASE UNCHANGED process /\ HandleAbilityStage(i, w)
    <3>1. CASE ModuleOf[i] \in loaded'
      BY <2>2, <2>4, <3>1, LaunchAbilityOK DEF HandleAbilityStage, AppOK
    <3>2. CASE ModuleOf[i] \notin loaded'
      BY <2>2, <2>4, <3>2 DEF HandleAbilityStage, AppOK, AbilitiesHaveStage
    <3>3. QED
      BY <3>1, <3>2
  <2>5. QED
    BY <2>1, <2>3, <2>4
<1>3. QED
  BY <1>1, <1>2

LEMMA DestroyOK ==
    ASSUME AppOK, NEW i \in Instances, HandleDispatchOnDestroy(i)
    PROVE  AppOK'
<1>1. Slot(i) \in Slots /\ Slot(i)[1] = ModuleOf[i] /\ ModuleOf[i] \in Modules
  BY SlotType
<1>2. CASE ModuleOf[i] \notin stages
  BY <1>2 DEF HandleDispatchOnDestroy, Drop, appVars, AppOK, AbilitiesHaveStage
<1>3. CASE ModuleOf[i] \in stages
  <2>1. /\ state' = [state EXCEPT ![Slot(i)] = "none"]
        /\ windowDue' = windowDue \ {Slot(i)}
        /\ stages' = IF \A k \in Keys : state'[<<ModuleOf[i], k>>] = "none"
                     THEN stages \ {ModuleOf[i]} ELSE stages
        /\ UNCHANGED <<process, loaded, want>>
    BY <1>3 DEF HandleDispatchOnDestroy
  <2>2. ASSUME NEW s \in Slots, state'[s] # "none" PROVE s[1] \in stages'
    <3>1. state[s] # "none" /\ s[1] \in stages
      BY <1>1, <2>1, <2>2 DEF AppOK, AbilitiesHaveStage
    <3>2. s = <<s[1], s[2]>> /\ s[2] \in Keys
      BY DEF Slots
    <3>3. s[1] = ModuleOf[i] => ~(\A k \in Keys : state'[<<ModuleOf[i], k>>] = "none")
      BY <2>2, <3>2
    <3>4. QED
      BY <2>1, <3>1, <3>3
  <2>3. \A s \in windowDue' : state'[s] \in {"STARTED_NEW", "BACKGROUND_NEW"}
    BY <1>1, <2>1 DEF AppOK
  <2>4. state' \in [Slots -> States] /\ stages' \in SUBSET Modules
    BY <1>1, <2>1 DEF AppOK, States
  <2>5. QED
    BY <2>1, <2>2, <2>3, <2>4 DEF AppOK, AbilitiesHaveStage
<1>4. QED
  BY <1>2, <1>3

\* Every handler leaves a sound app.
LEMMA HandleOK ==
    ASSUME AppOK, NEW r \in Requests \cup {Launch}, Handle(r)
    PROVE  AppOK'
<1>1. CASE r.op = "Launch" /\ LaunchApplication
  BY <1>1, ModulesAssumption DEF LaunchApplication, AppOK, AbilitiesHaveStage
<1>2. CASE r.op = "Create" /\ HandleDispatchOnCreate(r.inst, r.want)
  <2>1. r.inst \in Instances /\ r.want \in Wants
    BY <1>2 DEF Requests, Launch
  <2>2. QED
    BY <1>2, <2>1, CreateOK
<1>3. CASE r.op = "NewWant" /\ Drop
  BY <1>3 DEF Drop, appVars, AppOK, AbilitiesHaveStage
<1>4. CASE r.op = "Foreground" /\ HandleDispatchOnForeground(r.inst)
  <2>1. r.inst \in Instances
    BY <1>4 DEF Requests, Launch
  <2>2. Slot(r.inst) \in Slots
    BY <2>1, SlotType
  <2>3. QED
    BY <1>4, <2>2
       DEF HandleDispatchOnForeground, Drop, appVars, Found, AppOK, AbilitiesHaveStage, States
<1>5. CASE r.op = "Background" /\ HandleDispatchOnBackground(r.inst)
  <2>1. r.inst \in Instances
    BY <1>5 DEF Requests, Launch
  <2>2. Slot(r.inst) \in Slots
    BY <2>1, SlotType
  <2>3. QED
    BY <1>5, <2>2
       DEF HandleDispatchOnBackground, Drop, appVars, Found, AppOK, AbilitiesHaveStage, States
<1>6. CASE r.op = "Destroy" /\ HandleDispatchOnDestroy(r.inst)
  <2>1. r.inst \in Instances
    BY <1>6 DEF Requests, Launch
  <2>2. QED
    BY <1>6, <2>1, DestroyOK
<1>7. QED
  BY <1>1, <1>2, <1>3, <1>4, <1>5, <1>6 DEF Handle

\* Posting a request keeps the app and the queue sound, and so does handling it
\* at once.
LEMMA PostOK ==
    ASSUME IInv, NEW r \in Requests, PostTask(r) \/ PostSyncTask(r)
    PROVE  AppOK' /\ posted' \in Seq(Requests \cup {Launch})
<1>1. AppOK /\ posted \in Seq(Requests \cup {Launch})
  BY DEF IInv, TypeOK, AppOK
<1>2. CASE PostTask(r)
  <2>1. Append(posted, r) \in Seq(Requests \cup {Launch})
    BY <1>1, AppendProperties
  <2>2. QED
    BY <1>1, <1>2, <2>1 DEF PostTask, appVars, AppOK, AbilitiesHaveStage
<1>3. CASE Handle(r) /\ UNCHANGED posted
  BY <1>1, <1>3, HandleOK
<1>4. QED
  BY <1>2, <1>3 DEF PostSyncTask

LEMMA InitIInv == Init => IInv
<1>1. <<Launch>> \in Seq(Requests \cup {Launch})
  OBVIOUS
<1>2. QED
  BY <1>1 DEF Init, IInv, TypeOK, AbilitiesHaveStage, States

\* What a request of the platform does to the rest of the invariant.
LEMMA AskOK ==
    ASSUME IInv, NEW i \in Instances, NEW s \in States, PlatformAsks(i, s),
           NEW r \in Requests, PostTask(r) \/ PostSyncTask(r)
    PROVE  IInv'
<1>1. AppOK' /\ posted' \in Seq(Requests \cup {Launch})
  BY PostOK
<1>2. build' \in Builds /\ shown' \in [Instances -> States]
  BY DEF IInv, TypeOK, PlatformAsks
<1>3. QED
  BY <1>1, <1>2 DEF IInv, TypeOK, AppOK

LEMMA NextIInv == IInv /\ [Next]_vars => IInv'
<1> SUFFICES ASSUME IInv, [Next]_vars PROVE IInv'
  OBVIOUS
<1>1. CASE RunTask
  <2>1. posted \in Seq(Requests \cup {Launch}) /\ posted # <<>> /\ AppOK
    BY <1>1 DEF RunTask, IInv, TypeOK, AppOK
  <2>2. Head(posted) \in Requests \cup {Launch}
        /\ Tail(posted) \in Seq(Requests \cup {Launch})
    BY <2>1, HeadTailProperties
  <2>3. AppOK'
    BY <1>1, <2>1, <2>2, HandleOK DEF RunTask
  <2>4. QED
    BY <1>1, <2>2, <2>3 DEF RunTask, IInv, TypeOK, AppOK
<1>2. ASSUME NEW i \in Instances, NEW w \in Wants, DispatchOnCreate(i, w) PROVE IInv'
  <2>1. AskWith("Create", i, w) \in Requests /\ "STARTED_NEW" \in States
    BY DEF AskWith, Requests, States
  <2>2. QED
    BY <1>2, <2>1, AskOK DEF DispatchOnCreate
<1>3. ASSUME NEW i \in Instances, NEW w \in Wants, DispatchOnNewWant(i, w) PROVE IInv'
  <2>1. AskWith("NewWant", i, w) \in Requests /\ shown[i] \in States
    BY DEF AskWith, Requests, IInv, TypeOK
  <2>2. QED
    BY <1>3, <2>1, AskOK DEF DispatchOnNewWant
<1>4. ASSUME NEW i \in Instances, DispatchOnForeground(i) PROVE IInv'
  <2>1. Ask("Foreground", i) \in Requests /\ "FOREGROUND_NEW" \in States
    BY DEF Ask, Requests, States
  <2>2. QED
    BY <1>4, <2>1, AskOK DEF DispatchOnForeground
<1>5. ASSUME NEW i \in Instances, DispatchOnBackground(i) PROVE IInv'
  <2>1. Ask("Background", i) \in Requests /\ "BACKGROUND_NEW" \in States
    BY DEF Ask, Requests, States
  <2>2. QED
    BY <1>5, <2>1, AskOK DEF DispatchOnBackground
<1>6. ASSUME NEW i \in Instances, DispatchOnDestroy(i) PROVE IInv'
  <2>1. Ask("Destroy", i) \in Requests /\ "none" \in States
    BY DEF Ask, Requests, States
  <2>2. QED
    BY <1>6, <2>1, AskOK DEF DispatchOnDestroy
<1>7. CASE UNCHANGED vars
  BY <1>7 DEF vars, appVars, IInv, TypeOK, AbilitiesHaveStage
<1>8. QED
  BY <1>1, <1>2, <1>3, <1>4, <1>5, <1>6, <1>7 DEF Next

-------------------------------------------------------------------------------
\* Every state the app reaches is well typed, and a window stage is due only
\* for an ability that has not been in the foreground.
THEOREM TypeCorrect == Spec => []TypeOK
<1>1. IInv => TypeOK
  BY DEF IInv
<1>2. QED
  BY InitIInv, NextIInv, <1>1, PTL DEF Spec

\* On whatever thread the requests come and in whatever order they are handled,
\* an ability always has the stage that requests reach it through.
THEOREM StageOfEveryAbility == Spec => []AbilitiesHaveStage
<1>1. IInv => AbilitiesHaveStage
  BY DEF IInv
<1>2. QED
  BY InitIInv, NextIInv, <1>1, PTL DEF Spec
-------------------------------------------------------------------------------
(* Requests that come from another thread, to instances of different keys. *)

\* No two instances share a slot.
DistinctSlots == \A i, j \in Instances : Slot(i) = Slot(j) => i = j

\* What request r makes of the life of instance i: a becomes b.  The platform asks for
\* nothing else.
IsFor(r, i) == r.op \in {"Create", "Foreground", "Background", "Destroy"} /\ r.inst = i
Moves(i, a, r, b) ==
    \/ ~IsFor(r, i) /\ b = a
    \/ /\ IsFor(r, i)
       /\ \/ r.op = "Create" /\ a = "none" /\ b = "STARTED_NEW"
          \/ r.op = "Foreground" /\ a \in {"STARTED_NEW", "BACKGROUND_NEW"}
                 /\ b = "FOREGROUND_NEW"
          \/ r.op = "Background" /\ a = "FOREGROUND_NEW" /\ b = "BACKGROUND_NEW"
          \/ r.op = "Destroy" /\ a \in {"STARTED_NEW", "BACKGROUND_NEW"} /\ b = "none"

\* The courses that the life of i may take from now on, while what is posted is handled: they
\* end where the platform has the instance.
Courses(i) ==
    {c \in [0 .. Len(posted) -> States] :
        /\ c[Len(posted)] = shown[i]
        /\ \A k \in 1 .. Len(posted) : Moves(i, c[k - 1], posted[k], c[k])}

\* The launch comes first, and only what it and the creations have loaded is there.
LaunchedFirst ==
    /\ process = "starting" =>
        /\ posted # <<>> /\ posted[1] = Launch
        /\ stages = {} /\ \A s \in Slots : state[s] = "none"
    /\ \A k \in 1 .. Len(posted) : posted[k] = Launch => k = 1 /\ process = "starting"
    /\ process = "running" => Packaged \subseteq loaded
    /\ loaded \subseteq Packaged \cup Dynamic

\* Abilities are those of instances that can be launched; each is where a course begins.
AbilitiesOnCourse ==
    /\ \A s \in Slots : state[s] # "none" => \E i \in Launchable : s = Slot(i)
    /\ \A i \in Launchable : \E c \in Courses(i) : c[0] = state[Slot(i)]

\* A stage has an instance that is not gone, whether or not there is an ability for it.
StagesInUse ==
    /\ \A i \in Instances : Courses(i) # {}
    /\ \A m \in stages : \E i \in Instances :
            ModuleOf[i] = m /\ \E c \in Courses(i) : c[0] # "none"

\* The inductive invariant of an app that has not crashed.
Orderly == process # "dead" => LaunchedFirst /\ AbilitiesOnCourse /\ StagesInUse

\* A request is for one instance, and so is a step of its life.
LEMMA RequestType ==
    ASSUME NEW r \in Requests
    PROVE  r.inst \in Instances /\ r # Launch /\ r.op # "Launch"
BY DEF Requests, Launch

\* When the first request is handled, a course goes on from its second state.
LEMMA CourseGoesOn ==
    ASSUME posted \in Seq(Requests \cup {Launch}), posted # <<>>,
           posted' = Tail(posted), UNCHANGED shown,
           NEW i \in Instances, NEW c \in Courses(i)
    PROVE  /\ Moves(i, c[0], Head(posted), c[1]) /\ c[0] \in States /\ c[1] \in States
           /\ \E d \in Courses(i)' : d[0] = c[1]
<1> DEFINE n == Len(posted)
           d == [k \in 0 .. n - 1 |-> c[k + 1]]
<1>1. /\ n \in Nat /\ n > 0 /\ Len(Tail(posted)) = n - 1
      /\ \A k \in 1 .. n - 1 : Tail(posted)[k] = posted[k + 1]
      /\ Head(posted) = posted[1]
  BY HeadTailProperties, LenProperties, EmptySeq
<1>2. /\ c \in [0 .. n -> States] /\ c[n] = shown[i]
      /\ \A k \in 1 .. n : Moves(i, c[k - 1], posted[k], c[k])
  BY DEF Courses
<1>3. 0 \in 0 .. n /\ 1 \in 0 .. n /\ 1 \in 1 .. n /\ 1 - 1 = 0
  BY <1>1
<1> HIDE DEF n
<1>4. d \in [0 .. n - 1 -> States] /\ d[n - 1] = shown'[i] /\ d[0] = c[1]
  BY <1>1, <1>2
<1>5. ASSUME NEW k \in 1 .. n - 1
      PROVE  Moves(i, d[k - 1], Tail(posted)[k], d[k])
  <2>1. k + 1 \in 1 .. n /\ (k + 1) - 1 = k /\ k - 1 \in 0 .. n - 1 /\ k \in 0 .. n - 1
        /\ (k - 1) + 1 = k
    BY <1>1
  <2>2. d[k - 1] = c[k] /\ d[k] = c[k + 1] /\ Tail(posted)[k] = posted[k + 1]
    BY <1>1, <2>1
  <2>3. Moves(i, c[(k + 1) - 1], posted[k + 1], c[k + 1])
    BY <1>2, <2>1
  <2> HIDE DEF d
  <2>4. QED
    BY <2>1, <2>2, <2>3
<1>6. Moves(i, c[0], Head(posted), c[1])
  BY <1>1, <1>2, <1>3
<1> HIDE DEF d
<1>7. d \in Courses(i)'
  BY <1>1, <1>4, <1>5 DEF Courses, n, Moves, IsFor
<1>8. QED
  BY <1>2, <1>3, <1>4, <1>6, <1>7

\* When a request is posted, a course of each instance goes one step further.
LEMMA CourseGrows ==
    ASSUME posted \in Seq(Requests \cup {Launch}), NEW r \in Requests,
           posted' = Append(posted, r),
           NEW i \in Instances, shown'[i] \in States, Moves(i, shown[i], r, shown'[i]),
           NEW c \in Courses(i)
    PROVE  \E d \in Courses(i)' : d[0] = c[0]
<1> DEFINE n == Len(posted)
           d == [k \in 0 .. n + 1 |-> IF k = n + 1 THEN shown'[i] ELSE c[k]]
<1>1. /\ n \in Nat /\ Len(posted') = n + 1
      /\ \A k \in 1 .. n : posted'[k] = posted[k]
      /\ posted'[n + 1] = r
  BY AppendProperties, LenProperties
<1>2. /\ c \in [0 .. n -> States] /\ c[n] = shown[i]
      /\ \A k \in 1 .. n : Moves(i, c[k - 1], posted[k], c[k])
  BY DEF Courses
<1> HIDE DEF n
<1>3. d \in [0 .. n + 1 -> States] /\ d[n + 1] = shown'[i] /\ d[0] = c[0]
  BY <1>1, <1>2
<1>4. ASSUME NEW k \in 1 .. n + 1
      PROVE  Moves(i, d[k - 1], posted'[k], d[k])
  <2>1. CASE k = n + 1
    BY <1>1, <1>2, <2>1
  <2>2. CASE k # n + 1
    <3>1. k \in 1 .. n /\ k \in 0 .. n + 1 /\ k - 1 \in 0 .. n + 1 /\ k - 1 # n + 1
      BY <1>1, <2>2
    <3>2. d[k] = c[k] /\ d[k - 1] = c[k - 1] /\ posted'[k] = posted[k]
      BY <1>1, <2>2, <3>1
    <3> HIDE DEF d
    <3>3. QED
      BY <1>2, <3>1, <3>2
  <2>3. QED
    BY <2>1, <2>2
<1> HIDE DEF d
<1>5. d \in Courses(i)'
  BY <1>1, <1>3, <1>4 DEF Courses, n, Moves, IsFor
<1>6. QED
  BY <1>3, <1>5

\* A handler moves the ability of its own instance only.
LEMMA OthersStay ==
    ASSUME AppOK, NEW r \in Requests, Handle(r)
    PROVE  /\ \A s \in Slots : s # Slot(r.inst) => state'[s] = state[s]
           /\ r.op = "NewWant" => UNCHANGED appVars
<1>1. Slot(r.inst) \in Slots /\ r.op # "Launch"
  BY RequestType, SlotType
<1>2. state \in [Slots -> States]
  BY DEF AppOK
<1>3. CASE r.op = "Create" /\ HandleDispatchOnCreate(r.inst, r.want)
  BY <1>1, <1>2, <1>3
     DEF HandleDispatchOnCreate, HandleAbilityStage, LaunchAbility, Drop, appVars
<1>4. CASE r.op = "NewWant" /\ Drop
  BY <1>4 DEF Drop, appVars
<1>5. CASE \/ r.op = "Foreground" /\ HandleDispatchOnForeground(r.inst)
           \/ r.op = "Background" /\ HandleDispatchOnBackground(r.inst)
           \/ r.op = "Destroy" /\ HandleDispatchOnDestroy(r.inst)
  BY <1>1, <1>2, <1>5
     DEF HandleDispatchOnForeground, HandleDispatchOnBackground, HandleDispatchOnDestroy,
         Drop, appVars
<1>6. QED
  BY <1>1, <1>3, <1>4, <1>5 DEF Handle

\* What a creation does to the modules and stages of a running app.
LEMMA CreateLoads ==
    ASSUME AppOK, LaunchedFirst, process = "running", process' # "dead",
           NEW i \in Instances, NEW w \in Wants, HandleDispatchOnCreate(i, w)
    PROVE  /\ Packaged \subseteq loaded' /\ loaded' \subseteq Packaged \cup Dynamic
           /\ ModuleOf[i] \in Packaged \cup Dynamic => ModuleOf[i] \in loaded'
           /\ HandleAbilityStage(i, w) /\ process' = process
           /\ stages \subseteq stages' /\ stages' \subseteq stages \cup {ModuleOf[i]}
<1>1. PICK found \in BOOLEAN :
        FindModule(ModuleOf[i], found) /\ UNCHANGED process /\ HandleAbilityStage(i, w)
  BY DEF HandleDispatchOnCreate
<1>2. Packaged \subseteq loaded /\ loaded \subseteq Packaged \cup Dynamic
  BY DEF LaunchedFirst
<1>3. QED
  BY <1>1, <1>2 DEF FindModule, HandleAbilityStage

\* What the platform asks for is what happens, if the instance can be launched.
LEMMA HandlerFollows ==
    ASSUME AppOK, LaunchedFirst, DistinctSlots, process = "running", process' # "dead",
           NEW r \in Requests, Handle(r),
           NEW i \in Launchable, NEW b, Moves(i, state[Slot(i)], r, b)
    PROVE  state'[Slot(i)] = b
<1>1. i \in Instances /\ Slot(i) \in Slots /\ r.inst \in Instances /\ Slot(i)[1] = ModuleOf[i]
  BY InstancesAssumption, RequestType, SlotType DEF Launchable
<1>2. CASE ~IsFor(r, i)
  <2>1. b = state[Slot(i)]
    BY <1>2 DEF Moves
  <2>2. CASE r.inst # i
    BY <1>1, <2>1, <2>2, OthersStay DEF DistinctSlots
  <2>3. CASE r.inst = i
    <3>1. r.op = "NewWant"
      BY <1>2, <2>3 DEF IsFor, Requests
    <3>2. QED
      BY <2>1, <3>1, OthersStay DEF appVars
  <2>4. QED
    BY <2>2, <2>3
<1>3. CASE IsFor(r, i) /\ r.op = "Create"
  <2>1. HandleDispatchOnCreate(i, r.want) /\ r.want \in Wants /\ state[Slot(i)] = "none"
        /\ b = "STARTED_NEW"
    BY <1>3 DEF Handle, Moves, IsFor, Requests
  <2>2. HandleAbilityStage(i, r.want) /\ ModuleOf[i] \in loaded' /\ i \in Declared
    BY <1>1, <2>1, CreateLoads DEF Launchable
  <2>3. state' = [state EXCEPT ![Slot(i)] = "STARTED_NEW"]
    BY <2>1, <2>2 DEF HandleAbilityStage, LaunchAbility
  <2>4. QED
    BY <1>1, <2>1, <2>3 DEF AppOK
<1>4. CASE IsFor(r, i) /\ r.op # "Create"
  <2>1. state[Slot(i)] # "none" /\ Slot(i)[1] \in stages
    BY <1>1, <1>4 DEF Moves, AppOK, AbilitiesHaveStage
  <2>2. Found(Slot(i)) /\ ModuleOf[i] \in stages
    BY <1>1, <2>1 DEF Found
  <2>3. state \in [Slots -> States]
    BY DEF AppOK
  <2>4. CASE r.op = "Foreground"
    BY <1>1, <1>4, <2>2, <2>3, <2>4 DEF Handle, Moves, IsFor, HandleDispatchOnForeground
  <2>5. CASE r.op = "Background"
    BY <1>1, <1>4, <2>2, <2>3, <2>5 DEF Handle, Moves, IsFor, HandleDispatchOnBackground
  <2>6. CASE r.op = "Destroy"
    BY <1>1, <1>4, <2>2, <2>3, <2>6 DEF Handle, Moves, IsFor, HandleDispatchOnDestroy
  <2>7. QED
    BY <1>4, <2>4, <2>5, <2>6 DEF IsFor
<1>5. QED
  BY <1>2, <1>3, <1>4

\* Only an instance that can be launched gets an ability.
LEMMA OnlyLaunched ==
    ASSUME AppOK, LaunchedFirst, process = "running", process' # "dead",
           NEW r \in Requests, Handle(r),
           \A s \in Slots : state[s] # "none" => \E i \in Launchable : s = Slot(i)
    PROVE  \A s \in Slots : state'[s] # "none" => \E i \in Launchable : s = Slot(i)
<1> SUFFICES ASSUME NEW s \in Slots, state'[s] # "none", state[s] = "none"
             PROVE  \E i \in Launchable : s = Slot(i)
  OBVIOUS
<1>1. s = Slot(r.inst) /\ r.inst \in Instances
  BY OthersStay, RequestType
<1>2. state \in [Slots -> States]
  BY DEF AppOK
<1>3. CASE r.op = "Create" /\ HandleDispatchOnCreate(r.inst, r.want)
  <2>1. r.want \in Wants
    BY <1>3 DEF Requests
  <2>2. HandleAbilityStage(r.inst, r.want) /\ loaded' \subseteq Packaged \cup Dynamic
    BY <1>1, <1>3, <2>1, CreateLoads
  <2>3. ModuleOf[r.inst] \in loaded' /\ r.inst \in Declared
    BY <1>1, <2>2 DEF HandleAbilityStage, LaunchAbility
  <2>4. QED
    BY <1>1, <2>2, <2>3 DEF Launchable
<1>4. CASE r.op = "NewWant" /\ Drop
  BY <1>4 DEF Drop, appVars
<1>5. CASE \/ r.op = "Foreground" /\ HandleDispatchOnForeground(r.inst)
           \/ r.op = "Background" /\ HandleDispatchOnBackground(r.inst)
  BY <1>1, <1>2, <1>5
     DEF HandleDispatchOnForeground, HandleDispatchOnBackground, Found, Drop, appVars
<1>6. CASE r.op = "Destroy" /\ HandleDispatchOnDestroy(r.inst)
  BY <1>1, <1>2, <1>6 DEF HandleDispatchOnDestroy, Drop, appVars
<1>7. QED
  BY <1>3, <1>4, <1>5, <1>6, RequestType DEF Handle

\* The process stays what it is but for the crash of a creation, which moves nothing else.
LEMMA ProcessStays ==
    ASSUME NEW r \in Requests, Handle(r), process = "running"
    PROVE  process' \in {"running", "dead"} /\ (process' = "dead" => UNCHANGED state)
<1>1. r.op # "Launch"
  BY RequestType
<1>2. CASE r.op = "Create" /\ HandleDispatchOnCreate(r.inst, r.want)
  BY <1>2 DEF HandleDispatchOnCreate
<1>3. CASE \/ r.op = "NewWant" /\ Drop
           \/ r.op = "Foreground" /\ HandleDispatchOnForeground(r.inst)
           \/ r.op = "Background" /\ HandleDispatchOnBackground(r.inst)
           \/ r.op = "Destroy" /\ HandleDispatchOnDestroy(r.inst)
  BY <1>3 DEF HandleDispatchOnForeground, HandleDispatchOnBackground, HandleDispatchOnDestroy,
              Drop, appVars
<1>4. QED
  BY <1>1, <1>2, <1>3 DEF Handle

\* What a request does to the modules and the stages of a running app.
LEMMA StagesFollow ==
    ASSUME AppOK, LaunchedFirst, process = "running", process' # "dead",
           NEW r \in Requests, Handle(r)
    PROVE  /\ Packaged \subseteq loaded' /\ loaded' \subseteq Packaged \cup Dynamic
           /\ r.op = "Create" => stages' \subseteq stages \cup {ModuleOf[r.inst]}
           /\ r.op # "Create" => stages' \subseteq stages
           /\ r.op = "Destroy" /\ ModuleOf[r.inst] \in stages' =>
                /\ state'[Slot(r.inst)] = "none"
                /\ \E k \in Keys : state'[<<ModuleOf[r.inst], k>>] # "none"
<1>1. r.op # "Launch" /\ r.inst \in Instances /\ Slot(r.inst) \in Slots
  BY RequestType, SlotType
<1>2. Packaged \subseteq loaded /\ loaded \subseteq Packaged \cup Dynamic
      /\ state \in [Slots -> States]
  BY DEF LaunchedFirst, AppOK
<1>3. CASE r.op = "Create" /\ HandleDispatchOnCreate(r.inst, r.want)
  <2>1. r.want \in Wants
    BY <1>3 DEF Requests
  <2>2. QED
    BY <1>1, <1>3, <2>1, CreateLoads
<1>4. CASE r.op = "Destroy" /\ HandleDispatchOnDestroy(r.inst)
  BY <1>1, <1>2, <1>4 DEF HandleDispatchOnDestroy, Drop, appVars
<1>5. CASE \/ r.op = "NewWant" /\ Drop
           \/ r.op = "Foreground" /\ HandleDispatchOnForeground(r.inst)
           \/ r.op = "Background" /\ HandleDispatchOnBackground(r.inst)
  BY <1>2, <1>5 DEF HandleDispatchOnForeground, HandleDispatchOnBackground, Drop, appVars
<1>6. QED
  BY <1>1, <1>3, <1>4, <1>5 DEF Handle

\* A stage that is still there after a request has an instance that is not gone.
LEMMA StagesStayInUse ==
    ASSUME IInv, LaunchedFirst, AbilitiesOnCourse, StagesInUse, DistinctSlots,
           process = "running", process' # "dead",
           posted # <<>>, posted' = Tail(posted), UNCHANGED shown,
           Head(posted) \in Requests, Handle(Head(posted))
    PROVE  StagesInUse'
<1> DEFINE r == Head(posted)
<1>1. posted \in Seq(Requests \cup {Launch}) /\ AppOK /\ r.inst \in Instances
  BY RequestType DEF IInv, TypeOK, AppOK
<1>2. ASSUME NEW i \in Instances, NEW c \in Courses(i)
      PROVE  Moves(i, c[0], r, c[1]) /\ \E d \in Courses(i)' : d[0] = c[1]
  BY <1>1, <1>2, CourseGoesOn
<1>3. \A i \in Instances : Courses(i)' # {}
  <2>1. SUFFICES ASSUME NEW i \in Instances PROVE \E d : d \in Courses(i)'
    OBVIOUS
  <2>2. PICK c : c \in Courses(i)
    BY DEF StagesInUse
  <2>3. QED
    BY <1>2, <2>2
<1> HIDE DEF r
<1>4. ASSUME NEW m \in stages'
      PROVE  \E i \in Instances : ModuleOf[i] = m /\ \E c \in Courses(i)' : c[0] # "none"
  <2>1. /\ r.op = "Create" => stages' \subseteq stages \cup {ModuleOf[r.inst]}
        /\ r.op # "Create" => stages' \subseteq stages
        /\ r.op = "Destroy" /\ ModuleOf[r.inst] \in stages' =>
             /\ state'[Slot(r.inst)] = "none"
             /\ \E k \in Keys : state'[<<ModuleOf[r.inst], k>>] # "none"
    BY <1>1, StagesFollow DEF r
  <2>2. CASE m \notin stages
    <3>1. r.op = "Create" /\ m = ModuleOf[r.inst]
      BY <1>4, <2>1, <2>2
    <3>2. PICK c \in Courses(r.inst) : TRUE
      BY <1>1 DEF StagesInUse
    <3>3. c[1] = "STARTED_NEW"
      BY <1>1, <1>2, <3>1, <3>2 DEF Moves, IsFor
    <3>4. QED
      BY <1>1, <1>2, <3>1, <3>2, <3>3
  <2>3. CASE m \in stages
    <3>0. PICK i \in Instances : ModuleOf[i] = m /\ \E c \in Courses(i) : c[0] # "none"
      BY <2>3 DEF StagesInUse
    <3>1. PICK c \in Courses(i) : ModuleOf[i] = m /\ c[0] # "none"
      BY <3>0
    <3>2. CASE c[1] # "none"
      BY <1>2, <3>1, <3>2
    <3>3. CASE c[1] = "none"
      <4>1. r.inst = i /\ r.op = "Destroy"
        BY <1>2, <3>1, <3>3 DEF Moves, IsFor
      <4>2. PICK k \in Keys : state'[<<m, k>>] # "none"
        BY <1>4, <2>1, <3>1, <4>1
      <4>3. <<m, k>> \in Slots /\ <<m, k>> # Slot(i)
        <5>1. m \in Modules
          BY <3>1, SlotType
        <5>2. QED
          BY <1>4, <2>1, <3>1, <4>1, <4>2, <5>1 DEF Slots
      <4>4. state[<<m, k>>] # "none"
        BY <1>1, <4>1, <4>2, <4>3, OthersStay DEF r
      <4>5. PICK j \in Launchable : <<m, k>> = Slot(j)
        BY <4>3, <4>4 DEF AbilitiesOnCourse
      <4>6. j \in Instances /\ ModuleOf[j] = m /\ j # i
        BY <4>3, <4>5, InstancesAssumption DEF Launchable, Slot
      <4>7. PICK e \in Courses(j) : e[0] = state[Slot(j)]
        BY DEF AbilitiesOnCourse
      <4>8. e[1] = e[0] /\ e[0] # "none"
        BY <1>2, <4>1, <4>4, <4>5, <4>6, <4>7 DEF Moves, IsFor
      <4>9. QED
        BY <1>2, <4>6, <4>7, <4>8
    <3>4. QED
      BY <3>2, <3>3
  <2>4. QED
    BY <2>2, <2>3
<1>5. QED
  BY <1>3, <1>4 DEF StagesInUse

\* The first task of the queue, handled by a running app.
LEMMA RunningStep ==
    ASSUME IInv, Orderly, DistinctSlots, RunTask, process = "running", process' # "dead"
    PROVE  Orderly'
<1> DEFINE r == Head(posted)
<1>1. /\ posted \in Seq(Requests \cup {Launch}) /\ posted # <<>> /\ AppOK
      /\ posted' = Tail(posted) /\ Handle(r) /\ UNCHANGED <<build, shown>>
      /\ LaunchedFirst /\ AbilitiesOnCourse /\ StagesInUse
  BY DEF RunTask, Orderly, IInv, TypeOK, AppOK
<1>2. /\ Len(posted) \in Nat /\ Len(posted') = Len(posted) - 1 /\ r = posted[1]
      /\ \A k \in 1 .. Len(posted') : posted'[k] = posted[k + 1] /\ k + 1 \in 1 .. Len(posted)
      /\ r \in Requests \cup {Launch} /\ 1 \in 1 .. Len(posted)
  BY <1>1, HeadTailProperties, LenProperties, EmptySeq
<1>3. r \in Requests
  BY <1>1, <1>2 DEF LaunchedFirst
<1>4. process' = "running"
  BY <1>1, <1>3, ProcessStays
<1>5. LaunchedFirst'
  <2>1. Packaged \subseteq loaded' /\ loaded' \subseteq Packaged \cup Dynamic
    BY <1>1, <1>3, StagesFollow
  <2>2. \A k \in 1 .. Len(posted') : posted'[k] # Launch
    BY <1>1, <1>2 DEF LaunchedFirst
  <2>3. QED
    BY <1>4, <2>1, <2>2 DEF LaunchedFirst, Launch
<1>6. AbilitiesOnCourse'
  <2>1. \A s \in Slots : state'[s] # "none" => \E i \in Launchable : s = Slot(i)
    BY <1>1, <1>3, OnlyLaunched DEF AbilitiesOnCourse
  <2>2. ASSUME NEW i \in Launchable PROVE \E d \in Courses(i)' : d[0] = state'[Slot(i)]
    <3>1. i \in Instances
      BY InstancesAssumption DEF Launchable
    <3>2. PICK c \in Courses(i) : c[0] = state[Slot(i)]
      BY <1>1 DEF AbilitiesOnCourse
    <3>3. Moves(i, c[0], r, c[1]) /\ \E d \in Courses(i)' : d[0] = c[1]
      BY <1>1, <3>1, <3>2, CourseGoesOn
    <3>4. state'[Slot(i)] = c[1]
      BY <1>1, <1>3, <3>2, <3>3, HandlerFollows
    <3>5. QED
      BY <3>3, <3>4
  <2>3. QED
    BY <2>1, <2>2 DEF AbilitiesOnCourse, Launchable, Slot
<1>7. StagesInUse'
  BY <1>1, <1>3, StagesStayInUse
<1>8. QED
  BY <1>5, <1>6, <1>7 DEF Orderly

\* The launch, which is the first task.
LEMMA LaunchStep ==
    ASSUME IInv, Orderly, RunTask, process = "starting"
    PROVE  Orderly' /\ UNCHANGED state
<1>1. /\ posted \in Seq(Requests \cup {Launch}) /\ posted # <<>>
      /\ posted' = Tail(posted) /\ Handle(Head(posted)) /\ UNCHANGED shown
      /\ LaunchedFirst /\ AbilitiesOnCourse /\ StagesInUse
  BY DEF RunTask, Orderly, IInv, TypeOK
<1>2. /\ Len(posted) \in Nat /\ Len(posted') = Len(posted) - 1 /\ Head(posted) = posted[1]
      /\ \A k \in 1 .. Len(posted') : posted'[k] = posted[k + 1] /\ k + 1 \in 1 .. Len(posted)
  BY <1>1, HeadTailProperties, LenProperties, EmptySeq
<1>3. Head(posted) = Launch
  BY <1>1, <1>2 DEF LaunchedFirst
<1>4. process' = "running" /\ loaded' = Packaged /\ UNCHANGED <<stages, state, windowDue, want>>
  BY <1>1, <1>3 DEF Handle, Launch, LaunchApplication
<1>5. LaunchedFirst'
  <2>1. \A k \in 1 .. Len(posted') : posted'[k] # Launch
    BY <1>1, <1>2 DEF LaunchedFirst
  <2>2. QED
    BY <1>4, <2>1 DEF LaunchedFirst, Launch
<1>6. ASSUME NEW i \in Instances, NEW c \in Courses(i)
      PROVE  \E d \in Courses(i)' : d[0] = c[0]
  <2>1. Moves(i, c[0], Launch, c[1]) /\ \E d \in Courses(i)' : d[0] = c[1]
    BY <1>1, <1>3, <1>6, CourseGoesOn
  <2>2. QED
    BY <2>1 DEF Moves, IsFor, Launch
<1>7. AbilitiesOnCourse'
  <2>1. Launchable \subseteq Instances
    BY InstancesAssumption DEF Launchable
  <2>2. \A i \in Launchable : \E d \in Courses(i)' : d[0] = state'[Slot(i)]
    BY <1>1, <1>4, <1>6, <2>1 DEF AbilitiesOnCourse
  <2>3. QED
    BY <1>1, <1>4, <2>2 DEF AbilitiesOnCourse, Launchable, Slot
<1>8. StagesInUse'
  <2>1. stages' = {}
    BY <1>1, <1>4 DEF LaunchedFirst
  <2>2. ASSUME NEW i \in Instances PROVE Courses(i)' # {}
    <3>1. PICK c : c \in Courses(i)
      BY <1>1 DEF StagesInUse
    <3>2. QED
      BY <1>6, <3>1
  <2>3. QED
    BY <2>1, <2>2 DEF StagesInUse
<1>9. QED
  BY <1>4, <1>5, <1>7, <1>8 DEF Orderly

\* What the platform asks for goes to the end of the queue, and is the next step of the life
\* of its instance.
LEMMA AskStep ==
    ASSUME IInv, Orderly, OnRunnerThread = FALSE,
           NEW j \in Instances, NEW s \in States, PlatformAsks(j, s),
           NEW r \in Requests, r.inst = j, Moves(j, shown[j], r, s),
           PostTask(r) \/ PostSyncTask(r)
    PROVE  Orderly' /\ UNCHANGED state
<1>1. /\ posted \in Seq(Requests \cup {Launch}) /\ shown \in [Instances -> States]
      /\ posted' = Append(posted, r) /\ UNCHANGED appVars
      /\ shown' = [shown EXCEPT ![j] = s]
      /\ process # "dead" /\ LaunchedFirst /\ AbilitiesOnCourse /\ StagesInUse
  BY DEF PostSyncTask, PostTask, PlatformAsks, Orderly, IInv, TypeOK
<1>2. /\ Len(posted) \in Nat /\ Len(posted') = Len(posted) + 1 /\ posted' # <<>>
      /\ \A k \in 1 .. Len(posted) : posted'[k] = posted[k]
      /\ posted'[Len(posted) + 1] = r /\ r # Launch
  BY <1>1, AppendProperties, LenProperties, RequestType
<1>3. ASSUME NEW i \in Instances, NEW c \in Courses(i)
      PROVE  \E d \in Courses(i)' : d[0] = c[0]
  <2>1. shown'[i] \in States /\ Moves(i, shown[i], r, shown'[i])
    BY <1>1 DEF Moves, IsFor
  <2>2. QED
    BY <1>1, <1>3, <2>1, CourseGrows
<1>4. LaunchedFirst'
  <2>1. process = "starting" => posted'[1] = Launch
    <3>1. process = "starting" => Len(posted) # 0 /\ posted[1] = Launch
      BY <1>1, EmptySeq DEF LaunchedFirst
    <3>2. QED
      BY <1>2, <3>1
  <2>2. \A k \in 1 .. Len(posted') : posted'[k] = Launch => k = 1 /\ process = "starting"
    BY <1>1, <1>2 DEF LaunchedFirst
  <2>3. QED
    BY <1>1, <1>2, <2>1, <2>2 DEF LaunchedFirst, appVars, Launch
<1>5. AbilitiesOnCourse'
  <2>1. Launchable \subseteq Instances
    BY InstancesAssumption DEF Launchable
  <2>2. \A i \in Launchable : \E d \in Courses(i)' : d[0] = state'[Slot(i)]
    BY <1>1, <1>3, <2>1 DEF AbilitiesOnCourse, appVars
  <2>3. QED
    BY <1>1, <2>2 DEF AbilitiesOnCourse, Launchable, Slot, appVars
<1>6. StagesInUse'
  <2>1. ASSUME NEW i \in Instances PROVE Courses(i)' # {}
    <3>1. PICK c : c \in Courses(i)
      BY <1>1 DEF StagesInUse
    <3>2. QED
      BY <1>3, <3>1
  <2>2. ASSUME NEW m \in stages'
        PROVE  \E i \in Instances : ModuleOf[i] = m /\ \E d \in Courses(i)' : d[0] # "none"
    <3>1. PICK i \in Instances : ModuleOf[i] = m /\ \E c \in Courses(i) : c[0] # "none"
      BY <1>1, <2>2 DEF StagesInUse, appVars
    <3>2. QED
      BY <1>3, <3>1
  <2>3. QED
    BY <2>1, <2>2 DEF StagesInUse
<1>7. QED
  BY <1>1, <1>4, <1>5, <1>6 DEF Orderly, appVars

\* At the start nothing is posted but the launch, and nothing is there.
LEMMA InitOrderly == Init => Orderly
<1> SUFFICES ASSUME Init PROVE Orderly
  OBVIOUS
<1>1. Len(posted) = 1 /\ posted[1] = Launch /\ posted # <<>>
  BY DEF Init
<1>2. ASSUME NEW i \in Instances
      PROVE  \E c \in Courses(i) : c[0] = "none"
  <2> DEFINE c == [k \in 0 .. 1 |-> "none"]
  <2>1. c \in [0 .. 1 -> States] /\ c[0] = "none" /\ c[1] = shown[i]
    BY DEF Init, States
  <2>2. Moves(i, c[1 - 1], posted[1], c[1])
    BY <1>1 DEF Moves, IsFor, Launch
  <2> HIDE DEF c
  <2>3. QED
    BY <1>1, <2>1, <2>2 DEF Courses
<1>3. LaunchedFirst
  BY <1>1 DEF Init, LaunchedFirst
<1>4. AbilitiesOnCourse
  <2>1. Launchable \subseteq Instances /\ \A i \in Instances : state[Slot(i)] = "none"
    BY InstancesAssumption, SlotType DEF Launchable, Init
  <2>2. QED
    BY <1>2, <2>1 DEF AbilitiesOnCourse, Init
<1>5. StagesInUse
  BY <1>2 DEF StagesInUse, Init
<1>6. QED
  BY <1>3, <1>4, <1>5 DEF Orderly

\* One step of a running app: what it does to an ability is a legal step of its life.
LEMMA LegalTask ==
    ASSUME IInv, Orderly, DistinctSlots, RunTask, process = "running",
           NEW s \in Slots, state'[s] # state[s]
    PROVE  <<state[s], state'[s]>> \in LegalSteps
<1> DEFINE r == Head(posted)
<1>1. /\ posted \in Seq(Requests \cup {Launch}) /\ posted # <<>> /\ AppOK
      /\ posted' = Tail(posted) /\ Handle(r) /\ UNCHANGED shown
      /\ LaunchedFirst /\ AbilitiesOnCourse
  BY DEF RunTask, Orderly, IInv, TypeOK, AppOK
<1>2. Head(posted) = posted[1] /\ r \in Requests \cup {Launch} /\ 1 \in 1 .. Len(posted)
  BY <1>1, HeadTailProperties, LenProperties, EmptySeq
<1>3. r \in Requests
  BY <1>1, <1>2 DEF LaunchedFirst
<1>4. process' # "dead"
  BY <1>1, <1>3, ProcessStays
<1>5. PICK i \in Launchable : s = Slot(i)
  BY <1>1, <1>3, <1>4, OnlyLaunched DEF AbilitiesOnCourse
<1>6. i \in Instances
  BY <1>5, InstancesAssumption DEF Launchable
<1>7. PICK c \in Courses(i) : c[0] = state[Slot(i)]
  BY <1>1 DEF AbilitiesOnCourse
<1>8. Moves(i, c[0], r, c[1])
  BY <1>1, <1>6, CourseGoesOn
<1>9. state'[Slot(i)] = c[1]
  BY <1>1, <1>3, <1>4, <1>7, <1>8, HandlerFollows
<1>10. QED
  BY <1>5, <1>7, <1>8, <1>9 DEF Moves, LegalSteps

\* Every step, of the runner or of the platform.
LEMMA OrderlyStep ==
    ASSUME IInv, Orderly, OnRunnerThread = FALSE, DistinctSlots, [Next]_vars
    PROVE  Orderly' /\ \A s \in Slots :
                state'[s] # state[s] => <<state[s], state'[s]>> \in LegalSteps
<1>1. CASE RunTask
  <2>1. process \in {"starting", "running"}
    BY <1>1 DEF RunTask, IInv, TypeOK
  <2>2. CASE process = "starting"
    BY <1>1, <2>2, LaunchStep
  <2>3. CASE process = "running"
    <3>1. Orderly'
      BY <1>1, <2>3, RunningStep DEF Orderly
    <3>2. QED
      BY <1>1, <2>3, <3>1, LegalTask
  <2>4. QED
    BY <2>1, <2>2, <2>3
<1>2. ASSUME NEW i \in Instances, NEW w \in Wants, DispatchOnCreate(i, w)
      PROVE  Orderly' /\ UNCHANGED state
  <2> DEFINE r == AskWith("Create", i, w)
  <2>1. r \in Requests /\ r.inst = i /\ "STARTED_NEW" \in States
        /\ Moves(i, shown[i], r, "STARTED_NEW")
    BY <1>2 DEF DispatchOnCreate, AskWith, Requests, States, Moves, IsFor
  <2> HIDE DEF r
  <2>2. QED
    BY <1>2, <2>1, AskStep DEF DispatchOnCreate, r
<1>3. ASSUME NEW i \in Instances, NEW w \in Wants, DispatchOnNewWant(i, w)
      PROVE  Orderly' /\ UNCHANGED state
  <2> DEFINE r == AskWith("NewWant", i, w)
  <2>1. r \in Requests /\ r.inst = i /\ shown[i] \in States /\ Moves(i, shown[i], r, shown[i])
    BY <1>3 DEF AskWith, Requests, Moves, IsFor, IInv, TypeOK
  <2> HIDE DEF r
  <2>2. QED
    BY <1>3, <2>1, AskStep DEF DispatchOnNewWant, r
<1>4. ASSUME NEW i \in Instances, DispatchOnForeground(i)
      PROVE  Orderly' /\ UNCHANGED state
  <2> DEFINE r == Ask("Foreground", i)
  <2>1. r \in Requests /\ r.inst = i /\ "FOREGROUND_NEW" \in States
        /\ Moves(i, shown[i], r, "FOREGROUND_NEW")
    BY <1>4 DEF DispatchOnForeground, Ask, Requests, States, Moves, IsFor
  <2> HIDE DEF r
  <2>2. QED
    BY <1>4, <2>1, AskStep DEF DispatchOnForeground, r
<1>5. ASSUME NEW i \in Instances, DispatchOnBackground(i)
      PROVE  Orderly' /\ UNCHANGED state
  <2> DEFINE r == Ask("Background", i)
  <2>1. r \in Requests /\ r.inst = i /\ "BACKGROUND_NEW" \in States
        /\ Moves(i, shown[i], r, "BACKGROUND_NEW")
    BY <1>5 DEF DispatchOnBackground, Ask, Requests, States, Moves, IsFor
  <2> HIDE DEF r
  <2>2. QED
    BY <1>5, <2>1, AskStep DEF DispatchOnBackground, r
<1>6. ASSUME NEW i \in Instances, DispatchOnDestroy(i)
      PROVE  Orderly' /\ UNCHANGED state
  <2> DEFINE r == Ask("Destroy", i)
  <2>1. r \in Requests /\ r.inst = i /\ "none" \in States /\ Moves(i, shown[i], r, "none")
    BY <1>6 DEF DispatchOnDestroy, Ask, Requests, States, Moves, IsFor
  <2> HIDE DEF r
  <2>2. QED
    BY <1>6, <2>1, AskStep DEF DispatchOnDestroy, r
<1>7. CASE UNCHANGED vars
  BY <1>7 DEF vars, appVars, Orderly, LaunchedFirst, AbilitiesOnCourse, StagesInUse, Courses
<1>8. QED
  BY <1>1, <1>2, <1>3, <1>4, <1>5, <1>6, <1>7 DEF Next

LEMMA OrderlyInvariant ==
    ASSUME OnRunnerThread = FALSE, DistinctSlots
    PROVE  Spec => [](IInv /\ Orderly)
<1>1. Init => IInv /\ Orderly
  BY InitIInv, InitOrderly
<1>2. IInv /\ Orderly /\ [Next]_vars => (IInv /\ Orderly)'
  BY NextIInv, OrderlyStep
<1>3. QED
  BY <1>1, <1>2, PTL DEF Spec

-------------------------------------------------------------------------------
\* If the requests come from another thread, each ability is where the platform has it
\* whenever everything is handled, for any number of instances and in any order of requests.
THEOREM PlatformObeyed ==
    ASSUME OnRunnerThread = FALSE, DistinctSlots
    PROVE  Spec => []AgreesWithPlatform
<1>1. ASSUME IInv, Orderly PROVE AgreesWithPlatform
  <2>1. SUFFICES ASSUME process = "running", posted = <<>>, NEW i \in Launchable
                 PROVE  state[Slot(i)] = shown[i]
    BY DEF AgreesWithPlatform
  <2>2. PICK c \in Courses(i) : c[0] = state[Slot(i)]
    BY <1>1, <2>1 DEF Orderly, AbilitiesOnCourse
  <2>3. QED
    BY <2>1, <2>2 DEF Courses
<1>2. QED
  BY <1>1, OrderlyInvariant, PTL

\* And no stage outlives the instances it was made for, though some had no ability.
THEOREM NothingStays ==
    ASSUME OnRunnerThread = FALSE, DistinctSlots
    PROVE  Spec => []NothingLeftBehind
<1>1. ASSUME IInv, Orderly PROVE NothingLeftBehind
  <2>1. SUFFICES ASSUME process = "running", posted = <<>>, NEW m \in stages
                 PROVE  \E i \in Instances : ModuleOf[i] = m /\ shown[i] # "none"
    BY DEF NothingLeftBehind
  <2>2. PICK i \in Instances : ModuleOf[i] = m /\ \E c \in Courses(i) : c[0] # "none"
    BY <1>1, <2>1 DEF Orderly, StagesInUse
  <2>3. QED
    BY <2>1, <2>2 DEF Courses
<1>2. QED
  BY <1>1, OrderlyInvariant, PTL

\* An ability sees its callbacks in the order of its life.
THEOREM LivesAreLegal ==
    ASSUME OnRunnerThread = FALSE, DistinctSlots
    PROVE  Spec => LegalLifecycle
<1> DEFINE Legal ==
        \A s \in Slots : state'[s] # state[s] => <<state[s], state'[s]>> \in LegalSteps
<1>1. IInv /\ Orderly /\ [Next]_vars => [Legal]_vars
  BY OrderlyStep
<1>2. QED
  BY <1>1, OrderlyInvariant, PTL DEF Spec, LegalLifecycle

-------------------------------------------------------------------------------
(* ContextListeners, for any number of registrations and events. *)

\* What is assumed of the constants.
ListenersAssumption == MaxRegistrations \in Nat /\ MaxHappenings \in Nat

\* Work items that tell r of event e, whether or not its object is still there.
OnWay(w, e, r) == w \in works /\ w.kind # "off" /\ w.event = e /\ r \in w.to

\* Numbers are given once, ...
NumbersOK ==
    /\ \A n \in lifecycleListeners : n < serialNumber
    /\ \A x \in stateListeners : x.number < serialNumber
    /\ \A x, y \in stateListeners : x.number = y.number => x = y

\* ... and the current object is registered as long as it has listeners.
ObjectHeld == (object # 0 => object \in registered) /\ (object = 0 => stateListeners = {})

\* Work items are about events that have happened, and tell those who were there, ...
WorksOK ==
    /\ \A w \in works : w.kind # "off" => w.event <= happened /\ w.to \subseteq there[w.event]
    /\ \A e \in Listeners!Events : e > happened => there[e] = {}
    \* ... one item for each; an object that has gone had none but removed listeners.
    /\ \A e \in Listeners!Events, r \in Listeners!Registrations :
        \A v, w : OnWay(v, e, r) /\ OnWay(w, e, r) => v = w
    /\ \A w \in works : w.kind = "state" =>
        \A r \in w.to \ removed : r \in Listeners!Numbers(stateListeners) /\ w.object = object

\* Who was there is told, or a work item is on its way, once, or another listener is why not.
TellingOK ==
    \A e \in Listeners!Events, r \in Listeners!Registrations :
        /\ told[<<e, r>>] <= 1
        /\ told[<<e, r>>] = 1 => r \in there[e] /\ \A w : ~OnWay(w, e, r)
        /\ r \in there[e] \ removed =>
            told[<<e, r>>] = 1 \/ Listeners!Silenced(e, r) \/ \E w : OnWay(w, e, r)

ListenersInv == Listeners!TypeOK /\ NumbersOK /\ ObjectHeld /\ WorksOK /\ TellingOK

\* Nobody is told by a step that leaves the counts as they are and takes work items only
\* from those who were removed.
LEMMA NobodyTold ==
    ASSUME TellingOK, told' = told, there' = there, failing' = failing,
           removed \subseteq removed',
           \A w, e, r : (OnWay(w, e, r)' => OnWay(w, e, r))
                       /\ (OnWay(w, e, r) => OnWay(w, e, r)' \/ r \in removed')
    PROVE  TellingOK'
<1> SUFFICES ASSUME NEW e \in Listeners!Events, NEW r \in Listeners!Registrations
             PROVE  /\ told'[<<e, r>>] <= 1
                    /\ told'[<<e, r>>] = 1 => r \in there'[e] /\ \A w : ~OnWay(w, e, r)'
                    /\ r \in there'[e] \ removed' =>
                        told'[<<e, r>>] = 1 \/ Listeners!Silenced(e, r)' \/ \E w : OnWay(w, e, r)'
  BY DEF TellingOK
<1>1. /\ told[<<e, r>>] <= 1
      /\ told[<<e, r>>] = 1 => r \in there[e] /\ \A w : ~OnWay(w, e, r)
      /\ r \in there[e] \ removed =>
            told[<<e, r>>] = 1 \/ Listeners!Silenced(e, r) \/ \E w : OnWay(w, e, r)
  BY DEF TellingOK
<1>2. Listeners!Silenced(e, r)' <=> Listeners!Silenced(e, r)
  BY DEF Listeners!Silenced
<1> QED BY <1>1, <1>2

LEMMA WhoIsThereIsTold == ASSUME ListenersAssumption, ListenersInv PROVE Listeners!ListenersTold
<1> SUFFICES ASSUME NEW e \in Listeners!Events, NEW r \in Listeners!Registrations
             PROVE  /\ told[<<e, r>>] <= IF r \in there[e] THEN 1 ELSE 0
                    /\ r \in there[e] \ removed =>
                        \/ told[<<e, r>>] = 1 \/ Listeners!Silenced(e, r)
                        \/ \E w \in works : Listeners!WillTell(w, e, r)
  BY DEF Listeners!ListenersTold
<1>1. told[<<e, r>>] \in Nat
  BY DEF ListenersInv, Listeners!TypeOK
<1>2. told[<<e, r>>] <= IF r \in there[e] THEN 1 ELSE 0
  BY <1>1 DEF ListenersInv, TellingOK
<1>3. ASSUME r \in there[e] \ removed, told[<<e, r>>] # 1, ~Listeners!Silenced(e, r)
      PROVE  \E w \in works : Listeners!WillTell(w, e, r)
  <2>1. PICK w : OnWay(w, e, r)
    BY <1>3 DEF ListenersInv, TellingOK
  <2>2. w.kind = "state" => w.object = object
    BY <1>3, <2>1 DEF ListenersInv, WorksOK, OnWay
  <2> QED BY <2>1, <2>2 DEF OnWay, Listeners!WillTell
<1> QED BY <1>2, <1>3

\* A listener of the lifecycle is registered.
LEMMA OnAbilityStep ==
    ASSUME ListenersAssumption, ListenersInv, Listeners!OnAbilityLifecycle PROVE ListenersInv'
<1> USE DEF Listeners!OnAbilityLifecycle, Listeners!eventVars, ListenersAssumption
<1>1. /\ serialNumber \in Nat /\ serialNumber' = serialNumber + 1
      /\ serialNumber \in Listeners!Registrations
  BY DEF ListenersInv, Listeners!TypeOK, Listeners!Registrations
<1>2. Listeners!TypeOK'
  BY <1>1 DEF ListenersInv, Listeners!TypeOK
<1>3. NumbersOK'
  BY <1>1 DEF ListenersInv, Listeners!TypeOK, NumbersOK, Listeners!References,
              Listeners!Registrations
<1>4. ObjectHeld' /\ WorksOK' /\ TellingOK'
  BY DEF ListenersInv, ObjectHeld, WorksOK, TellingOK, OnWay, Listeners!Numbers,
         Listeners!Silenced
<1> QED BY <1>2, <1>3, <1>4 DEF ListenersInv

\* A script asks for a removal, which is left to a work item.
LEMMA OffAbilityStep ==
    ASSUME ListenersAssumption, ListenersInv, NEW n \in Listeners!Registrations,
           Listeners!OffAbilityLifecycle(n)
    PROVE  ListenersInv'
<1> DEFINE new == [kind |-> "off", number |-> n]
<1>1. works' = works \cup {new} /\ new \in Listeners!Works /\ new.kind = "off"
  BY DEF Listeners!OffAbilityLifecycle, Listeners!Works
<1> HIDE DEF new
<1>2. UNCHANGED <<Listeners!listenerVars, removed, Listeners!eventVars>>
  BY DEF Listeners!OffAbilityLifecycle
<1> USE DEF Listeners!eventVars, Listeners!listenerVars
<1>3. Listeners!TypeOK'
  BY <1>1, <1>2 DEF ListenersInv, Listeners!TypeOK
<1>4. NumbersOK' /\ ObjectHeld'
  BY <1>2 DEF ListenersInv, NumbersOK, ObjectHeld
<1>5. \A w, e, r : OnWay(w, e, r)' <=> OnWay(w, e, r)
  BY <1>1, <1>2 DEF OnWay
<1>6. WorksOK'
  BY <1>1, <1>2, <1>5 DEF ListenersInv, WorksOK, Listeners!Numbers
<1>7. TellingOK'
  BY <1>2, <1>5, NobodyTold DEF ListenersInv
<1> QED BY <1>3, <1>4, <1>6, <1>7 DEF ListenersInv

\* A listener of the state is registered, with an object if there is none.
LEMMA OnStateStep ==
    ASSUME ListenersAssumption, ListenersInv, NEW f \in StateFunctions,
           Listeners!OnApplicationStateChange(f)
    PROVE  ListenersInv'
<1> DEFINE new == [number |-> serialNumber, function |-> f]
<1>1. /\ stateListeners' = stateListeners \cup {new}
      /\ new \in Listeners!References
      /\ new.number = serialNumber
      /\ serialNumber' = serialNumber + 1 /\ serialNumber \in Nat
      /\ serialNumber' \in 0 .. MaxRegistrations
  BY DEF Listeners!OnApplicationStateChange, ListenersInv, Listeners!TypeOK,
         Listeners!References, Listeners!Registrations, ListenersAssumption
<1> HIDE DEF new
<1>2. UNCHANGED <<lifecycleListeners, works, removed, Listeners!eventVars>>
  BY DEF Listeners!OnApplicationStateChange
<1>3. /\ object' # 0 /\ object' \in registered'
      /\ object' \in 0 .. objects' /\ objects' \in Nat /\ registered' \subseteq 1 .. objects'
      /\ object # 0 => object' = object
  <2>1. objects \in Nat /\ registered \subseteq 1 .. objects /\ object \in 0 .. objects
    BY DEF ListenersInv, Listeners!TypeOK
  <2>2. CASE object # 0
    <3>1. UNCHANGED <<object, objects, registered>>
      BY <2>2 DEF Listeners!OnApplicationStateChange
    <3>2. object \in registered
      BY <2>2 DEF ListenersInv, ObjectHeld
    <3> QED BY <2>1, <2>2, <3>1, <3>2
  <2>3. CASE object = 0
    <3>1. /\ objects' = objects + 1
          /\ object' = objects + 1
          /\ registered' = registered \cup {objects + 1}
      BY <2>3 DEF Listeners!OnApplicationStateChange
    <3>2. registered' \subseteq 1 .. (objects + 1)
      BY <2>1, <3>1
    <3> QED BY <2>1, <2>3, <3>1, <3>2
  <2> QED BY <2>2, <2>3
<1> USE DEF Listeners!eventVars
<1>4. Listeners!TypeOK'
  BY <1>1, <1>2, <1>3 DEF ListenersInv, Listeners!TypeOK
<1>5. NumbersOK'
  <2>1. \A x \in stateListeners : x.number < serialNumber /\ x.number \in Nat
    BY DEF ListenersInv, NumbersOK, Listeners!TypeOK, Listeners!References,
           Listeners!Registrations
  <2>2. \A n \in lifecycleListeners : n < serialNumber /\ n \in Nat
    BY DEF ListenersInv, NumbersOK, Listeners!TypeOK, Listeners!Registrations
  <2> QED BY <1>1, <1>2, <2>1, <2>2 DEF ListenersInv, NumbersOK
<1>6. ObjectHeld'
  BY <1>3 DEF ObjectHeld
<1>7. WorksOK'
  <2>1. \A r \in Listeners!Numbers(stateListeners) : r \in Listeners!Numbers(stateListeners)'
            /\ object # 0
    BY <1>1 DEF Listeners!Numbers, ListenersInv, ObjectHeld
  <2> QED BY <1>2, <1>3, <2>1 DEF ListenersInv, WorksOK, OnWay
<1>8. TellingOK'
  <2>1. \A w, e, r : OnWay(w, e, r)' <=> OnWay(w, e, r)
    BY <1>2 DEF OnWay
  <2> QED BY <1>2, <2>1, NobodyTold DEF ListenersInv
<1> QED BY <1>4, <1>5, <1>6, <1>7, <1>8 DEF ListenersInv

\* Listeners of the state are removed, and with the last of them the object.
LEMMA OffStep ==
    ASSUME ListenersAssumption, ListenersInv, NEW gone \in SUBSET stateListeners,
           Listeners!GiveUpIfEmpty(stateListeners \ gone), object # 0,
           removed' = removed \cup Listeners!Numbers(gone),
           UNCHANGED <<serialNumber, lifecycleListeners, objects, works, Listeners!eventVars>>
    PROVE  ListenersInv'
<1> USE DEF Listeners!eventVars
<1>1. /\ stateListeners' = stateListeners \ gone
      /\ \/ stateListeners' = {} /\ object' = 0 /\ registered' = registered \ {object}
         \/ stateListeners' # {} /\ object' = object /\ registered' = registered
  BY DEF Listeners!GiveUpIfEmpty
<1>2. Listeners!Numbers(gone) \in SUBSET Listeners!Registrations
  BY DEF ListenersInv, Listeners!TypeOK, Listeners!References, Listeners!Numbers
<1>3. Listeners!TypeOK'
  <2>1. objects \in Nat /\ registered \subseteq 1 .. objects /\ object \in 0 .. objects
    BY DEF ListenersInv, Listeners!TypeOK
  <2>2. /\ registered' \subseteq 1 .. objects' /\ object' \in 0 .. objects'
        /\ object' = 0 => stateListeners' = {}
    <3>1. objects' = objects
      OBVIOUS
    <3>2. CASE stateListeners' = {} /\ object' = 0 /\ registered' = registered \ {object}
      BY <2>1, <3>1, <3>2
    <3>3. CASE stateListeners' # {} /\ object' = object /\ registered' = registered
      BY <2>1, <3>1, <3>3
    <3> QED BY <1>1, <3>2, <3>3
  <2>3. /\ removed' \in SUBSET Listeners!Registrations
        /\ stateListeners' \in SUBSET Listeners!References
    BY <1>1, <1>2 DEF ListenersInv, Listeners!TypeOK
  <2> QED BY <2>2, <2>3 DEF ListenersInv, Listeners!TypeOK
<1>4. NumbersOK'
  BY <1>1 DEF ListenersInv, NumbersOK
<1>5. ObjectHeld'
  BY <1>1 DEF ListenersInv, ObjectHeld
<1>6. \A r \in Listeners!Numbers(stateListeners) \ removed' :
          r \in Listeners!Numbers(stateListeners') /\ object' = object
  <2>1. SUFFICES ASSUME NEW x \in stateListeners, x.number \notin removed'
                 PROVE  x \in stateListeners' /\ object' = object
    BY DEF Listeners!Numbers
  <2>2. x \notin gone
    BY <2>1 DEF Listeners!Numbers
  <2> QED BY <1>1, <2>2
<1>7. WorksOK'
  <2>1. \A w \in works : w.kind = "state" =>
            \A r \in w.to \ removed' : r \in Listeners!Numbers(stateListeners')
                /\ w.object = object'
    BY <1>6 DEF ListenersInv, WorksOK
  <2> QED BY <2>1 DEF ListenersInv, WorksOK, OnWay, Listeners!Numbers
<1>8. TellingOK'
  <2>1. \A w, e, r : OnWay(w, e, r)' <=> OnWay(w, e, r)
    BY DEF OnWay
  <2> QED BY <2>1, NobodyTold DEF ListenersInv
<1> QED BY <1>3, <1>4, <1>5, <1>7, <1>8 DEF ListenersInv

LEMMA OffStateStep ==
    ASSUME ListenersAssumption, ListenersInv,
           Listeners!OffAllApplicationStateChange \/ \E f \in StateFunctions :
               Listeners!OffApplicationStateChange(f)
    PROVE  ListenersInv'
<1>1. CASE Listeners!OffAllApplicationStateChange
  <2>1. stateListeners \ stateListeners = {}
    OBVIOUS
  <2> QED BY <1>1, <2>1, OffStep DEF Listeners!OffAllApplicationStateChange
<1>2. CASE \E f \in StateFunctions : Listeners!OffApplicationStateChange(f)
  <2>1. PICK x \in stateListeners :
            /\ object # 0
            /\ Listeners!GiveUpIfEmpty(stateListeners \ {x})
            /\ removed' = removed \cup {x.number}
            /\ UNCHANGED <<serialNumber, lifecycleListeners, objects, works, Listeners!eventVars>>
    BY <1>2 DEF Listeners!OffApplicationStateChange
  <2>2. Listeners!Numbers({x}) = {x.number} /\ {x} \in SUBSET stateListeners
    BY DEF Listeners!Numbers
  <2> QED BY <2>1, <2>2, OffStep
<1> QED BY <1>1, <1>2

\* An event happens: the work items that tell of it are new, for one object at most.
Leaves(all, new) ==
    /\ \A w \in new : w.kind # "off" /\ w.event = happened + 1 /\ w.to \subseteq all
    /\ \A v, w \in new : \A r \in v.to \cap w.to : v = w
    /\ \A r \in all : \E w \in new : r \in w.to
    /\ \A w \in new : w.kind = "state" => \A r \in w.to : r \in Listeners!Numbers(stateListeners)
           /\ w.object = object

LEMMA HappenStep ==
    ASSUME ListenersAssumption, ListenersInv, happened < MaxHappenings, happened' = happened + 1,
           NEW all \in SUBSET Listeners!Registrations,
           there' = [there EXCEPT ![happened + 1] = all],
           NEW new \in SUBSET Listeners!Works, works' = works \cup new, Leaves(all, new),
           UNCHANGED <<Listeners!listenerVars, removed, told, failing>>
    PROVE  ListenersInv'
<1> USE DEF Leaves
<1> DEFINE now == happened + 1
<1>1. happened \in Nat /\ now \in Listeners!Events /\ now > happened
  BY DEF ListenersAssumption, ListenersInv, Listeners!TypeOK, Listeners!Events
<1>2. /\ there' \in [Listeners!Events -> SUBSET Listeners!Registrations] /\ there'[now] = all
      /\ \A e \in Listeners!Events : e # now => there'[e] = there[e]
  BY <1>1 DEF ListenersInv, Listeners!TypeOK
<1>3. Listeners!TypeOK'
  BY <1>1, <1>2 DEF ListenersAssumption, ListenersInv, Listeners!TypeOK, Listeners!listenerVars
<1>4. NumbersOK' /\ ObjectHeld'
  BY DEF ListenersInv, NumbersOK, ObjectHeld, Listeners!listenerVars
<1>5. \A w \in works : w.kind # "off" => w.event \in Listeners!Events /\ w.event # now
  BY <1>1 DEF ListenersInv, Listeners!TypeOK, Listeners!Works, WorksOK, Listeners!Events
<1>6. \A w, e, r : e = now => (OnWay(w, e, r)' <=> w \in new /\ r \in w.to)
  BY <1>5 DEF OnWay
<1>7. \A w, e, r : e # now => (OnWay(w, e, r)' <=> OnWay(w, e, r))
  BY DEF OnWay
<1>8. WorksOK'
  <2>1. \A w \in works' : w.kind # "off" => w.event <= happened' /\ w.to \subseteq there'[w.event]
    <3>1. TAKE w \in works'
    <3>2. HAVE w.kind # "off"
    <3>3. CASE w \in new
      BY <3>3, <1>1, <1>2
    <3>4. CASE w \in works
      BY <3>2, <3>4, <1>1, <1>2, <1>5 DEF ListenersInv, WorksOK, Listeners!Events
    <3> QED BY <3>3, <3>4
  <2>2. \A e \in Listeners!Events : e > happened' => there'[e] = {}
    BY <1>1, <1>2 DEF ListenersInv, WorksOK, Listeners!Events
  <2>3. \A e \in Listeners!Events, r \in Listeners!Registrations :
            \A v, w : (OnWay(v, e, r) /\ OnWay(w, e, r))' => v = w
    <3>1. TAKE e \in Listeners!Events, r \in Listeners!Registrations
    <3> SUFFICES ASSUME NEW v, NEW w PROVE (OnWay(v, e, r) /\ OnWay(w, e, r))' => v = w
      OBVIOUS
    <3>2. CASE e = now
      BY <3>2, <1>6
    <3>3. CASE e # now
      BY <3>3, <1>7 DEF ListenersInv, WorksOK
    <3> QED BY <3>2, <3>3
  <2>4. \A w \in works' : w.kind = "state" =>
            \A r \in w.to \ removed' : r \in Listeners!Numbers(stateListeners)'
                /\ w.object = object'
    BY DEF ListenersInv, WorksOK, Listeners!listenerVars, Listeners!Numbers
  <2> QED BY <2>1, <2>2, <2>3, <2>4 DEF WorksOK
<1>9. TellingOK'
  <2> SUFFICES ASSUME NEW e \in Listeners!Events, NEW r \in Listeners!Registrations
               PROVE  /\ told[<<e, r>>] <= 1
                      /\ told[<<e, r>>] = 1 => r \in there'[e] /\ \A w : ~OnWay(w, e, r)'
                      /\ r \in there'[e] \ removed =>
                            told[<<e, r>>] = 1 \/ Listeners!Silenced(e, r) \/ \E w : OnWay(w, e, r)'
    BY DEF TellingOK, Listeners!Silenced
  <2>1. CASE e # now
    BY <2>1, <1>2, <1>7 DEF ListenersInv, TellingOK
  <2>2. CASE e = now
    <3>1. there[e] = {}
      BY <2>2, <1>1 DEF ListenersInv, WorksOK
    <3>2. told[<<e, r>>] <= 1 /\ told[<<e, r>>] # 1
      BY <3>1 DEF ListenersInv, TellingOK
    <3>3. r \in there'[e] => \E w : OnWay(w, e, r)'
      BY <2>2, <1>2, <1>6
    <3> QED BY <3>2, <3>3
  <2> QED BY <2>1, <2>2
<1> QED BY <1>3, <1>4, <1>8, <1>9 DEF ListenersInv

LEMMA EventStep ==
    ASSUME ListenersAssumption, ListenersInv,
           Listeners!DispatchOnAbility \/ Listeners!NotifyApplication
    PROVE  ListenersInv'
<1>0. happened \in Nat /\ (happened < MaxHappenings => happened + 1 \in Listeners!Events)
  BY DEF ListenersAssumption, ListenersInv, Listeners!TypeOK, Listeners!Events
<1>1. CASE Listeners!DispatchOnAbility
  <2> DEFINE w == [kind |-> "ability", event |-> happened + 1, to |-> lifecycleListeners]
  <2>1. /\ w \in Listeners!Works
        /\ w.kind = "ability"
        /\ w.event = happened + 1
        /\ w.to = lifecycleListeners
    BY <1>0, <1>1 DEF Listeners!DispatchOnAbility, Listeners!Works, ListenersInv, Listeners!TypeOK
  <2>2. works' = works \cup {w} /\ lifecycleListeners \in SUBSET Listeners!Registrations
    BY <1>1 DEF Listeners!DispatchOnAbility, ListenersInv, Listeners!TypeOK
  <2> HIDE DEF w
  <2>3. {w} \in SUBSET Listeners!Works /\ Leaves(lifecycleListeners, {w})
    BY <2>1 DEF Leaves
  <2> QED BY <1>1, <2>1, <2>2, <2>3, HappenStep DEF Listeners!DispatchOnAbility
<1>2. CASE Listeners!NotifyApplication
  <2> DEFINE To(o) == IF o = object THEN Listeners!Numbers(stateListeners) ELSE {}
             W(o) == [kind |-> "state", object |-> o, event |-> happened + 1, to |-> To(o)]
             new == {W(o) : o \in registered}
  <2>1. Listeners!Numbers(stateListeners) \in SUBSET Listeners!Registrations
    BY DEF ListenersInv, Listeners!TypeOK, Listeners!References, Listeners!Numbers
  <2>2. \A o \in registered : W(o) \in Listeners!Works
    <3>1. TAKE o \in registered
    <3>2. o \in Nat
      BY DEF ListenersInv, Listeners!TypeOK
    <3>3. To(o) \in SUBSET Listeners!Registrations
      BY <2>1
    <3> QED BY <1>0, <1>2, <3>2, <3>3 DEF Listeners!NotifyApplication, Listeners!Works
  <2>3. works' = works \cup new /\ new \in SUBSET Listeners!Works
    BY <1>2, <2>2 DEF Listeners!NotifyApplication
  <2>4. \A x \in new : \E o \in registered :
            x.kind = "state" /\ x.object = o /\ x.event = happened + 1 /\ x.to = To(o) /\ x = W(o)
    OBVIOUS
  <2>5. \A x \in new : \A r \in x.to : x = W(object) /\ r \in Listeners!Numbers(stateListeners)
            /\ x.object = object
    BY <2>4
  <2>6. \A r \in Listeners!Numbers(stateListeners) : W(object) \in new /\ r \in W(object).to
    BY DEF ListenersInv, ObjectHeld, Listeners!Numbers
  <2>7. \A x \in new : x.kind # "off" /\ x.event = happened + 1
            /\ x.to \subseteq Listeners!Numbers(stateListeners)
    BY <2>4
  <2>8. \A r \in Listeners!Numbers(stateListeners) : \E x \in new : r \in x.to
    BY <2>6
  <2>9. \A v, x \in new : \A r \in v.to \cap x.to : v = x
    BY <2>5
  <2>10. /\ happened < MaxHappenings /\ happened' = happened + 1
         /\ there' = [there EXCEPT ![happened + 1] = Listeners!Numbers(stateListeners)]
         /\ UNCHANGED <<Listeners!listenerVars, removed, told, failing>>
    BY <1>2 DEF Listeners!NotifyApplication
  <2>11. \A x \in new : x.kind = "state" => \A r \in x.to :
             r \in Listeners!Numbers(stateListeners) /\ x.object = object
    BY <2>5
  <2> HIDE DEF new, W, To
  <2>12. Leaves(Listeners!Numbers(stateListeners), new)
    BY <2>7, <2>8, <2>9, <2>11 DEF Leaves
  <2> QED BY <2>1, <2>3, <2>10, <2>12, HappenStep
<1> QED BY <1>1, <1>2

\* A work item runs and tells those of `reached`; `bad` are why it does not tell the others.
Explained(w, reached, bad) ==
    \A r \in w.to \ reached : \E q \in bad :
        q = r \/ (w.kind = "ability" /\ q < r) \/ (w.kind = "state" /\ q \in reached)

LEMMA TellStep ==
    ASSUME ListenersAssumption, ListenersInv, NEW w \in works, works' = works \ {w},
           w.kind # "off", NEW reached \in SUBSET w.to, NEW bad \in SUBSET w.to,
           Listeners!Tell(w, reached, bad), Explained(w, reached, bad),
           UNCHANGED <<Listeners!listenerVars, removed, there, happened>>
    PROVE  ListenersInv'
<1>1. /\ told \in [Listeners!Events \X Listeners!Registrations -> Nat]
      /\ failing \in [Listeners!Events -> SUBSET Listeners!Failures]
      /\ w.event \in Listeners!Events
      /\ w.to \in SUBSET Listeners!Registrations
      /\ w.kind \in {"ability", "state"}
  BY DEF ListenersInv, Listeners!TypeOK, Listeners!Works
<1>2. /\ told' \in [Listeners!Events \X Listeners!Registrations -> Nat]
      /\ \A e \in Listeners!Events, r \in Listeners!Registrations :
            told'[<<e, r>>] = IF e = w.event /\ r \in reached THEN told[<<e, r>>] + 1
                              ELSE told[<<e, r>>]
  BY <1>1 DEF Listeners!Tell
<1>3. /\ failing' \in [Listeners!Events -> SUBSET Listeners!Failures]
      /\ \A e \in Listeners!Events : failing[e] \subseteq failing'[e]
      /\ \A q \in bad : [kind |-> w.kind, number |-> q] \in failing'[w.event]
  <2> DEFINE more == [kind : {w.kind}, number : bad]
  <2>1. more \in SUBSET Listeners!Failures
    BY <1>1 DEF Listeners!Failures
  <2>2. \A q \in bad : [kind |-> w.kind, number |-> q] \in more
    OBVIOUS
  <2>3. failing' = [failing EXCEPT ![w.event] = failing[w.event] \cup more]
    BY DEF Listeners!Tell
  <2> HIDE DEF more
  <2> QED BY <1>1, <2>1, <2>2, <2>3
<1>4. Listeners!TypeOK'
  BY <1>2, <1>3 DEF ListenersInv, Listeners!TypeOK, Listeners!listenerVars
<1>5. NumbersOK' /\ ObjectHeld'
  BY DEF ListenersInv, NumbersOK, ObjectHeld, Listeners!listenerVars
<1>6. \A v, e, r : OnWay(v, e, r)' <=> OnWay(v, e, r) /\ v # w
  BY DEF OnWay
<1>7. WorksOK'
  BY <1>6 DEF ListenersInv, WorksOK, Listeners!listenerVars, Listeners!Numbers
\* Nobody whom the work item is for has been told, and those it reaches are, once.
<1>8. \A r \in w.to : told[<<w.event, r>>] = 0
  <2>1. TAKE r \in w.to
  <2>2. OnWay(w, w.event, r) /\ r \in Listeners!Registrations
    BY <1>1 DEF OnWay
  <2>3. told[<<w.event, r>>] <= 1 /\ told[<<w.event, r>>] # 1
    BY <1>1, <2>2 DEF ListenersInv, TellingOK
  <2>4. told[<<w.event, r>>] \in Nat
    BY <1>1, <2>2
  <2> QED BY <2>3, <2>4
<1>9. \A r \in w.to : told'[<<w.event, r>>] = IF r \in reached THEN 1 ELSE 0
  BY <1>1, <1>2, <1>8
<1>10. \A r \in w.to \ reached : Listeners!Silenced(w.event, r)'
  <2>1. TAKE r \in w.to \ reached
  <2>2. PICK q \in bad :
            q = r \/ (w.kind = "ability" /\ q < r) \/ (w.kind = "state" /\ q \in reached)
    BY DEF Explained
  <2> DEFINE x == [kind |-> w.kind, number |-> q]
  <2>3. x \in failing'[w.event] /\ x.kind = w.kind /\ x.number = q
    BY <1>3
  <2>4. q \in reached => told'[<<w.event, q>>] = 1
    BY <1>9
  <2> HIDE DEF x
  <2> QED BY <2>2, <2>3, <2>4 DEF Listeners!Silenced
<1>11. TellingOK'
  <2> SUFFICES ASSUME NEW e \in Listeners!Events, NEW r \in Listeners!Registrations
               PROVE  /\ told'[<<e, r>>] <= 1
                      /\ told'[<<e, r>>] = 1 => r \in there[e] /\ \A v : ~OnWay(v, e, r)'
                      /\ r \in there[e] \ removed =>
                            \/ told'[<<e, r>>] = 1 \/ Listeners!Silenced(e, r)'
                            \/ \E v : OnWay(v, e, r)'
    BY DEF TellingOK
  <2>1. CASE OnWay(w, e, r)
    <3>1. e = w.event /\ r \in w.to
      BY <2>1 DEF OnWay
    <3>2. \A v : ~OnWay(v, e, r)'
      BY <2>1, <1>6 DEF ListenersInv, WorksOK
    <3>3. r \in there[e]
      BY <2>1 DEF ListenersInv, WorksOK, OnWay
    <3> QED BY <3>1, <3>2, <3>3, <1>9, <1>10
  <2>2. CASE ~OnWay(w, e, r)
    <3>1. told'[<<e, r>>] = told[<<e, r>>]
      BY <2>2, <1>2 DEF OnWay
    <3>2. \A v : OnWay(v, e, r)' <=> OnWay(v, e, r)
      BY <2>2, <1>6
    <3>3. Listeners!Silenced(e, r) => Listeners!Silenced(e, r)'
      <4>1. SUFFICES ASSUME NEW x \in failing[e], x.kind = "state", told[<<e, x.number>>] = 1
                     PROVE  told'[<<e, x.number>>] = 1
        BY <1>3 DEF Listeners!Silenced
      <4>2. x.number \in Listeners!Registrations
        BY <1>1 DEF Listeners!Failures
      <4>3. ~(e = w.event /\ x.number \in reached)
        BY <4>1, <1>8
      <4> QED BY <1>2, <4>1, <4>2, <4>3
    <3> QED BY <3>1, <3>2, <3>3 DEF ListenersInv, TellingOK
  <2> QED BY <2>1, <2>2
<1> QED BY <1>4, <1>5, <1>7, <1>11 DEF ListenersInv

\* A work item runs in vain: its object has gone, and with it those it was for.
LEMMA VainStep ==
    ASSUME ListenersAssumption, ListenersInv, NEW w \in works, works' = works \ {w},
           w.kind = "state",
           w.object \notin registered \cup {object},
           UNCHANGED <<Listeners!listenerVars, removed, there, happened, told, failing>>
    PROVE  ListenersInv'
<1>1. Listeners!TypeOK' /\ NumbersOK' /\ ObjectHeld'
  BY DEF ListenersInv, Listeners!TypeOK, NumbersOK, ObjectHeld, Listeners!listenerVars
<1>2. \A v, e, r : OnWay(v, e, r)' <=> OnWay(v, e, r) /\ v # w
  BY DEF OnWay
<1>3. WorksOK'
  BY <1>2 DEF ListenersInv, WorksOK, Listeners!listenerVars, Listeners!Numbers
<1>4. \A e, r : OnWay(w, e, r) => r \in removed
  BY DEF OnWay, ListenersInv, WorksOK
<1>5. TellingOK'
  BY <1>2, <1>4, NobodyTold DEF ListenersInv
<1> QED BY <1>1, <1>3, <1>5 DEF ListenersInv

\* A removal that was left to a work item.
LEMMA RemovalStep ==
    ASSUME ListenersAssumption, ListenersInv, NEW w \in works, works' = works \ {w},
           Listeners!RunOffWork(w)
    PROVE  ListenersInv'
<1> USE DEF Listeners!eventVars
<1>1. w.number \in Listeners!Registrations
  BY DEF Listeners!RunOffWork, ListenersInv, Listeners!TypeOK, Listeners!Works
<1>2. /\ lifecycleListeners' \subseteq lifecycleListeners /\ removed \subseteq removed'
      /\ removed' \in SUBSET Listeners!Registrations
      /\ UNCHANGED <<serialNumber, object, objects, registered, stateListeners,
                     Listeners!eventVars>>
  BY <1>1 DEF Listeners!RunOffWork, ListenersInv, Listeners!TypeOK
<1>3. Listeners!TypeOK' /\ NumbersOK' /\ ObjectHeld'
  BY <1>2 DEF ListenersInv, Listeners!TypeOK, NumbersOK, ObjectHeld
<1>4. \A v, e, r : OnWay(v, e, r)' <=> OnWay(v, e, r)
  BY DEF OnWay, Listeners!RunOffWork
<1>5. WorksOK'
  BY <1>2, <1>4 DEF ListenersInv, WorksOK, Listeners!Numbers
<1>6. TellingOK'
  <2>1. told' = told /\ there' = there /\ failing' = failing
    BY <1>2
  <2> QED BY <1>2, <1>4, <2>1, NobodyTold DEF ListenersInv
<1> QED BY <1>3, <1>5, <1>6 DEF ListenersInv

LEMMA ContextWorkStep == ASSUME ListenersAssumption, ListenersInv, Listeners!RunWork
                         PROVE  ListenersInv'
<1>1. PICK w \in works : works' = works \ {w}
               /\ (Listeners!RunAbilityWork(w) \/ Listeners!RunStateWork(w) \/ Listeners!RunOffWork(w))
  BY DEF Listeners!RunWork
<1>2. CASE Listeners!RunAbilityWork(w)
  <2>0. /\ w.kind = "ability" /\ works' = works \ {w}
        /\ w.to \in SUBSET Nat
        /\ UNCHANGED <<Listeners!listenerVars, removed, there, happened>>
    BY <1>1, <1>2 DEF Listeners!RunAbilityWork, ListenersInv, Listeners!TypeOK, Listeners!Works,
                      Listeners!Registrations
  <2>1. CASE Listeners!Tell(w, w.to, {})
    <3>1. Explained(w, w.to, {})
      BY DEF Explained
    <3> QED BY <2>0, <2>1, <3>1, TellStep
  <2>2. ASSUME NEW q \in w.to, Listeners!Tell(w, {n \in w.to : n < q}, {q}) PROVE ListenersInv'
    <3>1. Explained(w, {n \in w.to : n < q}, {q})
      BY <2>0 DEF Explained
    <3> QED BY <2>0, <2>2, <3>1, TellStep
  <2>3. ASSUME NEW q \in w.to, NEW next \in w.to, q < next,
               Listeners!Tell(w, {n \in w.to : n <= q}, {q})
        PROVE  ListenersInv'
    <3>1. Explained(w, {n \in w.to : n <= q}, {q})
      BY <2>0 DEF Explained
    <3> QED BY <2>0, <2>3, <3>1, TellStep
  <2> QED BY <1>2, <2>1, <2>2, <2>3 DEF Listeners!RunAbilityWork
<1>3. CASE Listeners!RunStateWork(w)
  <2>0. /\ w.kind = "state" /\ works' = works \ {w}
        /\ UNCHANGED <<Listeners!listenerVars, removed, there, happened>>
    BY <1>1, <1>3 DEF Listeners!RunStateWork
  <2>1. CASE w.object \in registered \cup {object}
    <3>1. PICK reached \in SUBSET w.to :
              \/ Listeners!Tell(w, reached, w.to \ reached)
              \/ reached # w.to /\ \E q \in reached : Listeners!Tell(w, reached, {q})
      BY <1>3, <2>1 DEF Listeners!RunStateWork
    <3>2. Explained(w, reached, w.to \ reached)
      BY DEF Explained
    <3>3. \A q \in reached : Explained(w, reached, {q})
      BY <2>0 DEF Explained
    <3> QED BY <2>0, <3>1, <3>2, <3>3, TellStep
  <2>2. CASE w.object \notin registered \cup {object}
    BY <1>1, <1>3, <2>2, VainStep DEF Listeners!RunStateWork
  <2> QED BY <2>1, <2>2
<1>4. CASE Listeners!RunOffWork(w)
  BY <1>1, <1>4, RemovalStep
<1> QED BY <1>1, <1>2, <1>3, <1>4

LEMMA ListenersInvariance == ASSUME ListenersAssumption PROVE Listeners!Spec => []ListenersInv
<1>1. Listeners!Init => ListenersInv
  <2> SUFFICES ASSUME Listeners!Init PROVE ListenersInv
    OBVIOUS
  <2>1. Listeners!TypeOK
    BY DEF Listeners!Init, Listeners!TypeOK, ListenersAssumption, Listeners!Events,
           Listeners!Registrations, Listeners!Works, Listeners!References, Listeners!Failures
  <2>2. NumbersOK /\ ObjectHeld /\ WorksOK
    BY DEF Listeners!Init, NumbersOK, ObjectHeld, WorksOK, OnWay, Listeners!Events
  <2>3. TellingOK
    BY DEF Listeners!Init, TellingOK, OnWay
  <2> QED BY <2>1, <2>2, <2>3 DEF ListenersInv
<1>2. ListenersInv /\ [Listeners!Next]_(Listeners!vars) => ListenersInv'
  <2> SUFFICES ASSUME ListenersInv, [Listeners!Next]_(Listeners!vars) PROVE ListenersInv'
    OBVIOUS
  <2>1. CASE UNCHANGED Listeners!vars
    <3>1. Listeners!TypeOK' /\ NumbersOK' /\ ObjectHeld' /\ WorksOK'
      BY <2>1 DEF Listeners!vars, ListenersInv, Listeners!TypeOK, NumbersOK, ObjectHeld, WorksOK,
                  OnWay, Listeners!Numbers
    <3>2. \A w, e, r : OnWay(w, e, r)' <=> OnWay(w, e, r)
      BY <2>1 DEF Listeners!vars, OnWay
    <3>3. told' = told /\ there' = there /\ failing' = failing /\ removed' = removed
      BY <2>1 DEF Listeners!vars
    <3>4. TellingOK'
      BY <3>2, <3>3, NobodyTold DEF ListenersInv
    <3> QED BY <3>1, <3>4 DEF ListenersInv
  <2>2. CASE Listeners!Next
    BY <2>2, OnAbilityStep, OffAbilityStep, OnStateStep, OffStateStep, EventStep, ContextWorkStep
       DEF Listeners!Next
  <2> QED BY <2>1, <2>2
<1> QED BY <1>1, <1>2, PTL DEF Listeners!Spec

LEMMA ContextTells == ASSUME ListenersAssumption
                      PROVE  Listeners!Spec => [](Listeners!TypeOK /\ Listeners!ListenersTold)
<1>1. ListenersInv => Listeners!TypeOK /\ Listeners!ListenersTold
  BY WhoIsThereIsTold DEF ListenersInv
<1> QED BY <1>1, ListenersInvariance, PTL

-------------------------------------------------------------------------------
(* WindowListeners, for any windows, managers and functions. *)

\* What is assumed of the constants: every window has a manager.
WindowsAssumption ==
    /\ MaxWindowListeners \in Nat /\ MaxWindowEvents \in Nat
    /\ EventWindows # {}
    /\ WindowFunctions # {}
    /\ EventManagerOf \in [EventWindows -> EventManagers]

\* A listener belongs to its window, and to the manager of that; both have only such as were made.
Belongs ==
    /\ \A w \in EventWindows : \A l \in attached[w] : windowOf[l] = w /\ l <= windowListeners
    /\ \A m \in EventManagers : \A l \in windowCbMap[m] : EventManagerOf[windowOf[l]] = m
           /\ l <= windowListeners

\* A manager has one listener for a function.
OneForEach ==
    \A m \in EventManagers : \A l, k \in windowCbMap[m] :
        windowFunction[l] = windowFunction[k] => l = k

\* A window whose calls did not meet those of another keeps what its manager has on record
\* for it, and that is what was asked for.
Agrees(w) ==
    /\ \A l \in WindowEvents!Listeners : l \in attached[w]
           <=> l \in windowCbMap[EventManagerOf[w]] /\ windowOf[l] = w
    /\ \A f \in WindowFunctions : f \in asked[w] <=> \E l \in attached[w] : windowFunction[l] = f

WindowsInv ==
    /\ WindowEvents!TypeOK /\ Belongs /\ OneForEach /\ WindowEvents!NoStrays
    /\ \A w \in open \ mixed : Agrees(w)

\* A set and its image under a function that tells its elements apart have the same size.
LEMMA SameSize ==
    ASSUME NEW S, IsFiniteSet(S), NEW f, \A x, y \in S : f[x] = f[y] => x = y
    PROVE  Cardinality({f[x] : x \in S}) = Cardinality(S)
<1> DEFINE T == {f[x] : x \in S}
           g == [x \in S |-> f[x]]
<1>1. g \in Bijection(S, T)
  <2>1. g \in [S -> T] /\ \A t \in T : \E x \in S : g[x] = t
    OBVIOUS
  <2>2. \A x, y \in S : g[x] = g[y] => x = y
    OBVIOUS
  <2> HIDE DEF g, T
  <2>3. g \in Injection(S, T)
    BY <2>1, <2>2 DEF Injection, IsInjective
  <2>4. g \in Surjection(S, T)
    BY <2>1 DEF Surjection
  <2> QED BY <2>3, <2>4 DEF Bijection
<1>2. ExistsBijection(S, T)
  BY <1>1 DEF ExistsBijection
<1> QED BY <1>2, FS_Bijection

\* The instance counts as its module does.
LEMMA SameCardinality == \A S : WindowEvents!Cardinality(S) = Cardinality(S)
BY DEF WindowEvents!Cardinality, Cardinality

LEMMA WindowsHold == ASSUME WindowsAssumption, WindowsInv PROVE WindowEvents!AttachedAsAsked
<1> SUFFICES ASSUME NEW w \in open \ mixed
             PROVE  /\ {windowFunction[l] : l \in attached[w]} = asked[w]
                    /\ Cardinality(attached[w]) = Cardinality(asked[w])
  BY SameCardinality DEF WindowEvents!AttachedAsAsked
<1>1. /\ w \in EventWindows
      /\ attached[w] \subseteq WindowEvents!Listeners
      /\ asked[w] \subseteq WindowFunctions
      /\ \A l \in WindowEvents!Listeners : windowFunction[l] \in WindowFunctions
  BY DEF WindowsInv, WindowEvents!TypeOK
<1>2. Agrees(w)
  BY DEF WindowsInv
<1>3. {windowFunction[l] : l \in attached[w]} = asked[w]
  BY <1>1, <1>2 DEF Agrees
<1>4. \A l, k \in attached[w] : windowFunction[l] = windowFunction[k] => l = k
  BY <1>1, <1>2 DEF Agrees, WindowsInv, OneForEach, WindowsAssumption
<1>5. IsFiniteSet(attached[w])
  <2>1. IsFiniteSet(WindowEvents!Listeners)
    BY FS_Interval DEF WindowEvents!Listeners, WindowsAssumption
  <2> QED BY <1>1, <2>1, FS_Subset
<1>6. Cardinality({windowFunction[l] : l \in attached[w]}) = Cardinality(attached[w])
  BY <1>4, <1>5, SameSize
<1> QED BY <1>3, <1>6

LEMMA OnAgainStep ==
    ASSUME WindowsAssumption, WindowsInv, NEW w \in EventWindows, NEW f \in WindowFunctions,
           WindowEvents!On(w, f)
    PROVE  WindowsInv'
<1> USE DEF WindowEvents!On
<1>1. WindowEvents!TypeOK'
  BY DEF WindowsInv, WindowEvents!TypeOK
<1>2. Belongs' /\ OneForEach' /\ WindowEvents!NoStrays'
  BY DEF WindowsInv, Belongs, OneForEach, WindowEvents!NoStrays
<1>3. ASSUME NEW v \in open \ mixed' PROVE Agrees(v)'
  <2>1. Agrees(v) /\ v \in EventWindows
    BY DEF WindowsInv, WindowEvents!TypeOK
  <2>2. CASE v # w
    <3>1. asked'[v] = asked[v]
      BY <2>1, <2>2 DEF WindowsInv, WindowEvents!TypeOK
    <3> QED BY <2>1, <3>1 DEF Agrees
  <2>3. CASE v = w
    <3>1. asked'[w] = asked[w] \cup {f}
      BY DEF WindowsInv, WindowEvents!TypeOK
    <3>2. PICK l \in WindowEvents!Recorded(w, f) : windowOf[l] = w
      BY <2>3 DEF WindowEvents!IsCallbackRegistered
    <3>3. /\ l \in WindowEvents!Listeners
          /\ l \in windowCbMap[EventManagerOf[w]]
          /\ windowFunction[l] = f
      BY <3>2 DEF WindowEvents!Recorded, WindowsInv, WindowEvents!TypeOK, WindowsAssumption
    <3>4. l \in attached[w]
      BY <2>1, <2>3, <3>2, <3>3 DEF Agrees
    <3> QED BY <2>1, <2>3, <3>1, <3>3, <3>4 DEF Agrees
  <2> QED BY <2>2, <2>3
<1> QED BY <1>1, <1>2, <1>3 DEF WindowsInv

LEMMA OnWindowStep ==
    ASSUME WindowsAssumption, WindowsInv, NEW w \in EventWindows, NEW f \in WindowFunctions,
           WindowEvents!OnNew(w, f)
    PROVE  WindowsInv'
<1> DEFINE l == windowListeners + 1
           m == EventManagerOf[w]
<1>1. /\ windowListeners \in Nat
      /\ l \in Nat
      /\ l \in WindowEvents!Listeners
      /\ windowListeners' = l
      /\ m \in EventManagers
      /\ ~(l <= windowListeners)
  BY DEF WindowEvents!OnNew, WindowsInv, WindowEvents!TypeOK, WindowEvents!Listeners,
         WindowsAssumption
<1>2. /\ windowOf' \in [WindowEvents!Listeners -> EventWindows] /\ windowOf'[l] = w
      /\ windowFunction' \in [WindowEvents!Listeners -> WindowFunctions] /\ windowFunction'[l] = f
      /\ \A k \in WindowEvents!Listeners : k # l => windowOf'[k] = windowOf[k]
             /\ windowFunction'[k] = windowFunction[k]
  BY <1>1 DEF WindowEvents!OnNew, WindowsInv, WindowEvents!TypeOK
<1>3. UNCHANGED <<open, state_, windowEvents, windowWorkItems, mixed, strays>>
  BY DEF WindowEvents!OnNew
<1>4. /\ \A v \in EventWindows : attached[v] \subseteq WindowEvents!Listeners
             /\ l \notin attached[v]
      /\ \A n \in EventManagers : windowCbMap[n] \subseteq WindowEvents!Listeners
             /\ l \notin windowCbMap[n]
  BY <1>1 DEF WindowsInv, WindowEvents!TypeOK, Belongs
<1>5. \A k \in WindowEvents!Listeners : k <= windowListeners => k <= windowListeners'
  BY <1>1 DEF WindowEvents!Listeners
<1>6. CASE UNCHANGED <<attached, windowCbMap, asked>>
  <2>1. WindowEvents!TypeOK'
    BY <1>1, <1>2, <1>3, <1>6 DEF WindowsInv, WindowEvents!TypeOK, WindowEvents!Listeners
  <2>2. Belongs' /\ OneForEach' /\ WindowEvents!NoStrays'
    BY <1>2, <1>3, <1>4, <1>5, <1>6 DEF WindowsInv, Belongs, OneForEach, WindowEvents!NoStrays
  <2>3. ASSUME NEW v \in open \ mixed PROVE Agrees(v)'
    <3>1. Agrees(v) /\ v \in EventWindows /\ EventManagerOf[v] \in EventManagers
      BY DEF WindowsInv, WindowEvents!TypeOK, WindowsAssumption
    <3> QED BY <3>1, <1>2, <1>3, <1>4, <1>6 DEF Agrees
  <2> QED BY <2>1, <2>2, <2>3, <1>3 DEF WindowsInv
<1>7. CASE /\ attached' = [attached EXCEPT ![w] = @ \cup {l}]
           /\ windowCbMap' = [windowCbMap EXCEPT ![EventManagerOf[w]] = @ \cup {l}]
           /\ asked' = [asked EXCEPT ![w] = @ \cup {f}]
  <2>1. /\ attached' \in [EventWindows -> SUBSET WindowEvents!Listeners]
        /\ attached'[w] = attached[w] \cup {l}
        /\ \A v \in EventWindows : v # w => attached'[v] = attached[v]
        /\ windowCbMap' \in [EventManagers -> SUBSET WindowEvents!Listeners]
        /\ windowCbMap'[m] = windowCbMap[m] \cup {l}
        /\ \A n \in EventManagers : n # m => windowCbMap'[n] = windowCbMap[n]
        /\ asked' \in [EventWindows -> SUBSET WindowFunctions] /\ asked'[w] = asked[w] \cup {f}
        /\ \A v \in EventWindows : v # w => asked'[v] = asked[v]
    BY <1>1, <1>7 DEF WindowsInv, WindowEvents!TypeOK
  <2> HIDE DEF l, m
  <2>2. WindowEvents!TypeOK'
    BY <1>1, <1>2, <1>3, <2>1 DEF WindowsInv, WindowEvents!TypeOK, WindowEvents!Listeners
  <2>3. Belongs'
    <3>1. l <= windowListeners'
      BY <1>1
    <3>2. ASSUME NEW v \in EventWindows, NEW k \in attached'[v]
          PROVE  windowOf'[k] = v /\ k <= windowListeners'
      BY <3>1, <3>2, <1>2, <1>4, <1>5, <2>1 DEF WindowsInv, Belongs
    <3>3. ASSUME NEW n \in EventManagers, NEW k \in windowCbMap'[n]
          PROVE  EventManagerOf[windowOf'[k]] = n /\ k <= windowListeners'
      BY <3>1, <3>3, <1>2, <1>4, <1>5, <2>1 DEF WindowsInv, Belongs, m
    <3> QED BY <3>2, <3>3 DEF Belongs
  <2>4. OneForEach'
    <3>1. \A k \in windowCbMap[m] : windowFunction[k] # f
      BY DEF WindowEvents!OnNew, WindowEvents!IsCallbackRegistered, WindowEvents!Recorded, m
    <3>2. ASSUME NEW n \in EventManagers, NEW j \in windowCbMap'[n], NEW k \in windowCbMap'[n],
                 windowFunction'[j] = windowFunction'[k]
          PROVE  j = k
      <4>1. CASE n # m
        BY <4>1, <3>2, <2>1, <1>2, <1>4 DEF WindowsInv, OneForEach
      <4>2. CASE n = m
        BY <4>2, <3>1, <3>2, <2>1, <1>1, <1>2, <1>4 DEF WindowsInv, OneForEach
      <4> QED BY <4>1, <4>2
    <3> QED BY <3>2 DEF OneForEach
  <2>5. ASSUME NEW v \in open \ mixed PROVE Agrees(v)'
    <3>1. Agrees(v) /\ v \in EventWindows /\ EventManagerOf[v] \in EventManagers
      BY DEF WindowsInv, WindowEvents!TypeOK, WindowsAssumption
    <3>2. CASE v # w
      <4>1. \A k \in WindowEvents!Listeners : k \in attached'[v]
                <=> k \in windowCbMap'[EventManagerOf[v]] /\ windowOf'[k] = v
        BY <3>1, <3>2, <1>2, <1>4, <2>1 DEF Agrees
      <4>2. \A g \in WindowFunctions : g \in asked'[v] <=> \E k \in attached'[v] :
                windowFunction'[k] = g
        BY <3>1, <3>2, <1>2, <1>4, <2>1 DEF Agrees
      <4> QED BY <4>1, <4>2 DEF Agrees
    <3>3. CASE v = w
      <4>1. \A k \in WindowEvents!Listeners : k \in attached'[w] <=> k \in windowCbMap'[m]
                /\ windowOf'[k] = w
        BY <3>1, <3>3, <1>2, <1>4, <2>1 DEF Agrees, m
      <4>2. \A g \in WindowFunctions : g \in asked'[w] <=> \E k \in attached'[w] :
                windowFunction'[k] = g
        BY <3>1, <3>3, <1>2, <1>4, <2>1 DEF Agrees
      <4> QED BY <3>3, <4>1, <4>2 DEF Agrees, m
    <3> QED BY <3>2, <3>3
  <2>6. WindowEvents!NoStrays'
    BY <1>3 DEF WindowsInv, WindowEvents!NoStrays
  <2> QED BY <2>2, <2>3, <2>4, <2>5, <2>6, <1>3 DEF WindowsInv
<1> QED BY <1>6, <1>7 DEF WindowEvents!OnNew

LEMMA OffWindowStep ==
    ASSUME WindowsAssumption, WindowsInv, NEW w \in EventWindows,
           NEW gone \in SUBSET windowCbMap[EventManagerOf[w]],
           WindowEvents!Forget(w, gone)
    PROVE  WindowsInv'
<1> DEFINE m == EventManagerOf[w]
<1>1. /\ m \in EventManagers
      /\ gone \subseteq WindowEvents!Listeners
      /\ gone \subseteq windowCbMap[m]
  BY DEF WindowsInv, WindowEvents!TypeOK, WindowsAssumption
<1>2. UNCHANGED <<open, windowOf, windowFunction, windowListeners, state_, windowEvents,
                  windowWorkItems, strays>>
  BY DEF WindowEvents!Forget
<1>3. /\ attached' \in [EventWindows -> SUBSET WindowEvents!Listeners]
      /\ attached'[w] = attached[w] \ gone
      /\ \A v \in EventWindows : v # w => attached'[v] = attached[v]
      /\ windowCbMap' \in [EventManagers -> SUBSET WindowEvents!Listeners]
      /\ windowCbMap'[m] = windowCbMap[m] \ gone
      /\ \A n \in EventManagers : n # m => windowCbMap'[n] = windowCbMap[n]
      /\ asked' \in [EventWindows -> SUBSET WindowFunctions]
      /\ asked'[w] = asked[w] \ {windowFunction[l] : l \in gone}
      /\ \A v \in EventWindows : v # w => asked'[v] = asked[v]
  BY <1>1 DEF WindowEvents!Forget, WindowsInv, WindowEvents!TypeOK
<1>4. mixed' = mixed \cup {windowOf[l] : l \in {k \in gone : windowOf[k] # w}}
  BY DEF WindowEvents!Forget
<1> HIDE DEF m
<1>5. WindowEvents!TypeOK'
  <2>1. mixed' \subseteq EventWindows
    BY <1>1, <1>4 DEF WindowsInv, WindowEvents!TypeOK
  <2> QED BY <1>2, <1>3, <2>1 DEF WindowsInv, WindowEvents!TypeOK
<1>6. /\ \A v \in EventWindows : attached'[v] \subseteq attached[v]
      /\ \A n \in EventManagers : windowCbMap'[n] \subseteq windowCbMap[n]
  BY <1>3
<1>7. Belongs' /\ OneForEach' /\ WindowEvents!NoStrays'
  BY <1>2, <1>4, <1>6 DEF WindowsInv, Belongs, OneForEach, WindowEvents!NoStrays
<1>8. ASSUME NEW v \in open \ mixed' PROVE Agrees(v)'
  <2>1. Agrees(v) /\ v \in EventWindows /\ EventManagerOf[v] \in EventManagers
    BY <1>4 DEF WindowsInv, WindowEvents!TypeOK, WindowsAssumption
  <2>2. CASE v # w
    <3>1. \A l \in gone : windowOf[l] # v
      BY <2>2, <1>4
    <3>2. \A l \in WindowEvents!Listeners : windowOf[l] = v =>
            (l \in windowCbMap'[EventManagerOf[v]] <=> l \in windowCbMap[EventManagerOf[v]])
      BY <3>1, <2>1, <1>3
    <3> QED BY <2>1, <2>2, <3>2, <1>2, <1>3 DEF Agrees
  <2>3. CASE v = w
    <3>1. \A l \in WindowEvents!Listeners : l \in attached'[w] <=> l \in windowCbMap'[m]
              /\ windowOf[l] = w
      BY <2>1, <2>3, <1>3 DEF Agrees, m
    <3>2. ASSUME NEW g \in WindowFunctions
          PROVE  g \in asked'[w] <=> \E l \in attached'[w] : windowFunction[l] = g
      <4>1. ASSUME g \in asked'[w] PROVE \E l \in attached'[w] : windowFunction[l] = g
        <5>1. PICK l \in attached[w] : windowFunction[l] = g
          BY <4>1, <2>1, <2>3, <1>3 DEF Agrees
        <5>2. l \notin gone
          BY <4>1, <5>1, <1>3
        <5> QED BY <5>1, <5>2, <1>3
      <4>2. ASSUME NEW l \in attached'[w], windowFunction[l] = g PROVE g \in asked'[w]
        <5>1. l \in attached[w] /\ l \notin gone /\ l \in WindowEvents!Listeners
          BY <4>2, <1>3
        <5>2. l \in windowCbMap[m] /\ g \in asked[w]
          BY <4>2, <5>1, <2>1, <2>3 DEF Agrees, m
        <5>3. \A k \in gone : windowFunction[k] # g
          BY <4>2, <5>1, <5>2, <1>1 DEF WindowsInv, OneForEach
        <5> QED BY <5>2, <5>3, <1>3
      <4> QED BY <4>1, <4>2
    <3> QED BY <2>3, <3>1, <3>2, <1>2 DEF Agrees, m
  <2> QED BY <2>2, <2>3
<1> QED BY <1>2, <1>5, <1>7, <1>8 DEF WindowsInv

LEMMA WindowWorkStep == ASSUME WindowsAssumption, WindowsInv, WindowEvents!RunWork
                        PROVE  WindowsInv'
<1>1. PICK work \in windowWorkItems :
        /\ windowWorkItems' = windowWorkItems \ {work}
        /\ strays' = strays \cup {w \in {windowOf[work.listener]} :
                        w \in open /\ WindowEvents!Alive(work.listener)
                            /\ windowFunction[work.listener] \notin asked[w]}
        /\ UNCHANGED <<open, windowOf, windowFunction, windowListeners, windowCbMap, attached,
                       state_, windowEvents, asked, mixed>>
  BY DEF WindowEvents!RunWork
<1> DEFINE l == work.listener
           w == windowOf[l]
<1>2. l \in WindowEvents!Listeners /\ w \in EventWindows /\ windowFunction[l] \in WindowFunctions
  BY DEF WindowsInv, WindowEvents!TypeOK
<1> HIDE DEF l, w
<1>3. ASSUME w \in open \ mixed, WindowEvents!Alive(l) PROVE windowFunction[l] \in asked[w]
  <2>1. Agrees(w)
    BY <1>3 DEF WindowsInv
  <2>3. w = windowOf[l]
    BY DEF w
  <2>2. l \in attached[w]
    <3>1. CASE \E v \in EventWindows : l \in attached[v]
      BY <3>1, <2>3 DEF WindowsInv, Belongs
    <3>2. CASE \E n \in EventManagers : l \in windowCbMap[n]
      BY <3>2, <2>1, <2>3, <1>2 DEF WindowsInv, Belongs, Agrees
    <3>3. (\E v \in EventWindows : l \in attached[v]) \/ (\E n \in EventManagers :
              l \in windowCbMap[n])
      BY <1>3 DEF WindowEvents!Alive
    <3> QED BY <3>1, <3>2, <3>3
  <2> QED BY <2>1, <2>2, <1>2 DEF Agrees
<1>4. strays' \subseteq mixed
  BY <1>1, <1>3 DEF l, w,  WindowsInv, WindowEvents!NoStrays
<1>5. WindowEvents!TypeOK' /\ Belongs' /\ OneForEach' /\ WindowEvents!NoStrays'
  BY <1>1, <1>4 DEF WindowsInv, WindowEvents!TypeOK, Belongs, OneForEach, WindowEvents!NoStrays
<1>6. ASSUME NEW v \in open \ mixed PROVE Agrees(v)'
  BY <1>1 DEF WindowsInv, Agrees
<1> QED BY <1>1, <1>5, <1>6 DEF WindowsInv

LEMMA WindowEventStep ==
    ASSUME WindowsAssumption, WindowsInv, NEW w \in EventWindows,
           NEW e \in WindowEvents!WindowEvents, WindowEvents!Happen(w, e)
    PROVE  WindowsInv'
<1> DEFINE news == {l \in attached[w] : state_[l] # WindowEvents!StateAfter(e)}
<1>1. /\ windowEvents' = windowEvents + 1 /\ windowEvents < MaxWindowEvents
      /\ state_' = [l \in WindowEvents!Listeners |-> IF l \in news
             THEN WindowEvents!StateAfter(e) ELSE state_[l]]
      /\ windowWorkItems' = windowWorkItems \cup {[listener |-> l, event |-> windowEvents'] :
             l \in news}
      /\ UNCHANGED <<open, windowOf, windowFunction, windowListeners, windowCbMap, attached,
                     asked, mixed, strays>>
  BY DEF WindowEvents!Happen
<1>2. /\ windowEvents' \in 0 .. MaxWindowEvents
      /\ windowEvents' \in 1 .. MaxWindowEvents
      /\ news \subseteq WindowEvents!Listeners
  BY <1>1 DEF WindowsInv, WindowEvents!TypeOK, WindowsAssumption
<1>3. WindowEvents!StateAfter(e) \in {"initial", "shown", "hidden"}
  BY DEF WindowEvents!StateAfter
<1> HIDE DEF news
<1>4. state_' \in [WindowEvents!Listeners -> {"initial", "shown", "hidden"}]
  BY <1>1, <1>3 DEF WindowsInv, WindowEvents!TypeOK
<1>5. windowWorkItems' \subseteq [listener : WindowEvents!Listeners, event : 1 .. MaxWindowEvents]
  BY <1>1, <1>2 DEF WindowsInv, WindowEvents!TypeOK
<1>6. WindowEvents!TypeOK'
  BY <1>1, <1>2, <1>4, <1>5 DEF WindowsInv, WindowEvents!TypeOK
<1>7. Belongs' /\ OneForEach' /\ WindowEvents!NoStrays'
  BY <1>1 DEF WindowsInv, Belongs, OneForEach, WindowEvents!NoStrays
<1>8. ASSUME NEW v \in open \ mixed PROVE Agrees(v)'
  BY <1>1 DEF WindowsInv, Agrees
<1> QED BY <1>1, <1>6, <1>7, <1>8 DEF WindowsInv

LEMMA CloseWindowStep ==
    ASSUME WindowsAssumption, WindowsInv, NEW w \in EventWindows, WindowEvents!Close(w)
    PROVE  WindowsInv'
<1>1. /\ attached' \in [EventWindows -> SUBSET WindowEvents!Listeners] /\ attached'[w] = {}
      /\ \A v \in EventWindows : v # w => attached'[v] = attached[v]
      /\ open' = open \ {w}
      /\ UNCHANGED <<windowOf, windowFunction, windowListeners, windowCbMap, state_, windowEvents,
                     windowWorkItems, asked, mixed, strays>>
  BY DEF WindowEvents!Close, WindowsInv, WindowEvents!TypeOK
<1>2. WindowEvents!TypeOK' /\ Belongs' /\ OneForEach' /\ WindowEvents!NoStrays'
  BY <1>1 DEF WindowsInv, WindowEvents!TypeOK, Belongs, OneForEach, WindowEvents!NoStrays
<1>3. ASSUME NEW v \in open' \ mixed PROVE Agrees(v)'
  <2>1. v \in EventWindows /\ Agrees(v) /\ attached'[v] = attached[v]
    BY <1>1 DEF WindowsInv, WindowEvents!TypeOK
  <2> QED BY <1>1, <2>1 DEF Agrees
<1> QED BY <1>1, <1>2, <1>3 DEF WindowsInv

LEMMA WindowsInvariance == ASSUME WindowsAssumption PROVE WindowEvents!Spec => []WindowsInv
<1>1. WindowEvents!Init => WindowsInv
  <2> SUFFICES ASSUME WindowEvents!Init PROVE WindowsInv
    OBVIOUS
  <2>1. /\ (CHOOSE w \in EventWindows : TRUE) \in EventWindows
        /\ (CHOOSE f \in WindowFunctions : TRUE) \in WindowFunctions
    BY DEF WindowsAssumption
  <2>2. WindowEvents!TypeOK
    BY <2>1 DEF WindowEvents!Init, WindowEvents!TypeOK, WindowsAssumption
  <2>3. Belongs /\ OneForEach /\ WindowEvents!NoStrays
    BY DEF WindowEvents!Init, Belongs, OneForEach, WindowEvents!NoStrays
  <2>4. ASSUME NEW w \in open \ mixed PROVE Agrees(w)
    BY DEF WindowEvents!Init, Agrees, WindowsAssumption
  <2> QED BY <2>2, <2>3, <2>4 DEF WindowsInv
<1>2. WindowsInv /\ [WindowEvents!Next]_(WindowEvents!vars) => WindowsInv'
  <2> SUFFICES ASSUME WindowsInv, [WindowEvents!Next]_(WindowEvents!vars)
               PROVE  WindowsInv'
    OBVIOUS
  <2>1. CASE UNCHANGED WindowEvents!vars
    BY <2>1 DEF WindowEvents!vars, WindowsInv, WindowEvents!TypeOK, Belongs, OneForEach,
                WindowEvents!NoStrays, Agrees
  <2>2. CASE WindowEvents!Next
    <3>1. CASE \E w \in EventWindows, f \in WindowFunctions :
                   WindowEvents!On(w, f) \/ WindowEvents!OnNew(w, f)
      BY <3>1, OnAgainStep, OnWindowStep
    <3>2. CASE \E w \in EventWindows, f \in WindowFunctions : WindowEvents!Off(w, f)
      <4>1. PICK w \in EventWindows, f \in WindowFunctions : WindowEvents!Off(w, f)
        BY <3>2
      <4>2. PICK l \in WindowEvents!Recorded(w, f) : WindowEvents!Forget(w, {l})
        BY <4>1 DEF WindowEvents!Off
      <4>3. {l} \in SUBSET windowCbMap[EventManagerOf[w]]
        BY <4>2 DEF WindowEvents!Recorded
      <4> QED BY <4>2, <4>3, OffWindowStep
    <3>3. CASE \E w \in EventWindows : WindowEvents!OffAll(w)
      BY <3>3, OffWindowStep DEF WindowEvents!OffAll
    <3>4. CASE \E w \in EventWindows :
                   WindowEvents!Close(w) \/ \E e \in WindowEvents!WindowEvents :
                       WindowEvents!Happen(w, e)
      BY <3>4, CloseWindowStep, WindowEventStep
    <3>5. CASE WindowEvents!RunWork
      BY <3>5, WindowWorkStep
    <3> QED BY <2>2, <3>1, <3>2, <3>3, <3>4, <3>5 DEF WindowEvents!Next
  <2> QED BY <2>1, <2>2
<1> QED BY <1>1, <1>2, PTL DEF WindowEvents!Spec

LEMMA WindowsAttach ==
    ASSUME WindowsAssumption
    PROVE  WindowEvents!Spec => [](WindowEvents!TypeOK /\ WindowEvents!AttachedAsAsked
               /\ WindowEvents!NoStrays)
<1>1. WindowsInv => WindowEvents!TypeOK /\ WindowEvents!AttachedAsAsked /\ WindowEvents!NoStrays
  BY WindowsHold DEF WindowsInv
<1> QED BY <1>1, WindowsInvariance, PTL

-------------------------------------------------------------------------------
(* DisplayListeners, for any types and functions. *)

\* What is assumed of the constants.
DisplaysAssumption ==
    MaxDisplayListeners \in Nat /\ MaxDisplayEvents \in Nat /\ DisplayTypes # {}
        /\ DisplayFunctions # {}

\* Listeners on record are those that were made and have their function.
OnRecord == callbacks = displayCbMap /\ \A l \in displayCbMap : l <= displayListeners

\* What is due, or told of, is for a listener that was made; what is due is for its type.
DueOK ==
    /\ \A note \in due :
            note.listener <= displayListeners /\ displayType[note.listener] = note.type
    /\ \A k \in Displays!Kept : \A l \in kept[k] : l <= displayListeners

DisplaysInv == Displays!TypeOK /\ OnRecord /\ DueOK /\ Displays!DisplaysHold

LEMMA DisplayFacts ==
    ASSUME DisplaysAssumption
    PROVE  /\ Displays!Listeners \subseteq Nat \ {0}
                  /\ Displays!NoListener \notin Displays!Listeners
           /\ \A l \in Displays!Listeners : l <= MaxDisplayListeners
BY DEF Displays!Listeners, Displays!NoListener, DisplaysAssumption

\* A function is registered for a type.
LEMMA OnDisplayStep ==
    ASSUME DisplaysAssumption, DisplaysInv, NEW t \in DisplayTypes, NEW f \in DisplayFunctions,
           Displays!On(t, f)
    PROVE  DisplaysInv'
<1> DEFINE l == displayListeners + 1
<1>1. /\ displayListeners \in Nat
      /\ l \in Nat
      /\ l \in Displays!Listeners
      /\ displayListeners' = l
      /\ ~(l <= displayListeners)
      /\ \A x \in Displays!Listeners : x <= displayListeners => x <= displayListeners' /\ x # l
      /\ l <= displayListeners'
  BY DEF Displays!On, DisplaysInv, Displays!TypeOK, Displays!Listeners, DisplaysAssumption
<1>2. /\ displayType' \in [Displays!Listeners -> DisplayTypes] /\ displayType'[l] = t
      /\ displayFunction' \in [Displays!Listeners -> DisplayFunctions]
      /\ \A x \in Displays!Listeners : x # l => displayType'[x] = displayType[x]
  BY <1>1 DEF Displays!On, DisplaysInv, Displays!TypeOK
<1>3. /\ callbacks' = callbacks \cup {l} /\ displayCbMap' = displayCbMap \cup {l}
      /\ UNCHANGED <<displayEvents, telling, displayTasks, displayCalling, stuck, due,
                     displayTold>>
  BY DEF Displays!On
<1>4. /\ kept' \in [Displays!Kept -> SUBSET Displays!Listeners]
      /\ \A k \in Displays!Kept : kept'[k] = IF Displays!KindOf(t) = k THEN kept[k] \cup {l}
             ELSE kept[k]
      /\ \A k \in Displays!Kept : k \in agent' <=> k \in agent \/ Displays!KindOf(t) = k
      /\ agent' \subseteq Displays!Kept
  <2>1. kept' = [k \in Displays!Kept |-> kept[k] \cup {x \in {l} : Displays!KindOf(t) = k}]
    BY DEF Displays!On
  <2>2. agent' = agent \cup (Displays!Kept \cap {Displays!KindOf(t)})
    BY DEF Displays!On
  <2> HIDE DEF l
  <2>3. \A k \in Displays!Kept : kept'[k] = IF Displays!KindOf(t) = k THEN kept[k] \cup {l}
            ELSE kept[k]
    BY <2>1
  <2> QED BY <1>1, <2>1, <2>2, <2>3 DEF DisplaysInv, Displays!TypeOK
<1> HIDE DEF l
<1>5. displayCbMap \subseteq Displays!Listeners /\ l \notin displayCbMap
  BY <1>1 DEF DisplaysInv, Displays!TypeOK, OnRecord
<1>6. Displays!TypeOK'
  <2>1. displayListeners' \in 0 .. MaxDisplayListeners
    BY <1>1, DisplayFacts
  <2> QED BY <1>1, <1>2, <1>3, <1>4, <2>1 DEF DisplaysInv, Displays!TypeOK
<1>7. OnRecord'
  BY <1>1, <1>3, <1>5 DEF DisplaysInv, OnRecord
<1>8. DueOK'
  <2>1. \A note \in due : note.listener \in Displays!Listeners
    BY DEF DisplaysInv, Displays!TypeOK, Displays!Notes
  <2>2. \A k \in Displays!Kept : kept[k] \subseteq Displays!Listeners
    BY DEF DisplaysInv, Displays!TypeOK
  <2>3. \A note \in due' :
            note.listener <= displayListeners' /\ displayType'[note.listener] = note.type
    BY <1>1, <1>2, <1>3, <2>1 DEF DisplaysInv, DueOK
  <2>4. \A k \in Displays!Kept : \A x \in kept'[k] : x <= displayListeners'
    BY <1>1, <1>4, <2>2 DEF DisplaysInv, DueOK
  <2> QED BY <2>3, <2>4 DEF DueOK
<1>9. Displays!PlatformTells'
  <2> SUFFICES ASSUME NEW k \in Displays!Kept
               PROVE  /\ kept'[k] = {x \in displayCbMap' : Displays!KindOf(displayType'[x]) = k}
                      /\ k \in agent' <=> kept'[k] # {}
    BY DEF Displays!PlatformTells
  <2>1. kept[k] = {x \in displayCbMap : Displays!KindOf(displayType[x]) = k} /\ (k \in agent
            <=> kept[k] # {})
    BY DEF DisplaysInv, Displays!DisplaysHold, Displays!PlatformTells
  <2>2. \A x : x \in kept'[k] <=> x \in displayCbMap' /\ Displays!KindOf(displayType'[x]) = k
    BY <2>1, <1>2, <1>3, <1>4, <1>5
  <2>3. k \in agent' <=> kept'[k] # {}
    BY <2>1, <1>4
  <2> QED BY <2>2, <2>3
<1>10. Displays!OnlyRegistered' /\ Displays!NothingMissed'
  <2>1. \A note \in due : note.listener # l
    BY <1>1 DEF DisplaysInv, DueOK
  <2> QED BY <2>1, <1>3 DEF DisplaysInv, Displays!DisplaysHold, Displays!OnlyRegistered,
                            Displays!NothingMissed
<1> QED BY <1>6, <1>7, <1>8, <1>9, <1>10 DEF DisplaysInv, Displays!DisplaysHold

\* Functions are removed, but not the one that runs: the thread is stuck then.
LEMMA OffDisplayStep ==
    ASSUME DisplaysAssumption, DisplaysInv, NEW gone \in SUBSET displayCbMap,
           Displays!GiveUp(gone)
    PROVE  DisplaysInv'
<1> DEFINE rest == gone \ {displayCalling}
<1>1. /\ kept' = [k \in Displays!Kept |-> kept[k] \ rest]
      /\ agent' = {k \in agent : kept'[k] # {}}
      /\ callbacks' = callbacks \ rest /\ displayCbMap' = displayCbMap \ rest
      /\ stuck' \in BOOLEAN
      /\ UNCHANGED <<displayType, displayFunction, displayListeners, displayEvents, telling,
                     displayTasks, displayCalling, due, displayTold>>
  BY DEF Displays!GiveUp, Displays!Unregister
<1>2. displayCalling \notin rest
  OBVIOUS
<1> HIDE DEF rest
<1>3. Displays!TypeOK'
  BY <1>1 DEF DisplaysInv, Displays!TypeOK
<1>4. OnRecord' /\ DueOK'
  BY <1>1 DEF DisplaysInv, OnRecord, DueOK
<1>5. Displays!PlatformTells'
  BY <1>1 DEF DisplaysInv, Displays!DisplaysHold, Displays!PlatformTells
<1>6. Displays!OnlyRegistered' /\ Displays!NothingMissed'
  BY <1>1, <1>2 DEF DisplaysInv, Displays!DisplaysHold, Displays!OnlyRegistered,
                    Displays!NothingMissed
<1> QED BY <1>3, <1>4, <1>5, <1>6 DEF DisplaysInv, Displays!DisplaysHold

\* An event happens: it is due to the listeners of its type.
LEMMA NotifyDisplayStep ==
    ASSUME DisplaysAssumption, DisplaysInv, NEW t \in DisplayTypes, Displays!Notify(t)
    PROVE  DisplaysInv'
<1> DEFINE K == Displays!KindOf(t)
<1>1. K \in Displays!Kept
  BY DEF Displays!Notify, DisplaysInv, Displays!TypeOK
<1>2. /\ displayEvents' \in 0 .. MaxDisplayEvents
      /\ displayEvents' \in 1 .. MaxDisplayEvents
      /\ telling = {}
      /\ telling' = [listener : kept[K], event : {displayEvents'}, type : {t}]
      /\ due' = due \cup {note \in telling' : displayType[note.listener] = t}
      /\ UNCHANGED <<displayType, displayFunction, displayListeners, displayCbMap, callbacks,
                     kept, agent, displayTasks, displayCalling, stuck, displayTold>>
  BY DEF Displays!Notify, DisplaysInv, Displays!TypeOK, DisplaysAssumption
<1>3. /\ \A note \in telling' :
            note \in Displays!Notes /\ note.listener \in kept[K] /\ note.type = t
      /\ \A note \in due' \ due : note \in telling' /\ displayType[note.listener] = t
  BY <1>1, <1>2 DEF DisplaysInv, Displays!TypeOK, Displays!Notes
<1>4. Displays!TypeOK'
  BY <1>2, <1>3 DEF DisplaysInv, Displays!TypeOK
<1>5. OnRecord' /\ DueOK'
  BY <1>1, <1>2, <1>3 DEF DisplaysInv, OnRecord, DueOK
<1>6. Displays!PlatformTells' /\ Displays!OnlyRegistered'
  BY <1>2 DEF DisplaysInv, Displays!DisplaysHold, Displays!PlatformTells, Displays!OnlyRegistered
<1>7. Displays!NothingMissed'
  BY <1>2, <1>3 DEF DisplaysInv, Displays!DisplaysHold, Displays!NothingMissed
<1> QED BY <1>4, <1>5, <1>6, <1>7 DEF DisplaysInv, Displays!DisplaysHold

\* The platform's thread leaves a task, unless the function is gone or for another type.
LEMMA TellDisplayStep == ASSUME DisplaysAssumption, DisplaysInv, Displays!Tell PROVE DisplaysInv'
<1>1. PICK note \in telling :
        /\ telling' = telling \ {note}
        /\ displayTasks' =
            IF note.listener \in callbacks /\ displayType[note.listener] = note.type
            THEN Append(displayTasks, note) ELSE displayTasks
        /\ UNCHANGED <<displayType, displayFunction, displayListeners, displayCbMap, callbacks,
                       kept, agent, displayEvents, displayCalling,
                       stuck, due, displayTold>>
  BY DEF Displays!Tell
<1>2. note \in Displays!Notes /\ displayTasks \in Seq(Displays!Notes)
  BY DEF DisplaysInv, Displays!TypeOK
<1>3. /\ displayTasks' \in Seq(Displays!Notes)
      /\ Displays!ToSet(displayTasks) \subseteq Displays!ToSet(displayTasks')
      /\ note.listener \in callbacks /\ displayType[note.listener] = note.type
             => note \in Displays!ToSet(displayTasks')
  <2>1. CASE note.listener \in callbacks /\ displayType[note.listener] = note.type
    <3>1. displayTasks' = Append(displayTasks, note)
      BY <1>1, <2>1
    <3>2. /\ displayTasks' \in Seq(Displays!Notes)
          /\ Len(displayTasks') = Len(displayTasks) + 1
          /\ Len(displayTasks) \in Nat
          /\ \A i \in 1 .. Len(displayTasks) : displayTasks'[i] = displayTasks[i]
          /\ displayTasks'[Len(displayTasks) + 1] = note
      BY <1>2, <3>1, AppendProperties, LenProperties
    <3>3. /\ DOMAIN displayTasks = 1 .. Len(displayTasks)
          /\ DOMAIN displayTasks' = 1 .. (Len(displayTasks) + 1)
      BY <1>2, <3>2, LenProperties
    <3> QED BY <3>2, <3>3 DEF Displays!ToSet
  <2>2. CASE ~(note.listener \in callbacks /\ displayType[note.listener] = note.type)
    BY <1>1, <1>2, <2>2
  <2> QED BY <2>1, <2>2
<1>4. Displays!TypeOK'
  BY <1>1, <1>3 DEF DisplaysInv, Displays!TypeOK
<1>5. OnRecord' /\ DueOK' /\ Displays!PlatformTells' /\ Displays!OnlyRegistered'
  BY <1>1 DEF DisplaysInv, OnRecord, DueOK, Displays!DisplaysHold, Displays!PlatformTells,
              Displays!OnlyRegistered
<1>6. Displays!NothingMissed'
  <2> SUFFICES ASSUME NEW n \in due \ displayTold, n.listener \in displayCbMap, n \notin telling'
               PROVE  n \in Displays!ToSet(displayTasks')
    BY <1>1 DEF Displays!NothingMissed
  <2>1. n \in telling \/ n \in Displays!ToSet(displayTasks)
    BY DEF DisplaysInv, Displays!DisplaysHold, Displays!NothingMissed
  <2>2. n.listener \in callbacks /\ displayType[n.listener] = n.type
    BY DEF DisplaysInv, OnRecord, DueOK
  <2> QED BY <2>1, <2>2, <1>1, <1>3
<1> QED BY <1>4, <1>5, <1>6 DEF DisplaysInv, Displays!DisplaysHold

\* A task calls its function unless that has been removed.
LEMMA DisplayTaskStep == ASSUME DisplaysAssumption, DisplaysInv, Displays!RunTask
                         PROVE  DisplaysInv'
<1> DEFINE note == Head(displayTasks)
<1>1. /\ displayCalling = Displays!NoListener
      /\ displayTasks # << >>
      /\ displayTasks' = Tail(displayTasks)
      /\ \/ /\ Displays!MayCall(note.listener)
            /\ displayCalling' = note.listener /\ displayTold' = displayTold \cup {note}
         \/ ~Displays!MayCall(note.listener) /\ UNCHANGED <<displayCalling, displayTold>>
      /\ UNCHANGED <<displayType, displayFunction, displayListeners, displayCbMap, callbacks,
                     kept, agent, displayEvents, telling, stuck, due>>
  BY DEF Displays!RunTask
<1>2. displayTasks \in Seq(Displays!Notes)
  BY DEF DisplaysInv, Displays!TypeOK
<1>3. /\ note \in Displays!Notes
      /\ displayTasks' \in Seq(Displays!Notes)
      /\ Displays!ToSet(displayTasks) \subseteq Displays!ToSet(displayTasks') \cup {note}
  <2>1. /\ Len(displayTasks) \in Nat
        /\ DOMAIN displayTasks = 1 .. Len(displayTasks)
        /\ Len(displayTasks) # 0
        /\ note = displayTasks[1] /\ note \in Displays!Notes
    BY <1>1, <1>2, EmptySeq, LenProperties, HeadTailProperties
  <2>2. /\ displayTasks' \in Seq(Displays!Notes) /\ Len(displayTasks') = Len(displayTasks) - 1
        /\ \A i \in 1 .. Len(displayTasks') : displayTasks'[i] = displayTasks[i + 1]
        /\ DOMAIN displayTasks' = 1 .. Len(displayTasks')
    BY <1>1, <1>2, HeadTailProperties, LenProperties
  <2> HIDE DEF note
  <2>3. \A i \in DOMAIN displayTasks : i = 1 \/ (i - 1 \in DOMAIN displayTasks'
            /\ displayTasks'[i - 1] = displayTasks[i])
    BY <2>1, <2>2
  <2>4. \A i \in DOMAIN displayTasks : displayTasks[i] = note \/ \E j \in DOMAIN displayTasks' :
            displayTasks'[j] = displayTasks[i]
    BY <2>1, <2>3
  <2> QED BY <2>1, <2>2, <2>4 DEF Displays!ToSet
<1> HIDE DEF note
<1>4. note.listener \in Displays!Listeners
  BY <1>3 DEF Displays!Notes
<1>5. Displays!TypeOK'
  BY <1>1, <1>3, <1>4 DEF DisplaysInv, Displays!TypeOK
<1>6. OnRecord' /\ DueOK' /\ Displays!PlatformTells'
  BY <1>1 DEF DisplaysInv, OnRecord, DueOK, Displays!DisplaysHold, Displays!PlatformTells
<1>7. Displays!MayCall(note.listener) <=> note.listener \in displayCbMap
  BY DEF Displays!MayCall, Displays!Alive, DisplaysInv, OnRecord
<1>8. Displays!OnlyRegistered'
  BY <1>1, <1>7 DEF DisplaysInv, Displays!OnlyRegistered
<1>9. Displays!NothingMissed'
  BY <1>1, <1>3, <1>7 DEF DisplaysInv, Displays!DisplaysHold, Displays!NothingMissed
<1> QED BY <1>5, <1>6, <1>8, <1>9 DEF DisplaysInv, Displays!DisplaysHold

LEMMA DisplayReturnStep == ASSUME DisplaysAssumption, DisplaysInv, Displays!Return
                           PROVE  DisplaysInv'
<1>1. /\ displayCalling' = Displays!NoListener
      /\ UNCHANGED <<displayType, displayFunction, displayListeners, displayCbMap, callbacks,
                     kept, agent, displayEvents, telling, displayTasks,
                     stuck, due, displayTold>>
  BY DEF Displays!Return
<1>2. Displays!TypeOK' /\ OnRecord' /\ DueOK'
  BY <1>1 DEF DisplaysInv, Displays!TypeOK, OnRecord, DueOK
<1>3. Displays!PlatformTells' /\ Displays!OnlyRegistered' /\ Displays!NothingMissed'
  BY <1>1 DEF DisplaysInv, Displays!DisplaysHold, Displays!PlatformTells,
              Displays!OnlyRegistered, Displays!NothingMissed
<1> QED BY <1>2, <1>3 DEF DisplaysInv, Displays!DisplaysHold

LEMMA DisplaysInvariance == ASSUME DisplaysAssumption PROVE Displays!Spec => []DisplaysInv
<1>1. Displays!Init => DisplaysInv
  <2> SUFFICES ASSUME Displays!Init PROVE DisplaysInv
    OBVIOUS
  <2>1. /\ (CHOOSE t \in DisplayTypes : TRUE) \in DisplayTypes
        /\ (CHOOSE f \in DisplayFunctions : TRUE) \in DisplayFunctions
    BY DEF DisplaysAssumption
  <2>2. Displays!TypeOK
    <3>1. displayTasks \in Seq(Displays!Notes)
      BY DEF Displays!Init
    <3>2. /\ displayType \in [Displays!Listeners -> DisplayTypes]
          /\ displayFunction \in [Displays!Listeners -> DisplayFunctions]
      BY <2>1 DEF Displays!Init
    <3>3. /\ displayListeners \in 0 .. MaxDisplayListeners
          /\ displayEvents \in 0 .. MaxDisplayEvents
          /\ displayCbMap = {}
          /\ callbacks = {}
          /\ agent = {}
          /\ telling = {}
          /\ due = {}
          /\ displayTold = {}
          /\ displayCalling = Displays!NoListener /\ stuck = FALSE
      BY DEF Displays!Init, DisplaysAssumption
    <3>4. kept \in [Displays!Kept -> SUBSET Displays!Listeners]
      BY DEF Displays!Init
    <3> QED BY <3>1, <3>2, <3>3, <3>4 DEF Displays!TypeOK
  <2>3. OnRecord /\ DueOK /\ Displays!DisplaysHold
    BY DEF Displays!Init, OnRecord, DueOK, Displays!DisplaysHold, Displays!PlatformTells,
           Displays!OnlyRegistered, Displays!NothingMissed
  <2> QED BY <2>2, <2>3 DEF DisplaysInv
<1>2. DisplaysInv /\ [Displays!Next]_(Displays!vars) => DisplaysInv'
  <2> SUFFICES ASSUME DisplaysInv, [Displays!Next]_(Displays!vars) PROVE DisplaysInv'
    OBVIOUS
  <2>1. CASE UNCHANGED Displays!vars
    BY <2>1 DEF Displays!vars, DisplaysInv, Displays!TypeOK, OnRecord, DueOK,
                Displays!DisplaysHold, Displays!PlatformTells, Displays!OnlyRegistered,
                Displays!NothingMissed
  <2>2. CASE Displays!Next
    <3>1. CASE \E t \in DisplayTypes, f \in DisplayFunctions : Displays!On(t, f)
      BY <3>1, OnDisplayStep
    <3>2. CASE \E t \in DisplayTypes, f \in DisplayFunctions : Displays!Off(t, f)
      <4>1. PICK t \in DisplayTypes, f \in DisplayFunctions : Displays!GiveUp(Displays!Recorded(t,
                     f))
        BY <3>2 DEF Displays!Off
      <4>2. Displays!Recorded(t, f) \in SUBSET displayCbMap
        BY DEF Displays!Recorded
      <4> QED BY <4>1, <4>2, OffDisplayStep
    <3>3. CASE \E t \in DisplayTypes : Displays!OffAll(t)
      <4>1. PICK t \in DisplayTypes :
              \E gone \in SUBSET {l \in displayCbMap : displayType[l] = t} : Displays!GiveUp(gone)
        BY <3>3 DEF Displays!OffAll
      <4>2. PICK gone \in SUBSET {l \in displayCbMap : displayType[l] = t} : Displays!GiveUp(gone)
        BY <4>1
      <4>3. gone \in SUBSET displayCbMap
        OBVIOUS
      <4> QED BY <4>2, <4>3, OffDisplayStep
    <3>4. CASE \E t \in DisplayTypes : Displays!Notify(t)
      BY <3>4, NotifyDisplayStep
    <3> QED BY <2>2, <3>1, <3>2, <3>3, <3>4, TellDisplayStep, DisplayTaskStep, DisplayReturnStep
       DEF Displays!Next
  <2> QED BY <2>1, <2>2
<1> QED BY <1>1, <1>2, PTL DEF Displays!Spec

LEMMA DisplaysTold == ASSUME DisplaysAssumption
                      PROVE  Displays!Spec => [](Displays!TypeOK /\ Displays!DisplaysHold)
<1>1. DisplaysInv => Displays!TypeOK /\ Displays!DisplaysHold
  BY DEF DisplaysInv
<1> QED BY <1>1, DisplaysInvariance, PTL

-------------------------------------------------------------------------------
(* The listeners together. *)

\* Whoever is registered when an event happens is told of it, once, or a work item that will
\* tell it is on its way, or a listener that could not be called or threw is why it is not (for
\* an ability's event, one registered before it); a window keeps the functions asked for, each once, and tells no
\* others; the platform's events reach the listeners of displays that are on record, and no
\* others.
THEOREM ListenersAreTold ==
    ASSUME ListenersAssumption, WindowsAssumption, DisplaysAssumption
    PROVE  Listeners!Spec /\ WindowEvents!Spec /\ Displays!Spec => []ListenersTold
<1>1. /\ Listeners!TypeOK /\ Listeners!ListenersTold
      /\ WindowEvents!TypeOK /\ WindowEvents!AttachedAsAsked /\ WindowEvents!NoStrays
      /\ Displays!TypeOK /\ Displays!DisplaysHold
      => ListenersTold
  BY DEF ListenersTold
<1>2. QED
  BY <1>1, ContextTells, WindowsAttach, DisplaysTold, PTL
=================================================================================
