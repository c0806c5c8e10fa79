------------------------------ MODULE WebDelegate ------------------------------
(***************************************************************************)
(* Web components: the pattern of a node, its delegate                        *)
(* (web_delegate_cross.cpp) and the web view of the platform.  Nodes, scripts, *)
(* tasks and page events belong to the main thread, which runs the JS and the  *)
(* PLATFORM tasks of the task executor; a page asks for its resources on a     *)
(* thread of its own, which waits for the script and then polls its response.  *)
(***************************************************************************)
EXTENDS Integers, SequencesExt

CONSTANTS
    Webs, Values,
    Deadline, Interval,   \* TIMEOUT_DURATION_MS and POLLING_INTERVAL_MS, in the same unit
    Shown,                \* bound: webs that get a node
    MaxUpdates,           \* bound on the changes of settings
    Asking                \* bound: webs whose pages open prompts

NoWeb == "no web"
NoId == 0
Default == 0
Ids == 1 .. Cardinality(Webs)

\* Of the settings that are forwarded, one stands for those that OnModifyDone sends to a new
\* delegate, one for haptic feedback, which it does not send, and one for the rich text.
Settings == {"javaScript", "haptic", "data"}

VARIABLES
    pattern,    \* per web: "none", "alive" or "gone"
    delegate,   \* per web: "none", "creating", "created", "failed" or "destroyed"
    id,         \* per web: id_
    atomicId,   \* g_atomicId: identifiers that were guessed
    creating,   \* the web that CreatePluginResource is at work on
    intercepts, \* per identifier: whose OnInterceptRequest is registered
    events,     \* per identifier: whose other events are registered
    urlLoaded,  \* per web: isUrlLoaded_
    property,   \* per web and setting: what the script has set last
    tasks,      \* of the main thread
    owner,      \* per identifier, external: who has asked for the web view; NoWeb if there is none
    numbered,   \* external: web views that were asked for
    applied,    \* per identifier and setting, external: as the web view has it
    prompt,     \* per web: who may answer its prompt: "nobody", "task" or "script"
    objects,    \* external: webs whose prompt the platform keeps for an answer
    request,    \* per identifier: the thread that asks for a resource
    updates     \* changes of settings so far

vars ==
    <<pattern, delegate, id, atomicId, creating, intercepts, events, urlLoaded, property, tasks,
      owner, numbered, applied, prompt, objects, request, updates>>

Requests ==
    [at : {"page", "posted", "check", "time", "sleep", "return"}, of : Webs \cup {NoWeb},
     ready : {"no", "in time", "late"}, now : 0 .. Deadline + Interval,
     wake : 0 .. Deadline + Interval, answer : {"none", "own", "script", "timeout"}]
NoRequest ==
    [at |-> "page", of |-> NoWeb, ready |-> "no", now |-> 0, wake |-> 0, answer |-> "none"]

Task ==
    [kind : {"method"}, id : Ids \cup {NoId}, setting : Settings, value : Values \cup {Default}]
    \cup [kind : {"prompt"}, web : Webs]
    \cup [kind : {"intercept"}, id : Ids]

TypeOK ==
    /\ pattern \in [Webs -> {"none", "alive", "gone"}]
    /\ delegate \in [Webs -> {"none", "creating", "created", "failed", "destroyed"}]
    /\ id \in [Webs -> Ids \cup {NoId}]
    /\ atomicId \in {0} \cup Ids /\ numbered \in {0} \cup Ids
    /\ creating \in Webs \cup {NoWeb}
    /\ {intercepts, events, owner} \subseteq [Ids -> Webs \cup {NoWeb}]
    /\ urlLoaded \in [Webs -> BOOLEAN]
    /\ property \in [Webs -> [Settings -> Values \cup {Default}]]
    /\ applied \in [Ids -> [Settings -> Values \cup {Default}]]
    /\ tasks \in Seq(Task)
    /\ prompt \in [Webs -> {"nobody", "task", "script"}]
    /\ objects \subseteq Webs
    /\ request \in [Ids -> Requests]
    /\ updates \in 0 .. MaxUpdates

Init ==
    /\ pattern = [w \in Webs |-> "none"] /\ delegate = [w \in Webs |-> "none"]
    /\ id = [w \in Webs |-> NoId] /\ atomicId = 0 /\ numbered = 0 /\ creating = NoWeb
    /\ intercepts = [i \in Ids |-> NoWeb] /\ events = [i \in Ids |-> NoWeb]
    /\ owner = [i \in Ids |-> NoWeb]
    /\ urlLoaded = [w \in Webs |-> FALSE]
    /\ property = [w \in Webs |-> [s \in Settings |-> Default]]
    /\ applied = [i \in Ids |-> [s \in Settings |-> Default]]
    /\ tasks = << >> /\ prompt = [w \in Webs |-> "nobody"] /\ objects = {}
    /\ request = [i \in Ids |-> NoRequest] /\ updates = 0

-------------------------------------------------------------------------------
(* The delegate and its web view *)

\* The main thread takes something up: no web view is being made.
Idle == creating = NoWeb

\* A node with a pattern.
NewPattern(w) ==
    /\ Idle /\ w \in Shown /\ pattern[w] = "none"
    /\ pattern' = [pattern EXCEPT ![w] = "alive"]
    /\ UNCHANGED <<delegate, id, atomicId, creating, intercepts, events, urlLoaded, property, tasks,
                   owner, numbered, applied, prompt, objects, request, updates>>

\* Mutant of Guess: nothing is registered before the web view is there.
GuessUnregistered(w) ==
    /\ Idle /\ pattern[w] = "alive" /\ delegate[w] = "none"
    /\ creating' = w
    /\ atomicId' = atomicId + 1
    /\ id' = [id EXCEPT ![w] = atomicId + 1]
    /\ delegate' = [delegate EXCEPT ![w] = "created"]
    /\ UNCHANGED <<pattern, intercepts, events, urlLoaded, property, tasks, owner, numbered, applied,
                   prompt, objects, request, updates>>

\* OnModifyDone makes the delegate, which takes the identifier the web view is about to get
\* and registers OnInterceptRequest and OnOverrideUrlLoading for it: the page may ask before
\* CreateResource returns.
Guess(w) ==
    /\ Idle /\ pattern[w] = "alive" /\ delegate[w] = "none"
    /\ creating' = w
    /\ atomicId' = atomicId + 1
    /\ id' = [id EXCEPT ![w] = atomicId + 1]
    /\ delegate' = [delegate EXCEPT ![w] = "created"]
    /\ intercepts' = [intercepts EXCEPT ![atomicId + 1] = w]
    /\ UNCHANGED <<pattern, events, urlLoaded, property, tasks, owner, numbered, applied, prompt,
                   objects, request, updates>>

\* Without a pipeline, a register or a pattern there is no web view, and no second attempt.
GiveUp(w) ==
    /\ Idle /\ pattern[w] = "alive" /\ delegate[w] = "none"
    /\ \E s \in {"creating", "failed"} : delegate' = [delegate EXCEPT ![w] = s]
    /\ UNCHANGED <<pattern, id, atomicId, creating, intercepts, events, urlLoaded, property, tasks,
                   owner, numbered, applied, prompt, objects, request, updates>>

\* The platform makes a web view, or does not; it counts what it is asked for.
CreateResource(w) ==
    /\ creating = w /\ numbered < atomicId
    /\ numbered' = numbered + 1
    /\ \/ owner' = [owner EXCEPT ![numbered + 1] = w]
       \/ UNCHANGED owner
    /\ UNCHANGED <<pattern, delegate, id, atomicId, creating, intercepts, events, urlLoaded, property,
                   tasks, applied, prompt, objects, request, updates>>

\* A call of the web view, posted with the identifier of the moment.
Method(i, s, v) == [kind |-> "method", id |-> i, setting |-> s, value |-> v]

\* What OnModifyDone sends a new delegate, whether it has a web view or not.
InitialSettings(w, i) == <<Method(i, "javaScript", property[w]["javaScript"])>>

\* CreateResource returns: the other events are registered under its result, or
\* HandleCreateError takes back the registrations of the guess.
Created(w) ==
    /\ creating = w /\ numbered = atomicId
    /\ creating' = NoWeb
    /\ IF owner[numbered] = w
       THEN /\ id' = [id EXCEPT ![w] = numbered]
            /\ events' = [events EXCEPT ![numbered] = w]
            /\ UNCHANGED <<delegate, intercepts>>
       ELSE /\ id' = [id EXCEPT ![w] = NoId]
            /\ delegate' = [delegate EXCEPT ![w] = "failed"]
            /\ intercepts' = [intercepts EXCEPT ![id[w]] = NoWeb]
            /\ UNCHANGED events
    /\ tasks' = tasks \o InitialSettings(w, id'[w])
    /\ UNCHANGED <<pattern, atomicId, urlLoaded, property, owner, numbered, applied, prompt, objects,
                   request, updates>>

-------------------------------------------------------------------------------
(* Settings *)

Forwards(w, s) == delegate[w] # "none" /\ (s = "data" => urlLoaded[w])

\* The script changes a setting.
Update(w, s, v) ==
    /\ Idle /\ pattern[w] = "alive" /\ updates < MaxUpdates
    /\ property[w][s] # v
    /\ property' = [property EXCEPT ![w][s] = v]
    /\ updates' = updates + 1
    /\ tasks' = IF Forwards(w, s) THEN Append(tasks, Method(id[w], s, v)) ELSE tasks
    /\ UNCHANGED <<pattern, delegate, id, atomicId, creating, intercepts, events, urlLoaded, owner,
                   numbered, applied, prompt, objects, request>>

\* The first layout of a web with a delegate loads the rich text.
Layout(w) ==
    /\ Idle /\ pattern[w] = "alive" /\ delegate[w] # "none" /\ ~urlLoaded[w]
    /\ urlLoaded' = [urlLoaded EXCEPT ![w] = TRUE]
    /\ tasks' = IF property[w]["data"] = Default THEN tasks
                ELSE Append(tasks, Method(id[w], "data", property[w]["data"]))
    /\ UNCHANGED <<pattern, delegate, id, atomicId, creating, intercepts, events, property, owner,
                   numbered, applied, prompt, objects, request, updates>>

-------------------------------------------------------------------------------
(* Page events *)

\* An event of a web view finds a delegate.
Reaches(w) ==
    /\ Idle
    /\ \E i \in Ids : owner[i] # NoWeb /\ events[i] = w /\ delegate[w] # "destroyed"

\* A request for a location, or for the full screen: the object that takes the answer is
\* put into the platform's table, and goes to the script in a task.
Ask(w) ==
    /\ Reaches(w) /\ w \in Asking /\ prompt[w] = "nobody"
    /\ prompt' = [prompt EXCEPT ![w] = "task"]
    /\ objects' = objects \cup {w}
    /\ tasks' = Append(tasks, [kind |-> "prompt", web |-> w])
    /\ UNCHANGED <<pattern, delegate, id, atomicId, creating, intercepts, events, urlLoaded, property,
                   owner, numbered, applied, request, updates>>

\* A dialog, a file chooser, a permission, an authentication: the script is called at once
\* and keeps the result object; unheard, or done with it, it leaves nothing behind.
AskNow(w) ==
    /\ Reaches(w) /\ w \in Asking /\ prompt[w] = "nobody" /\ pattern[w] = "alive"
    /\ prompt' = [prompt EXCEPT ![w] = "script"]
    /\ objects' = objects \cup {w}
    /\ UNCHANGED <<pattern, delegate, id, atomicId, creating, intercepts, events, urlLoaded, property,
                   tasks, owner, numbered, applied, request, updates>>

\* The object that takes the answer goes.
Dispose(w) ==
    /\ prompt' = [prompt EXCEPT ![w] = "nobody"]
    /\ objects' = objects \ {w}

\* The engine collects it.
Collect(w) ==
    /\ Idle /\ prompt[w] = "script"
    /\ Dispose(w)
    /\ UNCHANGED <<pattern, delegate, id, atomicId, creating, intercepts, events, urlLoaded, property,
                   tasks, owner, numbered, applied, request, updates>>

\* The task of a prompt: the script has a handler, or the answer can no longer be given.
RunPrompt(w) ==
    /\ \/ /\ pattern[w] = "alive"
          /\ prompt' = [prompt EXCEPT ![w] = "script"]
          /\ UNCHANGED objects
       \/ Dispose(w)
    /\ UNCHANGED <<applied, request>>

\* The call of a web view: without one there is nobody to call.
RunMethod(m) ==
    /\ applied' = IF m.id = NoId THEN applied
                  ELSE IF owner[m.id] = NoWeb THEN applied
                  ELSE [applied EXCEPT ![m.id][m.setting] = m.value]
    /\ UNCHANGED <<prompt, objects, request>>

\* The task of OnInterceptRequest: the script has no answer, one that is ready, or one that
\* will be.
RunIntercept(i) ==
    /\ \/ request' = [request EXCEPT ![i].at = "return", ![i].answer = "own"]
       \/ /\ pattern[request[i].of] = "alive"
          /\ \E r \in {"no", "in time"} : request' = [request EXCEPT ![i].at = "check", ![i].ready = r]
    /\ UNCHANGED <<applied, prompt, objects>>

RunTask ==
    /\ Idle /\ tasks # << >>
    /\ tasks' = Tail(tasks)
    /\ LET t == Head(tasks) IN
        CASE t.kind = "prompt" -> RunPrompt(t.web)
          [] t.kind = "method" -> RunMethod(t)
          [] t.kind = "intercept" -> RunIntercept(t.id)
    /\ UNCHANGED <<pattern, delegate, id, atomicId, creating, intercepts, events, urlLoaded, property,
                   owner, numbered, updates>>

-------------------------------------------------------------------------------
(* The end of a delegate *)

Holds(w, i) == request[i].of = w

\* ~WebDelegateCross: Release.
Destroy(w) ==
    /\ delegate' = [delegate EXCEPT ![w] = "destroyed"]
    /\ id' = [id EXCEPT ![w] = NoId]
    /\ owner' = IF id[w] = NoId THEN owner ELSE [owner EXCEPT ![id[w]] = NoWeb]

\* The node goes, with its pattern; the delegate goes unless a request is under way.
Detach(w) ==
    /\ Idle /\ pattern[w] = "alive"
    /\ pattern' = [pattern EXCEPT ![w] = "gone"]
    /\ IF delegate[w] # "none" /\ \A i \in Ids : ~Holds(w, i) THEN Destroy(w)
       ELSE UNCHANGED <<delegate, id, owner>>
    /\ UNCHANGED <<atomicId, creating, intercepts, events, urlLoaded, property, tasks, numbered,
                   applied, prompt, objects, request, updates>>

-------------------------------------------------------------------------------
(* The thread of a page *)

\* The main thread changes the map that a page reads without a lock.
Registering == creating # NoWeb /\ numbered < atomicId

\* A page asks for a resource: what was registered under its identifier is called with the
\* delegate held, or the page loads the resource itself.
Request(i) ==
    /\ owner[i] # NoWeb /\ request[i] = NoRequest
    /\ \/ /\ intercepts[i] # NoWeb /\ delegate[intercepts[i]] # "destroyed"
          /\ request' = [request EXCEPT ![i].at = "posted", ![i].of = intercepts[i]]
          /\ tasks' = Append(tasks, [kind |-> "intercept", id |-> i])
       \/ /\ \/ intercepts[i] = NoWeb
             \/ intercepts[i] # NoWeb /\ delegate[intercepts[i]] = "destroyed"
             \/ Registering
          /\ request' = [request EXCEPT ![i].answer = "own"]
          /\ UNCHANGED tasks
    /\ UNCHANGED <<pattern, delegate, id, atomicId, creating, intercepts, events, urlLoaded, property,
                   owner, numbered, applied, prompt, objects, updates>>

requestOnly ==
    <<pattern, delegate, id, atomicId, creating, intercepts, events, urlLoaded, property, tasks,
      owner, numbered, applied, prompt, objects, updates>>

\* The script completes its response.  Between the thread's last look at it and at the time,
\* that is too late.
Respond(i) ==
    /\ Idle /\ request[i].at \in {"check", "time", "sleep"} /\ request[i].ready = "no"
    /\ request' = [request EXCEPT ![i].ready =
                      IF request[i].at # "time" /\ request[i].now <= Deadline THEN "in time"
                      ELSE "late"]
    /\ UNCHANGED requestOnly

\* WaitForReady looks at the response ...
CheckResponse(i) ==
    /\ request[i].at = "check"
    /\ request' = IF request[i].ready # "no"
                  THEN [request EXCEPT ![i].at = "return", ![i].answer = "script"]
                  ELSE [request EXCEPT ![i].at = "time"]
    /\ UNCHANGED requestOnly

\* Mutant of CheckTime: the time is not looked at.
CheckTimeNever(i) ==
    /\ request[i].at = "time" /\ request[i].now < Deadline
    /\ \E t \in request[i].now + Interval .. Deadline + Interval :
            request' = [request EXCEPT ![i].at = "sleep", ![i].wake = t]
    /\ UNCHANGED requestOnly

\* ... and at the time, which may have gone on, and sleeps for a while that may be longer.
CheckTime(i) ==
    /\ request[i].at = "time"
    /\ \E now \in request[i].now .. Deadline + Interval :
        IF now >= Deadline
        THEN request' = [request EXCEPT ![i].at = "return", ![i].answer = "timeout", ![i].now = now]
        ELSE \E t \in now + Interval .. Deadline + Interval :
                request' = [request EXCEPT ![i].at = "sleep", ![i].now = now, ![i].wake = t]
    /\ UNCHANGED requestOnly

\* Time passes while the thread sleeps.
Sleep(i) ==
    /\ request[i].at = "sleep"
    /\ request' = IF request[i].now < request[i].wake THEN [request EXCEPT ![i].now = @ + 1]
                  ELSE [request EXCEPT ![i].at = "check"]
    /\ UNCHANGED requestOnly

\* The page gets its answer; if the node has gone in the meantime, the delegate goes here.
Return(i) ==
    /\ request[i].at = "return"
    /\ request' = [request EXCEPT ![i] = [NoRequest EXCEPT !.answer = request[i].answer]]
    /\ LET w == request[i].of IN
        IF pattern[w] = "gone" /\ \A j \in Ids \ {i} : ~Holds(w, j) THEN Destroy(w)
        ELSE UNCHANGED <<delegate, id, owner>>
    /\ UNCHANGED <<pattern, atomicId, creating, intercepts, events, urlLoaded, property, tasks,
                   numbered, applied, prompt, objects, updates>>

Wait(i) == CheckResponse(i) \/ CheckTime(i) \/ Sleep(i) \/ Return(i)

Next ==
    \/ \E w \in Webs :
        \/ NewPattern(w) \/ Guess(w) \/ GiveUp(w) \/ CreateResource(w) \/ Created(w)
        \/ Layout(w) \/ Ask(w) \/ AskNow(w) \/ Collect(w) \/ Detach(w)
        \/ \E s \in Settings, v \in Values : Update(w, s, v)
    \/ RunTask
    \/ \E i \in Ids : Request(i) \/ Respond(i) \/ Wait(i)

\* The main thread goes on, and so does the thread of a page.
Creation(w) == CreateResource(w) \/ Created(w)

Progress ==
    /\ WF_vars(RunTask)
    /\ \A w \in Webs : WF_vars(Creation(w))
    /\ \A i \in Ids : WF_vars(Wait(i))

Spec == Init /\ [][Next]_vars /\ Progress

-------------------------------------------------------------------------------
\* What a page asks and tells gets to its own web, from its very first request on.
CallsReachTheirWeb ==
    \A i \in Ids : owner[i] # NoWeb =>
        /\ intercepts[i] = owner[i]
        /\ Idle => events[i] = owner[i]

\* The value a setting has once the calls that wait have been made.
Settled(w, s) ==
    LET Waits(t) == t.kind = "method" /\ t.id = id[w] /\ t.setting = s
        waiting == SelectSeq(tasks, Waits)
    IN IF waiting = << >> THEN applied[id[w]][s] ELSE Last(waiting).value

\* A web view is about to have what the script has set last, whenever it was set: before
\* there was a delegate, before the first layout, or later.
SettingsArrive ==
    \A w \in Webs : Idle /\ delegate[w] = "created" =>
        /\ Settled(w, "javaScript") = property[w]["javaScript"]
        /\ urlLoaded[w] => Settled(w, "data") = property[w]["data"]

\* A response that is ready in time is never replaced by the one for a timeout, however long
\* the thread has slept.
InTimeIsUsed ==
    \A i \in Ids : request[i].at = "return" /\ request[i].answer = "timeout" =>
        request[i].ready # "in time"

\* A web view goes with its node, or with the last request that still holds its delegate.
ViewsGo ==
    \A i \in Ids : owner[i] # NoWeb =>
        pattern[owner[i]] = "alive" \/ \E j \in Ids : Holds(owner[i], j)

\* The platform keeps an object for an answer exactly as long as somebody may give it.
ObjectsKept == objects = {w \in Webs : prompt[w] # "nobody"}

WebHolds == CallsReachTheirWeb /\ SettingsArrive /\ InTimeIsUsed /\ ViewsGo /\ ObjectsKept

\* Every request of a page is answered, which each page makes once, so that again and again
\* none is out; by ViewsGo, a web view whose node is gone then goes.
AllAnswered == \A i \in Ids : request[i].at = "page"
WebSettles == []<>AllAnswered
================================================================================
