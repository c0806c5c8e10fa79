----------------------------- MODULE AbilityResults -----------------------------
(***************************************************************************)
(* startAbilityForResult: each call of a script leaves a callback under a     *)
(* request code (js_ability_context.cpp, ability_context_impl.cpp), and the   *)
(* platform's answer comes back as a task of AppMain.  Codes are counted by   *)
(* the JavaScript object of the context, of which an ability may have several, *)
(* and callbacks are kept by the context itself.                             *)
(***************************************************************************)
EXTENDS Integers, FiniteSets, SequencesExt

CONSTANTS
    Contexts,   \* JavaScript objects of the context of one ability
    INT_MAX,    \* the last request code
    MaxCalls    \* bound on the calls

Calls == 1 .. MaxCalls
Codes == 0 .. INT_MAX
NoCall == 0

VARIABLES
    made,             \* calls so far
    curRequestCode,   \* curRequestCode_ of each object
    codeOf,           \* per call: its request code
    resultCallbacks,  \* per code: the call whose callback is kept, or NoCall
    started,          \* external: calls the platform has not answered
    tasks,            \* answers on their way: calls, in order
    handling,         \* codes whose callback is running, the innermost first
    outcome,          \* per call: whose answer it got, or NoCall
    alive,            \* the ability is in its stage
    shared            \* history: calls that had one code while both waited

vars ==
    <<made, curRequestCode, codeOf, resultCallbacks, started, tasks, handling, outcome, alive, shared>>

TypeOK ==
    /\ made \in 0 .. MaxCalls
    /\ curRequestCode \in [Contexts -> Codes]
    /\ codeOf \in [Calls -> Codes]
    /\ resultCallbacks \in [Codes -> Calls \cup {NoCall}]
    /\ started \subseteq Calls /\ tasks \in Seq(Calls)
    /\ handling \in Seq(Codes)
    /\ outcome \in [Calls -> Calls \cup {NoCall}]
    /\ alive \in BOOLEAN /\ shared \subseteq Calls

Init ==
    /\ made = 0 /\ curRequestCode = [c \in Contexts |-> 0]
    /\ codeOf = [c \in Calls |-> 0] /\ resultCallbacks = [k \in Codes |-> NoCall]
    /\ started = {} /\ tasks = << >> /\ handling = << >>
    /\ outcome = [c \in Calls |-> NoCall] /\ alive = TRUE /\ shared = {}

-------------------------------------------------------------------------------
\* HandleOnAbilityResult: the callback that is kept under the code is called with the answer
\* to a call; it is erased when it returns.
HandleOnAbilityResult(code, answered, callbacks) ==
    IF callbacks[code] = NoCall THEN UNCHANGED <<handling, outcome>>
    ELSE /\ handling' = <<code>> \o handling
         /\ outcome' = [outcome EXCEPT ![callbacks[code]] = answered]

\* A code for the next call; after the last one they start again.
NextCode(c) == IF curRequestCode[c] = INT_MAX THEN 0 ELSE curRequestCode[c] + 1

\* insert: a callback that is there stays, and the new one is dropped.
Kept(code, call) ==
    IF resultCallbacks[code] = NoCall THEN [resultCallbacks EXCEPT ![code] = call]
    ELSE resultCallbacks

\* Calls that have not been answered.
Waiting == {c \in 1 .. made : outcome[c] = NoCall}

\* OnStartAbilityForResult, by any script, a callback among them: the platform starts the
\* ability, or the error is the answer at once.
StartAbilityForResult(c) ==
    /\ alive /\ made < MaxCalls /\ made' = made + 1
    /\ LET code == NextCode(c)
           rivals == {d \in 1 .. made : codeOf[d] = code /\
                        (d \in Waiting \/ resultCallbacks[code] = d \/ d \in started \/ Contains(tasks, d))}
       IN
        /\ curRequestCode' = [curRequestCode EXCEPT ![c] = code]
        /\ codeOf' = [codeOf EXCEPT ![made'] = code]
        /\ resultCallbacks' = Kept(code, made')
        /\ shared' = IF rivals = {} THEN shared ELSE shared \cup rivals \cup {made'}
        /\ \/ started' = started \cup {made'} /\ UNCHANGED <<handling, outcome>>
           \/ HandleOnAbilityResult(code, made', resultCallbacks') /\ UNCHANGED started
    /\ UNCHANGED <<tasks, alive>>

\* The platform answers; AppMain posts a task.
DispatchOnAbilityResult(call) ==
    /\ call \in started
    /\ started' = started \ {call}
    /\ tasks' = Append(tasks, call)
    /\ UNCHANGED <<made, curRequestCode, codeOf, resultCallbacks, handling, outcome, alive, shared>>

\* The task: the answer is for an ability of its stage, and for a code.
HandleDispatchOnAbilityResult ==
    /\ handling = << >> /\ tasks # << >>
    /\ tasks' = Tail(tasks)
    /\ IF alive THEN HandleOnAbilityResult(codeOf[Head(tasks)], Head(tasks), resultCallbacks)
       ELSE UNCHANGED <<handling, outcome>>
    /\ UNCHANGED <<made, curRequestCode, codeOf, resultCallbacks, started, alive, shared>>

\* Mutant of Return: the callback stays.
ReturnOnly ==
    /\ handling # << >> /\ handling' = Tail(handling)
    /\ UNCHANGED <<made, curRequestCode, codeOf, resultCallbacks, started, tasks, outcome, alive, shared>>

\* A callback returns, and what is kept under its code is erased.
Return ==
    /\ handling # << >> /\ handling' = Tail(handling)
    /\ resultCallbacks' = [resultCallbacks EXCEPT ![Head(handling)] = NoCall]
    /\ UNCHANGED <<made, curRequestCode, codeOf, started, tasks, outcome, alive, shared>>

\* The ability is destroyed.
Destroy ==
    /\ handling = << >> /\ alive /\ alive' = FALSE
    /\ UNCHANGED <<made, curRequestCode, codeOf, resultCallbacks, started, tasks, handling, outcome,
                   shared>>

Next ==
    \/ \E c \in Contexts : StartAbilityForResult(c)
    \/ \E call \in Calls : DispatchOnAbilityResult(call)
    \/ HandleDispatchOnAbilityResult \/ Return \/ Destroy

Spec == Init /\ [][Next]_vars

-------------------------------------------------------------------------------
\* A call gets its own answer, and while it waits for it, it is still there to be found and
\* the answer is on its way: unless two calls had one code, because there are two objects or
\* because the codes started again.
OwnAnswer == \A c \in 1 .. made \ shared : outcome[c] \in {NoCall, c}

StillExpected ==
    \A c \in Waiting \ shared : alive =>
        /\ resultCallbacks[codeOf[c]] = c
        /\ c \in started \/ Contains(tasks, c)

\* Nothing is kept of a call that was answered.
NothingKept ==
    handling = << >> =>
        \A k \in Codes : resultCallbacks[k] # NoCall => resultCallbacks[k] \in Waiting

ResultsHold == OwnAnswer /\ StillExpected /\ NothingKept
================================================================================
