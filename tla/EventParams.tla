------------------------------ MODULE EventParams ------------------------------
(***************************************************************************)
(* Custom parameters of application events: SetEventParam stores them, for a *)
(* running id, a domain and a name of events, and an event that is stored or *)
(* taken gets those of its own (app_event_store.cpp).  The table maps a      *)
(* serial number to a row; one running id and one domain are enough here.    *)
(***************************************************************************)
EXTENDS Naturals, FiniteSets, Sequences, FiniteSetsExt

CONSTANTS
    EventNames,  \* names of events; Every stands for the empty name
    Keys, Values,
    MaxParams,   \* MAX_NUM_OF_CUSTOM_PARAMS, 64 in the code
    MaxRows      \* bounds the rows of the table

Every == "every"

VARIABLES
    customParamMap, \* customParamMap_, in the order of the serial numbers
    lastSet         \* the value that each name and key was last set to, if any

vars == <<customParamMap, lastSet>>

Rows == [name : EventNames, key : Keys, value : Values]

\* Types; and what was set has a row.
TypeOK ==
    /\ customParamMap \in Seq(Rows)
    /\ Len(customParamMap) <= MaxRows
    /\ lastSet \in [EventNames \X Keys -> SUBSET Values]
    /\ \A n \in EventNames, k \in Keys :
        lastSet[<<n, k>>] # {} <=>
            \E i \in DOMAIN customParamMap : customParamMap[i].name = n /\ customParamMap[i].key = k

Init ==
    /\ customParamMap = << >>
    /\ lastSet = [p \in EventNames \X Keys |-> {}]

RowsOf(n) == {i \in DOMAIN customParamMap : customParamMap[i].name = n}

\* Mutant of FindOldParamkeys: the first row of any name.
FindAnyParamkey(n) == IF customParamMap = << >> THEN {} ELSE {customParamMap[1].key}

\* FindOldParamkeys stops at the first row of the name: it finds one key at most.
FindOldParamkeys(n) == IF RowsOf(n) = {} THEN {} ELSE {customParamMap[Min(RowsOf(n))].key}

\* InsertCustomEventParams: a key that was found is updated in every row that
\* has it, another one gets a new row, even when the table has it.
InsertCustomEventParams(n, k, v) ==
    LET old == FindOldParamkeys(n) IN
    /\ Cardinality(old \cup {k}) <= MaxParams
    /\ k \notin old => Len(customParamMap) < MaxRows
    /\ customParamMap' =
        IF k \in old
        THEN [i \in DOMAIN customParamMap |->
                IF customParamMap[i].name = n /\ customParamMap[i].key = k
                THEN [customParamMap[i] EXCEPT !.value = v] ELSE customParamMap[i]]
        ELSE Append(customParamMap, [name |-> n, key |-> k, value |-> v])
    /\ lastSet' = [lastSet EXCEPT ![<<n, k>>] = {v}]

\* DeleteCustomEventParams, and DeleteUnusedParamsExceptCurId for another running id.
DeleteCustomEventParams ==
    /\ customParamMap # << >>
    /\ customParamMap' = << >>
    /\ lastSet' = [p \in EventNames \X Keys |-> {}]

Next ==
    \/ \E n \in EventNames, k \in Keys, v \in Values : InsertCustomEventParams(n, k, v)
    \/ DeleteCustomEventParams

Spec == Init /\ [][Next]_vars

\* FindParams for an event: the rows of its name and those without a name, in
\* their order; a later row replaces an earlier one of its key.
Found(n, k) ==
    {i \in DOMAIN customParamMap : customParamMap[i].key = k /\ customParamMap[i].name \in {n, Every}}

FindParams(n, k) == IF Found(n, k) = {} THEN {} ELSE {customParamMap[Max(Found(n, k))].value}

\* Although only the first key of a name is ever updated, and a key may have any
\* number of rows, an event gets for each key the value that was last set for its
\* name, or one set for every name: never an outdated value of its own name.
LatestValue ==
    \A n \in EventNames, k \in Keys :
        /\ FindParams(n, k) \subseteq lastSet[<<n, k>>] \cup lastSet[<<Every, k>>]
        /\ lastSet[<<n, k>>] # {} => FindParams(n, k) # {}
================================================================================
