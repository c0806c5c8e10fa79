------------------------------- MODULE WantParams -------------------------------
(***************************************************************************)
(* The parameters of a want.  A script gives an object; UnwrapWantParams      *)
(* makes WantParams of it, which are copied whenever a want is handed on, and *)
(* go to another ability as a text that the platform carries (Want::ToJson,   *)
(* Want::ParseJson); WrapWantParams makes an object for a script again.       *)
(* Types are lost and changed on each of these ways.                         *)
(***************************************************************************)
EXTENDS Naturals, SequencesExt

CONSTANTS
    Scripts,     \* objects that scripts give
    Natives,     \* parameters that native code sets
    One,         \* the number 1: numbers are counted in fractions, so that some are not whole
    Digit,       \* the fraction that std::to_string still shows
    IntMax,      \* numbers from here on do not fit into 32 bits
    MaxSteps     \* bounds the ways a want goes

VARIABLES
    object,      \* what the script has given, or NoObject
    given,       \* the parameters at first
    params,      \* the parameters now
    crossed,     \* whether they have been a text
    steps

vars == <<object, given, params, crossed, steps>>

\* A value of a script or of native code.  A compound value has parts, with the names of
\* properties; those of an array are its indices.  All elements of a native array have one
\* kind, that of the array.
Value(kind, n, parts) == [kind |-> kind, n |-> n, parts |-> parts]
Scalar(kind, n) == Value(kind, n, << >>)
Part(key, value) == [key |-> key, value |-> value]
Index == <<"0", "1", "2", "3">>
Array(values) == Value("array", 0, [i \in DOMAIN values |-> Part(Index[i], values[i])])
Items(v) == [i \in DOMAIN v.parts |-> v.parts[i].value]
PartsOf(v) == Range(Items(v))
NoObject == Scalar("null", 0)
Params(parts) == Value("params", 0, parts)

\* Numbers that are none, texts with a meaning of their own, and one with a character that a
\* text cannot carry.
Infinity == 1000 * One
NaN == 1001 * One
FD == 1001
RemoteObject == 1002
Unprintable == 1003

Scalars ==
    {"boolean", "byte", "char", "short", "int", "long", "float", "double", "string"}

RECURSIVE IsParams(_)
IsParams(v) ==
    /\ v.kind = "params"
    /\ \A x \in PartsOf(v) :
         \/ x.kind \in Scalars /\ x.parts = << >>
         \/ IsParams(x)
         \/ /\ x.kind = "array" /\ Cardinality({y.kind : y \in PartsOf(x)}) <= 1
            /\ \A y \in PartsOf(x) : y.kind \in Scalars \/ IsParams(y)

TypeOK ==
    /\ object \in Scripts \cup {NoObject}
    /\ IsParams(given) /\ IsParams(params)
    /\ crossed \in BOOLEAN /\ steps \in 0 .. MaxSteps

-------------------------------------------------------------------------------
\* From scripts.  A number is an int if its int32 is the same number; NaN differs from nothing.
IsInt32(n) == n = NaN \/ (n % One = 0 /\ n < IntMax * One)
Int32(n) == IF n \in {NaN, Infinity} THEN 0 ELSE (n \div One) * One

InnerUnwrapWantParamsNumber(n) ==
    IF IsInt32(n) THEN Scalar("int", Int32(n)) ELSE Scalar("double", n)

\* Mutant of AddNumber: the ints before the first other number are not taken over.
DropInts(list, n) ==
    LET isDouble == \E x \in Range(list) : x.kind = "double"
    IN  IF isDouble THEN Append(list, Scalar("double", n))
        ELSE IF IsInt32(n) THEN Append(list, Scalar("int", Int32(n)))
        ELSE <<Scalar("double", n)>>

\* UnwrapArrayComplexFromJSNumber: the list of ints becomes one of doubles with the first
\* number that is none.
AddNumber(list, n) ==
    LET isDouble == \E x \in Range(list) : x.kind = "double"
        Double(x) == Scalar("double", x.n)
    IN  IF isDouble THEN Append(list, Scalar("double", n))
        ELSE IF IsInt32(n) THEN Append(list, Scalar("int", Int32(n)))
        ELSE Append([i \in DOMAIN list |-> Double(list[i])], Scalar("double", n))

Numbers(values) ==
    FoldLeft(LAMBDA list, v : AddNumber(list, v.n), << >>,
             SelectSeq(values, LAMBDA v : v.kind = "number"))

OfKind(values, kind) == SelectSeq(values, LAMBDA v : v.kind = kind)
FirstOf(lists) ==
    LET i == SelectInSeq(lists, LAMBDA l : l # << >>) IN IF i = 0 THEN << >> ELSE lists[i]

Property(v, name) ==
    LET i == SelectInSeq(v.parts, LAMBDA p : p.key = name)
    IN  IF i = 0 THEN NoObject ELSE v.parts[i].value

IsSpecialObject(v, type, kinds) ==
    /\ Property(v, "type") = Scalar("string", type)
    /\ Len(v.parts) = 2
    /\ Property(v, "value").kind \in kinds

HandleFdObject(v) ==
    Params(<<Part("type", Scalar("string", FD)),
             Part("value", Scalar("int", Int32(Property(v, "value").n)))>>)

\* UnwrapWantParams and HandleNapiObject.  Of an array one kind of elements is kept; an
\* array in an array is an object like others.  What has no kind here is left out.
RECURSIVE UnwrapWantParams(_), UnwrapValue(_), InnerUnwrapWantParamsArray(_)
UnwrapWantParams(v) ==
    LET unwrapped == [i \in DOMAIN v.parts |-> Part(v.parts[i].key, UnwrapValue(v.parts[i].value))]
    IN  Params(SelectSeq(unwrapped, LAMBDA p : p.value # NoObject))

UnwrapValue(v) ==
    CASE v.kind \in {"string", "boolean"} -> v
      [] v.kind = "number" -> InnerUnwrapWantParamsNumber(v.n)
      [] v.kind = "array"  -> InnerUnwrapWantParamsArray(v)
      [] v.kind = "object" ->
            IF IsSpecialObject(v, FD, {"number"}) THEN HandleFdObject(v)
            ELSE IF IsSpecialObject(v, RemoteObject, {"object", "array"}) THEN NoObject
            ELSE UnwrapWantParams(v)
      [] OTHER -> NoObject

\* The order in which InnerUnwrapWantParamsArray looks at the lists.
Preferred(objects, strings, numbers, booleans) ==
    FirstOf(<<objects, strings, OfKind(numbers, "int"), booleans, numbers>>)

InnerUnwrapWantParamsArray(v) ==
    LET values == Items(v)
        objects == SelectSeq(values, LAMBDA x : x.kind \in {"object", "array"})
        kept == Preferred([i \in DOMAIN objects |-> UnwrapWantParams(objects[i])],
                          OfKind(values, "string"), Numbers(values), OfKind(values, "boolean"))
    IN  IF kept = << >> THEN NoObject ELSE Array(kept)

-------------------------------------------------------------------------------
\* To scripts.
JsKind(kind) ==
    CASE kind \in {"string", "char"} -> "string"
      [] kind = "boolean" -> "boolean"
      [] OTHER -> "number"

RECURSIVE WrapWantParams(_), WrapElement(_)
WrapElement(x) ==
    IF x.kind = "params" THEN WrapWantParams(x) ELSE Scalar(JsKind(x.kind), x.n)

WrapArray(v) == Array([i \in DOMAIN v.parts |-> WrapElement(v.parts[i].value)])

WrapWantParams(v) ==
    Value("object", 0,
          [i \in DOMAIN v.parts |->
            LET x == v.parts[i].value
            IN  Part(v.parts[i].key,
                     IF x.kind = "array" THEN WrapArray(x) ELSE WrapElement(x))])

-------------------------------------------------------------------------------
\* Copies.  SetNewArray makes no array of no elements.
RECURSIVE NewParams(_), NewArrayData(_)
NewArrayData(v) ==
    Array([i \in DOMAIN v.parts |->
            LET x == v.parts[i].value IN IF x.kind = "params" THEN NewParams(x) ELSE x])

NewParams(v) ==
    LET copied == [i \in DOMAIN v.parts |->
                    LET x == v.parts[i].value
                    IN  Part(v.parts[i].key,
                             CASE x.kind = "params" -> NewParams(x)
                               [] x.kind = "array" /\ x.parts = << >> -> NoObject
                               [] x.kind = "array" -> NewArrayData(x)
                               [] OTHER -> x)]
    IN  Params(SelectSeq(copied, LAMBDA p : p.value # NoObject))

\* operator==, GetDataType and CompareInterface: by size, then by key, type and value.
RECURSIVE Equals(_, _)
Equals(v, w) ==
    /\ v.kind = w.kind /\ v.n = w.n /\ Len(v.parts) = Len(w.parts)
    /\ \A p \in Range(v.parts) :
            \E q \in Range(w.parts) : q.key = p.key /\ Equals(p.value, q.value)

-------------------------------------------------------------------------------
\* As a text.  GetDataType; two numberings of types differ by one between float and string.
DataType ==
    [boolean |-> 1, byte |-> 2, char |-> 3, short |-> 4, int |-> 5, long |-> 6, float |-> 7,
     double |-> 8, string |-> 9, params |-> 101, array |-> 102]

\* Mutant of PrintedType: the native number of the type is printed.
OwnType(kind) == DataType[kind]

PrintedType(kind) ==
    IF DataType[kind] \in 7 .. 9 THEN DataType[kind] + 1 ELSE DataType[kind]

\* What the JSON parser finds where a value was printed.
JsonKind(kind) ==
    CASE kind \in {"string", "char"} -> "string"
      [] kind \in {"float", "double"} -> "number_float"
      [] kind \in {"byte", "short", "int", "long"} -> "number_integer"
      [] OTHER -> kind
Shown(v) ==
    IF v.kind \in {"float", "double"} THEN ((v.n + Digit \div 2) \div Digit) * Digit ELSE v.n

\* ToJson: the elements of parameters, and the values of arrays; an object in an array is
\* an element as well, and the reader takes its value only.
RECURSIVE ToJson(_)
ToJson(v) ==
    [i \in DOMAIN v.parts |->
        LET x == v.parts[i].value
        IN  [key |-> v.parts[i].key, type |-> PrintedType(x.kind), json |-> JsonKind(x.kind),
             n |-> Shown(x), elements |-> ToJson(x)]]

\* A text with a number or a character that JSON does not have is refused as a whole.
RECURSIVE IsJson(_)
IsJson(v) ==
    \A x \in PartsOf(v) :
        /\ x.kind \in {"float", "double"} => x.n \notin {Infinity, NaN}
        /\ x.kind = "string" => x.n # Unprintable
        /\ IsJson(x)

\* ParseCrossPlatformArray: the first element decides.
ArrayKind(json) ==
    CASE json = "string" -> "string"
      [] json = "number_integer" -> "long"
      [] json = "number_float" -> "double"
      [] json = "boolean" -> "boolean"
      [] json = "params" -> "params"

\* ParseWantParams, and ParseJson, which does the same for what ToJson has printed.
\* Other types are left out.
RECURSIVE ParseWantParams(_), ParseElement(_)
ParseWantParams(elements) ==
    LET parsed == [i \in DOMAIN elements |-> Part(elements[i].key, ParseElement(elements[i]))]
    IN  Params(SelectSeq(parsed, LAMBDA p : p.value # NoObject))

ParseArray(elements) ==
    LET kind == ArrayKind(elements[1].json)
    IN  Array([i \in DOMAIN elements |->
                IF kind = "params" THEN ParseWantParams(elements[i].elements)
                ELSE Scalar(kind, elements[i].n)])

ParseElement(e) ==
    CASE e.type = 1 -> Scalar("boolean", e.n)
      [] e.type = 5 -> Scalar("int", e.n)
      [] e.type = 9 /\ e.json \in {"number_float", "number_integer"} -> Scalar("double", e.n)
      [] e.type = 10 -> Scalar("string", e.n)
      [] e.type = 101 -> ParseWantParams(e.elements)
      [] e.type = 102 /\ e.elements # << >> -> ParseArray(e.elements)
      [] OTHER -> NoObject

-------------------------------------------------------------------------------
Init ==
    /\ \/ object \in Scripts /\ given = UnwrapWantParams(object)
       \/ object = NoObject /\ given \in Natives
    /\ params = given
    /\ crossed = FALSE /\ steps = 0

Step == steps < MaxSteps /\ steps' = steps + 1 /\ UNCHANGED <<object, given>>

\* A want is copied, as its parameters are.
Copy ==
    /\ Step
    /\ params' = NewParams(params) /\ UNCHANGED crossed

\* A want goes to an ability by way of the platform: ToJson prints a copy, ParseJson fills a
\* new want.
Cross ==
    /\ Step
    /\ params' = IF IsJson(NewParams(params)) THEN ParseWantParams(ToJson(NewParams(params)))
                 ELSE Params(<< >>)
    /\ crossed' = TRUE

\* A script hands on what it was given.
PassOn ==
    /\ Step
    /\ params' = UnwrapWantParams(WrapWantParams(params)) /\ UNCHANGED crossed

Next == Copy \/ Cross \/ PassOn

Spec == Init /\ [][Next]_vars

-------------------------------------------------------------------------------
\* A value that should come back as it was given: arrays of one kind that hold something,
\* objects that stand for nothing else, and for a text, numbers and characters it can carry.
RECURSIVE IsPlain(_)
IsPlain(v) ==
    /\ v.kind # "null"
    /\ v.kind = "number" => v.n # NaN /\ (crossed => v.n # Infinity /\ v.n % Digit = 0)
    /\ v.kind = "string" /\ crossed => v.n # Unprintable
    /\ v.kind = "array" =>
         /\ Cardinality({x.kind : x \in PartsOf(v)}) = 1
         /\ \A x \in PartsOf(v) : x.kind # "array"
    /\ v.kind = "object" =>
         /\ Property(v, "type") # Scalar("string", RemoteObject)
         /\ Property(v, "type") = Scalar("string", FD) => Property(v, "value").n % One = 0
    /\ \A x \in PartsOf(v) : IsPlain(x)

\* A script gets what another script has given, however the want has come to it.
ComesBack == IsPlain(object) => WrapWantParams(params) = object

\* Of what native code has set, what other native code reads with the same type is the same;
\* only arrays of ints have become arrays of longs.
Readable(kind) == kind \in {"boolean", "int", "double", "string"}
ReadsTheSame ==
    object = NoObject /\ IsJson(given) =>
        \A p \in Range(given.parts) :
            LET now == Property(params, p.key)
            IN  /\ Readable(p.value.kind) /\ p.value.n % Digit = 0
                     => JsKind(now.kind) = JsKind(p.value.kind) /\ now.n = p.value.n
                /\ p.value.kind \in {"boolean", "string"} => now.kind = p.value.kind
                /\ p.value.kind = "array" /\ now # NoObject
                     => Len(now.parts) = Len(p.value.parts)

\* What was lost is lost at once: handing on what has come changes nothing more, unless an
\* object has become one that stands for a remote object.
RECURSIVE HasRemote(_)
HasRemote(v) ==
    \/ v.kind = "object" /\ Property(v, "type") = Scalar("string", RemoteObject)
    \/ \E x \in PartsOf(v) : HasRemote(x)
Settles ==
    object # NoObject =>
        LET now == WrapWantParams(params)
        IN  HasRemote(now) \/ WrapWantParams(UnwrapWantParams(now)) = now

\* A copy is equal, unless something was empty.
RECURSIVE HasEmpty(_)
HasEmpty(v) == \E x \in PartsOf(v) : (x.kind = "array" /\ x.parts = << >>) \/ HasEmpty(x)
CopiesAreEqual == Equals(params, NewParams(params)) <=> ~HasEmpty(params)

WantsKept == ComesBack /\ ReadsTheSame /\ Settles /\ CopiesAreEqual
================================================================================
