---------------------------- MODULE ParamsCodec ----------------------------
(***************************************************************************)
(* How a worker takes the parameters out of a job (worker/util.c, and      *)
(* DecodePack and the end of ReadNmidRes in worker/rw.c).  A client sends  *)
(* strings "key:value"; msgpack prints them as one text, ["k:v", "k:v"],   *)
(* and the values are cut out of that text: as many as it has colons, each *)
(* up to the next comma, the last up to the next bracket.  The buffer the  *)
(* text is printed into is sized by the packed parameters and may be too   *)
(* small for it.                                                           *)
(*                                                                         *)
(* One Response serves all jobs of a connection: what a job leaves in it   *)
(* is what the next one finds.                                             *)
(***************************************************************************)
EXTENDS Integers, SequencesExt

CONSTANTS
    Chars,  \* the characters of parameters; ":", "," and "]" have a meaning
    Inputs  \* the parameters a job may come with: sequences of strings

\* What stands between two parameters.
Comma == ","
Space == " "

\* More or longer parameters have headers of three bytes, which are not
\* modelled but for an array's of up to 255.
ASSUME InputAssumption ==
    /\ {":", Comma, "]"} \subseteq Chars /\ {"'", "["} \cap Chars = {}
    /\ Inputs \subseteq Seq(Seq(Chars))
    /\ \A p \in Inputs : Len(p) < 256 /\ \A i \in DOMAIN p : Len(p[i]) < 256

VARIABLES
    proc,  \* "run", "abort" after a failed assertion, "ub", or "crash" when
           \* the variables DecodePack prints without having set them end it
    at,    \* where ReadNmidRes is: "idle", "scan", "run" or "free"
    sent,  \* the parameters of the job
    text,  \* what GetParamsArr has still to go through
    num,   \* Res->paramsNum
    arr,   \* the slots of the array that have been filled
    held   \* the array Res->paramsArr points to: "null", "live" or "freed"

vars == <<proc, at, sent, text, num, arr, held>>
job == <<sent, text, arr>>

-----------------------------------------------------------------------------
(* The text.                                                               *)

Quoted(s) == <<"'">> \o s \o <<"'">>
Separated(p) == [i \in DOMAIN p |-> IF i = 1 THEN Quoted(p[i]) ELSE <<Comma, Space>> \o Quoted(p[i])]
Printed(p) == <<"[">> \o FlattenSeq(Separated(p)) \o <<"]">>

\* The parameters as they were packed: an array of strings, each a header of
\* one or two bytes and the characters. The client's and the server's length
\* fields around them are left out.
StrHeader(n) == IF n < 32 THEN <<160 + n>> ELSE <<217, n>>
Packed(p) == FlattenSeq([i \in DOMAIN p |-> StrHeader(Len(p[i])) \o p[i]])
PackLen(p) == 1 + Len(Packed(p))

\* What is printed: into 2 * PackLen bytes, the last for the zero. With 16
\* parameters the array's header has three bytes, the second is zero, and
\* strncpy stops there: what is left is an array of nothing.
EmptyArray == <<"[", "]">>
Text(p) ==
    IF Len(p) > 15 THEN EmptyArray
    ELSE IF Len(Printed(p)) < 2 * PackLen(p) THEN Printed(p)
    ELSE SubSeq(Printed(p), 1, 2 * PackLen(p) - 1)

\* memchr: the place of the first c in t, 0 if there is none.
Places(c, t) == {i \in DOMAIN t : t[i] = c}
Place(c, t) == IF Places(c, t) = {} THEN 0 ELSE Min(Places(c, t))
From(t, i) == SubSeq(t, i, Len(t))

Occurrences(c, t) == Cardinality(Places(c, t))
ElementsCounted(t) == Occurrences(Comma, t) + 1
GetParamsNum(t) == Occurrences(":", t)

Init ==
    /\ proc = "run" /\ at = "idle" /\ held = "null" /\ num = 0
    /\ sent = <<>> /\ text = <<>> /\ arr = <<>>

-----------------------------------------------------------------------------
(* DecodePack.                                                             *)

\* ResMsgPackArrDecode prints tmp_buf, which it has set only if the first
\* paramsNum bytes, the last job's, hold an array; ResMsgPackDecode indexes the
\* array with an i it never set and prints a buf_arr[0] it may not have set.
\* None of it has a use, but it may crash on any job.
PrintUnset(p) ==
    /\ at = "idle"
    /\ sent' = p /\ proc' = "crash"
    /\ UNCHANGED <<at, text, num, arr, held>>

Decode(p) ==
    /\ at = "idle" /\ GetParamsNum(Text(p)) > 0
    /\ at' = "scan"
    /\ sent' = p /\ text' = Text(p) /\ arr' = <<>>
    /\ num' = GetParamsNum(text')
    /\ UNCHANGED <<proc, held>>

\* Without a colon ResMsgPackDecode returns the tmp_buf it never set. What that
\* points to may be read as text without a colon: DecodePack fails, and what
\* the last job left in Res stays.
DecodeNothing(p) ==
    /\ at = "idle" /\ GetParamsNum(Text(p)) = 0
    /\ sent' = p /\ at' = "free"
    /\ proc' \in {"run", "ub"}
    /\ UNCHANGED <<text, num, arr, held>>

-----------------------------------------------------------------------------
(* GetParamsArr.                                                           *)

IsLast == Len(arr) = num - 1
Stop == IF IsLast THEN "]" ELSE Comma

\* The text is ended i characters after the colon, so that the quote goes with
\* the stop; with i = 0 the colon itself is overwritten. A single parameter is
\* not ended here.
CutAtStop(t, i) == SubSeq(t, 1, i)
Cut(t, i) == IF num = 1 \/ i = 0 THEN t ELSE SubSeq(t, 1, i - 1)

SubStrLastVal(t) ==
    IF Place("]", t) = 0 \/ Len(t) - 2 < 2 THEN t ELSE SubSeq(t, 1, Len(t) - 2)

MoreValues == Place(":", text) # 0 /\ Len(arr) < num

\* One round of the loop. If the stop is not there the loop looks for it in
\* whatever follows the text in memory.
NextValue ==
    /\ at = "scan" /\ MoreValues
    /\ LET tail == From(text, Place(":", text) + 1)
           i == Place(Stop, tail) - 1
           value == Cut(tail, i)
       IN IF num > 1 /\ i < 0
            THEN proc' = "ub" /\ UNCHANGED <<text, arr>>
            ELSE /\ arr' = Append(arr, IF IsLast THEN SubStrLastVal(value) ELSE value)
                 /\ text' = IF num > 1 THEN From(tail, i + 1) ELSE tail
                 /\ proc' = proc
    /\ UNCHANGED <<at, sent, num, held>>

Decoded ==
    /\ at = "scan" /\ ~MoreValues
    /\ at' = "run" /\ held' = "live"
    /\ UNCHANGED <<proc, job, num>>

\* WorkerDo runs the function, or finds none.
Do ==
    /\ at = "run" /\ at' = "free"
    /\ UNCHANGED <<proc, job, num, held>>

-----------------------------------------------------------------------------
(* FreeParamsArr at the end of ReadNmidRes. It asserts that there is an    *)
(* array, frees all its slots, those that were never written too, and      *)
(* leaves the pointer and paramsNum as they are.                           *)
Unreleased == "live"
Released == "freed"

Free ==
    /\ at = "free" /\ held = "live" /\ Len(arr) = num
    /\ at' = "idle" /\ held' = Released
    /\ sent' = <<>> /\ text' = <<>> /\ arr' = <<>>
    /\ UNCHANGED <<proc, num>>

FreeFails ==
    /\ at = "free"
    /\ \/ held = "null" /\ proc' = "abort"
       \/ held = "freed" /\ proc' = "ub"
       \/ held = "live" /\ Len(arr) < num /\ proc' = "ub"
    /\ UNCHANGED <<at, job, num, held>>

-----------------------------------------------------------------------------
Next ==
    /\ proc = "run"
    /\ \/ \E p \in Inputs : PrintUnset(p) \/ Decode(p) \/ DecodeNothing(p)
       \/ NextValue \/ Decoded \/ Do \/ Free \/ FreeFails

Spec == Init /\ [][Next]_vars

-----------------------------------------------------------------------------
(* Properties.                                                             *)

\* The shape of every variable; Res has a live array while a function runs,
\* and only then and until it is freed.
TypeOK ==
    /\ proc \in {"run", "abort", "ub", "crash"} /\ at \in {"idle", "scan", "run", "free"}
    /\ sent \in Inputs \cup {<<>>} /\ num \in Nat /\ Len(arr) <= num
    /\ held \in {"null", "live", "freed"}
    /\ at = "run" => held = "live"
    /\ at \in {"idle", "scan"} => held # "live"

Colons(s) == Occurrences(":", s)
Has(c, s) == Place(c, s) # 0

\* What the client meant: the part after the colon of each parameter that has
\* one, in their order.
Value(s) == From(s, Place(":", s) + 1)
Paired(p) == {i \in DOMAIN p : Has(":", p[i])}
Rank(i, I) == Cardinality({j \in I : j <= i})
Nth(k, I) == CHOOSE i \in I : Rank(i, I) = k
Meant(p) == [k \in 1 .. Cardinality(Paired(p)) |-> Value(p[Nth(k, Paired(p))])]

\* The text of a job's parameters is whole: they are 1 to 15, and have together
\* at least one character less than twice as many as they are.
Fits(p) == Text(p) = Printed(p)
Missing(p) == Len(Printed(p)) - Len(Text(p))

\* Cut at the right place: the last value is looked for up to the bracket that
\* ends the text; it is taken as it is when it is alone or begins with a bracket,
\* but for two characters at its end if there is a bracket in it and four
\* characters. These are the quote and the bracket of the text, if it is whole.
LastWhole(p, v, n) ==
    IF n = 1 \/ Place("]", v) = 1
    THEN IF Fits(p) THEN Len(v) >= 2 ELSE Missing(p) = 2 /\ (Has("]", v) => Len(v) < 4)
    ELSE Fits(p) /\ ~Has("]", v)

\* The parameters that come through: the last has a colon, none has two, of
\* several values those before the last have no comma, and the last is taken.
Clean(p) ==
    /\ p # <<>>
    /\ \A i \in DOMAIN p : Colons(p[i]) <= 1
    /\ Has(":", p[Len(p)])
    /\ LET v == Meant(p) n == Len(v)
       IN /\ \A i \in 1 .. n - 1 : ~Has(Comma, v[i])
          /\ LastWhole(p, v[n], n)

\* A function is called with the values the client sent, all of them and
\* nothing else, exactly if the parameters are clean in this sense; whatever
\* jobs came before makes no difference.
DecodedIff ==
    at = "run" => (arr = Meant(sent) /\ Len(arr) = num <=> Clean(sent))

\* Apart from the variables that are only printed: decoding reads beyond the
\* text, or a slot is freed that was never filled, only if a parameter of this
\* job has two colons or the text of the job did not fit; an earlier job's
\* array is freed again, or a variable is used that was never set, only if no
\* parameter of this job has a colon or the text did not fit.
UndefinedOnlyIf ==
    proc = "ub" =>
        \/ ~Fits(sent)
        \/ IF at = "scan" \/ held = "live"
           THEN \E i \in DOMAIN sent : Colons(sent[i]) > 1
           ELSE \A i \in DOMAIN sent : Colons(sent[i]) = 0
=============================================================================
