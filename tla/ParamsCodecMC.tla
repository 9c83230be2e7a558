--------------------------- MODULE ParamsCodecMC ---------------------------
(* Values for the constants of ParamsCodec, over a letter and the          *)
(* characters that have a meaning: single strings of up to four            *)
(* characters, pairs of strings of up to two or of a colon and two, and    *)
(* triples of a colon and up to one character, or one character; four of   *)
(* which the last has a value, so that the text is cut inside its end; and *)
(* the numbers of parameters between which the array's header changes.     *)
EXTENDS ParamsCodec

Alphabet == {"x", ":", ",", "]"}
Strings(n) == UNION {[1 .. m -> Alphabet] : m \in 0 .. n}
Keyless(n) == {<<":">> \o v : v \in Strings(n)}
Singles == {<<s>> : s \in Strings(4)}
Pairs == [1 .. 2 -> Strings(2) \cup Keyless(2)]
Triples == [1 .. 3 -> Strings(1) \cup Keyless(1)]
Cuts == {<<<<>>, <<>>, <<>>, <<":">> \o v>> : v \in Strings(4)}
Many == {[i \in 1 .. n |-> <<":", "x">>] : n \in {15, 16}}
Params == {<<>>} \cup Singles \cup Pairs \cup Triples \cup Cuts \cup Many

\* What it takes for a text to fit.
ASSUME FitsMeans ==
    \A p \in Params : Fits(p) <=>
        Len(p) \in 1 .. 15 /\ Len(FlattenSeq(p)) >= 2 * Len(p) - 1
=============================================================================
