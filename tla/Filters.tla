------------------------------ MODULE Filters ------------------------------
(***************************************************************************)
(* Query-time filters (engine/typed_filter.go, filter.go, payload.go): the *)
(* canonical form of a parsed filter, its compilation to a path trie, and  *)
(* the one strict pass that evaluates it over a payload.                   *)
(*                                                                         *)
(* Two filters are spelled out, alternative by alternative, so that their  *)
(* forms can be compared; and a payload arrives token by token.  A key     *)
(* token includes its colon.  Tokens are texts; Meaning gives the scalar a *)
(* text spells, a pair <<kind, value>>, where the value of a number is its *)
(* sign, digits and exponent, and that of a string its rank among strings. *)
(* The lexical rules are left out: Junk is any token that breaks them.     *)
(* Exponents are not saturated.                                            *)
(***************************************************************************)
EXTENDS Integers, Sequences, FiniteSets, FiniteSetsExt, SequencesExt

CONSTANTS
    Meaning,          \* scalar a text spells
    Spellings,        \* texts of a filter's alternatives
    Declared,         \* Filterable: logical name -> path
    Requests,         \* filters to evaluate: sequences of [name, alts]
    Keys,             \* object keys of payloads
    Scalars,          \* scalar texts of payloads
    Junk,             \* a malformed token
    MaxAlternatives,  \* maxTypedFilterAlternatives
    MaxSignificant,   \* maxTypedFilterSignificant
    MaxExponent,      \* maxTypedFilterExponent
    MaxTokens         \* bound: tokens of a payload

VARIABLES
    spelled,  \* two filter values, as sequences of spellings
    request,  \* the filter to evaluate
    tokens,   \* payload tokens read, "end" after the last
    scan      \* the payloadScan with its call stack

filterVars == <<spelled, request, tokens, scan>>

Error == [error |-> TRUE]

----------------------------------------------------------------------------
(* Numbers: a token is sign, digits before and after the point, exponent.  *)

Zeros(n) == [i \in 1 .. n |-> 0]

\* canonicalNumberTokenBytes: its significant digits and their exponent.
Places(tok) == {i \in DOMAIN (tok.int \o tok.frac) : (tok.int \o tok.frac)[i] # 0}
Significant(tok) == SubSeq(tok.int \o tok.frac, Min(Places(tok)), Max(Places(tok)))
ScaleExp(tok) == tok.exp - Len(tok.frac) + Len(tok.int \o tok.frac) - Max(Places(tok))

\* Zero, or within the precision envelope.
Comparable(tok) ==
    Places(tok) # {} =>
        /\ Len(Significant(tok)) <= MaxSignificant
        /\ Len(Significant(tok)) - 1 + ScaleExp(tok) \in -MaxExponent .. MaxExponent

\* Fixed decimal, no redundant digit, one zero.
canonicalNumber(tok) ==
    LET digits == Significant(tok)
        decimalPos == Len(digits) + ScaleExp(tok)
    IN IF Places(tok) = {} THEN [neg |-> FALSE, int |-> <<0>>, frac |-> <<>>]
       ELSE CASE decimalPos <= 0 ->
                   [neg |-> tok.neg, int |-> <<0>>, frac |-> Zeros(-decimalPos) \o digits]
              [] decimalPos >= Len(digits) ->
                   [neg |-> tok.neg, int |-> digits \o Zeros(decimalPos - Len(digits)), frac |-> <<>>]
              [] OTHER ->
                   [neg |-> tok.neg, int |-> SubSeq(digits, 1, decimalPos),
                    frac |-> SubSeq(digits, decimalPos + 1, Len(digits))]

Sign(n) == IF n < 0 THEN -1 ELSE IF n > 0 THEN 1 ELSE 0

\* The first different digit decides; the shorter fraction ends in zeros.
compareDigits(s, t) ==
    LET n == Max({Len(s), Len(t)})
        at(d, i) == IF i <= Len(d) THEN d[i] ELSE 0
        differ == {i \in 1 .. n : at(s, i) # at(t, i)}
    IN IF differ = {} THEN 0 ELSE Sign(at(s, Min(differ)) - at(t, Min(differ)))

compareCanonicalMagnitudes(a, b) ==
    IF Len(a.int) # Len(b.int) THEN Sign(Len(a.int) - Len(b.int))
    ELSE IF a.int # b.int THEN compareDigits(a.int, b.int) ELSE compareDigits(a.frac, b.frac)

compareUnsigned(a, b) ==
    IF a = b THEN 0
    ELSE IF a.neg # b.neg THEN IF a.neg THEN -1 ELSE 1
    ELSE compareCanonicalMagnitudes(a, b)

compareCanonicalNumbers(a, b) ==
    IF a = b THEN 0
    ELSE IF a.neg # b.neg THEN IF a.neg THEN -1 ELSE 1
    ELSE IF a.neg THEN -compareCanonicalMagnitudes(a, b) ELSE compareCanonicalMagnitudes(a, b)

----------------------------------------------------------------------------
(* Scalars and values of a filter.                                         *)

Rank(kind) == CASE kind = "false" -> 0 [] kind = "true" -> 1 [] kind = "number" -> 2 [] kind = "string" -> 3

\* parseTypedScalar refuses null and a number outside the envelope.
Accepted(text) ==
    LET s == Meaning[text] IN s[1] # "null" /\ (s[1] = "number" => Comparable(s[2]))

parseTypedScalar(text) ==
    LET s == Meaning[text] IN IF s[1] = "number" THEN <<"number", canonicalNumber(s[2])>> ELSE s

compareFilterScalar(a, b) ==
    IF a[1] # b[1] THEN Sign(Rank(a[1]) - Rank(b[1]))
    ELSE CASE a[1] = "number" -> compareCanonicalNumbers(a[2], b[2])
           [] a[1] = "string" -> Sign(a[2] - b[2])
           [] OTHER -> 0

\* Sorted, neighbours that compare equal merged.
canonicalSet(scalars) ==
    LET ordered == SortSeq(scalars, LAMBDA a, b : compareFilterScalar(a, b) < 0)
        merge(out, s) == IF out # <<>> /\ compareFilterScalar(Last(out), s) = 0 THEN out ELSE Append(out, s)
    IN FoldLeft(merge, <<>>, ordered)

\* parseTypedFilterValue and parseTypedIn: a set with one member left is
\* that scalar.  The canonical JSON of finishTypedFilter spells this value.
parseTypedIn(alts) ==
    LET out == canonicalSet([i \in DOMAIN alts |-> parseTypedScalar(alts[i])])
    IN IF alts = <<>> \/ Len(alts) > MaxAlternatives \/ \E a \in ToSet(alts) : ~Accepted(a) THEN Error
       ELSE [in |-> Len(out) > 1, scalars |-> out]

----------------------------------------------------------------------------
(* Compilation: a node of the trie is the path that leads to it.           *)

\* An undeclared name or a bad value fails the whole filter.
Compiles(terms) ==
    \A i \in DOMAIN terms : terms[i].name \in DOMAIN Declared /\ parseTypedIn(terms[i].alts) # Error

compileTypedFilter(terms) ==
    [i \in DOMAIN terms |-> [segs |-> Declared[terms[i].name], value |-> parseTypedIn(terms[i].alts)]]

NoNode == <<"none">>

\* filterNode.child: the node of a key, or none.
child(cf, node, key) ==
    LET next == Append(node, key)
    IN IF node # NoNode /\ \E i \in DOMAIN cf : IsPrefix(next, cf[i].segs) THEN next ELSE NoNode

\* matchesString and matchesScalar; a number outside the envelope matches
\* none, and neither does null.
matches(value, text) == Accepted(text) /\ Contains(value.scalars, parseTypedScalar(text))

----------------------------------------------------------------------------
(* The strict pass: payloadScan, its recursion as a stack of frames.       *)

StartScan == [stack |-> <<>>, want |-> "value", node |-> <<>>, bits |-> {}, status |-> "scanning"]

Malformed(s) == [s EXCEPT !.status = "malformed", !.stack = <<>>, !.node = NoNode]

\* A value is complete.
After(s) == [s EXCEPT !.want = IF s.stack = <<>> THEN "end" ELSE "sep", !.node = NoNode]

Top(s) == s.stack[Len(s.stack)]

Enter(s, kind, want) == [s EXCEPT !.stack = Append(@, [kind |-> kind, node |-> s.node]), !.want = want]

Leave(s) == After([s EXCEPT !.stack = Front(@)])

\* The terms that end at this node and match, in addition to those that did.
Fired(cf, s, t) == s.bits \cup {i \in DOMAIN cf : cf[i].segs = s.node /\ matches(cf[i].value, t)}

\* walkValue, and skipValue when the node is none.
walkValue(cf, s, t) ==
    CASE t = "{" -> Enter(s, "object", "firstkey")
      [] t = "[" -> Enter(s, "array", "first")
      [] t \in Scalars -> After([s EXCEPT !.bits = Fired(cf, s, t)])
      [] OTHER -> Malformed(s)

\* walkObject and skipObject.
walkObject(cf, s, t) ==
    IF t \in Keys /\ s.want \in {"firstkey", "key"}
    THEN [s EXCEPT !.want = "value", !.node = child(cf, Top(s).node, t)]
    ELSE IF t = "}" /\ s.want \in {"firstkey", "sep"} THEN Leave(s)
    ELSE IF t = "," /\ s.want = "sep" THEN [s EXCEPT !.want = "key"]
    ELSE Malformed(s)

\* walkArray and skipArray: the elements are walked at the array's node.
walkArray(cf, s, t) ==
    IF t = "]" /\ s.want \in {"first", "sep"} THEN Leave(s)
    ELSE IF t = "," /\ s.want = "sep" THEN [s EXCEPT !.want = "value", !.node = Top(s).node]
    ELSE IF s.want = "first" THEN walkValue(cf, [s EXCEPT !.node = Top(s).node], t)
    ELSE Malformed(s)

\* eval: nothing may follow the value, and all terms must have matched.
evalEnd(cf, s) ==
    IF s.want # "end" THEN Malformed(s)
    ELSE [s EXCEPT !.status = IF s.bits = DOMAIN cf THEN "pass" ELSE "reject"]

AdvanceEager(cf, s, t) ==
    IF s.bits = DOMAIN cf THEN [s EXCEPT !.status = "pass"]
    ELSE CASE t = "end" -> evalEnd(cf, s)
      [] t # "end" /\ s.want = "value" -> walkValue(cf, s, t)
      [] t # "end" /\ s.want = "end" -> Malformed(s)
      [] OTHER -> IF Top(s).kind = "object" THEN walkObject(cf, s, t) ELSE walkArray(cf, s, t)

\* The next token, whatever has matched so far.
Advance(cf, s, t) ==
    CASE t = "end" -> evalEnd(cf, s)
      [] t # "end" /\ s.want = "value" -> walkValue(cf, s, t)
      [] t # "end" /\ s.want = "end" -> Malformed(s)
      [] OTHER -> IF Top(s).kind = "object" THEN walkObject(cf, s, t) ELSE walkArray(cf, s, t)

----------------------------------------------------------------------------
FilterInit ==
    /\ spelled = <<<<>>, <<>>>>
    /\ request \in Requests \cup {<<>>}
    /\ tokens = <<>> /\ scan = StartScan

\* One more alternative of one of two IN sets; the first may get too many.
Spell(side, sp) ==
    /\ request = <<>> /\ scan = StartScan
    /\ Len(spelled[side]) < MaxAlternatives + 2 - side
    /\ spelled' = [spelled EXCEPT ![side] = Append(@, sp)]
    /\ UNCHANGED <<request, tokens, scan>>

\* A filter that does not compile is an error before any payload is read.
Undeclared ==
    /\ scan = StartScan /\ tokens = <<>>
    /\ ~Compiles(request)
    /\ scan' = [scan EXCEPT !.status = "refused"]
    /\ UNCHANGED <<spelled, request, tokens>>

Feed(t) ==
    /\ request # <<>> /\ scan.status = "scanning"
    /\ Compiles(request)
    /\ t = "end" \/ Len(tokens) < MaxTokens
    /\ scan' = Advance(compileTypedFilter(request), scan, t)
    /\ tokens' = Append(tokens, t)
    /\ UNCHANGED <<spelled, request>>

Marks == {"{", "}", "[", "]", ","}

FilterNext ==
    \/ \E side \in 1 .. 2, sp \in Spellings : Spell(side, sp)
    \/ Undeclared
    \/ \E t \in Marks \cup Keys \cup Scalars \cup {Junk, "end"} : Feed(t)

FilterSpec == FilterInit /\ [][FilterNext]_filterVars

----------------------------------------------------------------------------
(* What filters should mean.                                               *)

\* The number a token denotes, times ten to MaxExponent + MaxSignificant.
Valuation(tok) ==
    LET all == tok.int \o tok.frac
        n == FoldLeft(LAMBDA v, d : 10 * v + d, 0, all)
        shift == tok.exp - Len(tok.frac) + MaxExponent + MaxSignificant
    IN (IF tok.neg THEN -1 ELSE 1) * n * 10 ^ shift

Denotes(s) == IF s[1] = "number" THEN <<"number", Valuation(s[2])>> ELSE s

\* The payload without its end.
Payload == SelectSeq(tokens, LAMBDA t : t # "end")

\* A token sequence is one JSON value.
RECURSIVE IsValue(_), IsList(_), IsMembers(_)
IsValue(s) ==
    \/ Len(s) = 1 /\ s[1] \in Scalars
    \/ /\ Len(s) >= 2 /\ s[1] = "[" /\ Last(s) = "]"
       /\ Len(s) = 2 \/ IsList(SubSeq(s, 2, Len(s) - 1))
    \/ /\ Len(s) >= 2 /\ s[1] = "{" /\ Last(s) = "}"
       /\ Len(s) = 2 \/ IsMembers(SubSeq(s, 2, Len(s) - 1))
IsList(s) ==
    \/ IsValue(s)
    \/ \E i \in 2 .. Len(s) - 1 : s[i] = "," /\ IsValue(SubSeq(s, 1, i - 1)) /\ IsList(SubSeq(s, i + 1, Len(s)))
IsMembers(s) ==
    /\ s[1] \in Keys
    /\ \/ IsValue(Tail(s))
       \/ \E i \in 3 .. Len(s) - 1 :
            s[i] = "," /\ IsValue(SubSeq(s, 2, i - 1)) /\ IsMembers(SubSeq(s, i + 1, Len(s)))

\* Nesting before a token, and the path of a token: the keys it is under.
Depth(i) ==
    Cardinality({j \in 1 .. i - 1 : tokens[j] \in {"{", "["}}) - Cardinality({j \in 1 .. i - 1 : tokens[j] \in {"}", "]"}})

PathTo(i) ==
    LET over(j) == \A m \in j + 1 .. i : Depth(m) >= Depth(j) /\ ~(tokens[m] = "," /\ Depth(m) = Depth(j))
        keys == SelectSeq([j \in 1 .. i - 1 |-> j], LAMBDA j : tokens[j] \in Keys /\ over(j))
    IN [n \in DOMAIN keys |-> tokens[keys[n]]]

\* Every term has a value on its path that denotes one of its alternatives.
Passes ==
    \A n \in DOMAIN request :
        \E i \in DOMAIN tokens :
            /\ tokens[i] \in Scalars /\ tokens[i] # "null"
            /\ PathTo(i) = Declared[request[n].name]
            /\ \E a \in ToSet(request[n].alts) : Denotes(Meaning[a]) = Denotes(Meaning[tokens[i]])

\* Ways to complete a prefix: a value or a member may be missing, and the
\* brackets still open are closed.
Completions ==
    LET isOpen(i) == tokens[i] \in {"{", "["} /\ \A m \in i + 1 .. Len(tokens) + 1 : Depth(m) > Depth(i)
        open == Reverse(SelectSeq([i \in DOMAIN tokens |-> i], isOpen))
        closers == [n \in DOMAIN open |-> IF tokens[open[n]] = "{" THEN "}" ELSE "]"]
        some == CHOOSE s \in Scalars : TRUE
        key == CHOOSE k \in Keys : TRUE
    IN {Payload \o fill \o closers : fill \in {<<>>, <<some>>, <<key, some>>}}

----------------------------------------------------------------------------
(* Properties.                                                             *)

\* Types of a filter evaluation.
FilterTypeOK ==
    /\ \A side \in 1 .. 2 : ToSet(spelled[side]) \subseteq Spellings
    /\ request \in Requests \cup {<<>>}
    /\ scan.status \in {"scanning", "malformed", "refused", "pass", "reject"}
    /\ scan.want \in {"value", "first", "firstkey", "key", "sep", "end"}
    /\ \A i \in DOMAIN scan.stack : scan.stack[i].kind \in {"object", "array"}

\* Two accepted filter values have one canonical form exactly if they mean
\* the same set of scalars, however they are spelled, ordered and repeated;
\* and the form lists them in order (parseTypedIn, canonicalNumberToken,
\* compareFilterScalar).
OneFormPerMeaning ==
    LET form == [side \in 1 .. 2 |-> parseTypedIn(spelled[side])]
        meaning(side) == {Denotes(Meaning[text]) : text \in ToSet(spelled[side])}
        below(a, b) == Rank(a[1]) < Rank(b[1]) \/ (a[1] = b[1] /\ a[2] < b[2])
        numeric(s) == IF s[1] = "number" THEN Denotes(<<"number", s[2] @@ [exp |-> 0]>>) ELSE s
    IN (form[1] # Error /\ form[2] # Error) =>
         /\ form[1] = form[2] <=> meaning(1) = meaning(2)
         /\ \A i \in 1 .. Len(form[1].scalars) - 1 :
              below(numeric(form[1].scalars[i]), numeric(form[1].scalars[i + 1]))

\* One pass over the trie decides what the terms mean one by one, over
\* objects, repeated keys and nested arrays, and a payload is malformed exactly
\* if it is not one JSON value: a broken tail is never hidden by terms that
\* matched before it, nor by a subtree no term looks into, and a sound payload
\* is never refused (eval, walkValue, skipValue).
VerdictIsRight ==
    LET ended == Len(Payload) < Len(tokens)
    IN /\ scan.status \in {"pass", "reject"} =>
            IsValue(Payload) /\ (scan.status = "pass" <=> Passes)
       /\ scan.status = "malformed" =>
            IF ended THEN ~IsValue(Payload) ELSE ~\E c \in Completions : IsValue(c)
=============================================================================
