--------------------------- MODULE ArtifactLayout ---------------------------
(* The layout of a prepared artifact: parseTable and the section parsers of  *)
(* NewView read a buffer word by word and check every word before they use   *)
(* it; Encode writes one.  The words are either anything at all or what      *)
(* Encode wrote for some contents.                                           *)
(*                                                                           *)
(* Simplifications: a cell of a section stands for a word, or for a byte of  *)
(* a blob, so a row of 48 bytes has six cells; words are WordBits wide and   *)
(* wrap; a frozen bitmap is the set it stores and roaring's size for it; the *)
(* content of padding and of the two metadata sections is left out.          *)
EXTENDS Integers, FiniteSets, SequencesExt

CONSTANTS WordBits,   \* width of a word (64)
          Words,      \* the words a foreign file may hold
          Align,      \* alignment of sections and bitmaps (32 bytes)
          LenBits,    \* width of a run length in exact's packed locator (20)
          Chars, Bad, \* bytes of text, of which Bad is not valid UTF-8
          Foreign,    \* the words are not Encode's
          Tables,     \* kinds and flags of the section tables to read
          SomeRecords, SomeExact, SomeNgram,  \* contents to encode
          MaxCells, MaxBlob, MaxExact, MaxOrd  \* bounds

VARIABLES section,  \* what is parsed: the table or one section's body
          step,     \* the next word to read, or how parsing ended
          read,     \* what has been accepted so far
          want      \* the words Encode wrote, or Foreign

layoutVars == <<section, step, read, want>>

Top == 2 ^ WordBits - 1
keysNullFlag == 2 ^ (WordBits - 1)
MaxUint32 == 2 ^ (WordBits - 2) - 1
maxRun == 2 ^ LenBits - 1

\* Words fit their width, bounds count, and a table has kinds and flags.
LayoutConstants ==
    /\ Top \in Nat /\ keysNullFlag \in Nat \ {0}
    /\ Words \subseteq 0 .. Top
    /\ Align \in Nat \ {0}
    /\ Tables \subseteq Seq([kind : STRING, required : BOOLEAN])
    /\ MaxCells \in Nat /\ MaxOrd \in Nat /\ MaxExact \in Nat \ {0}

ASSUME LayoutAssumption == LayoutConstants

\* A word of the file, a pair of them, and a stretch of blob bytes.
Word(w) == IF want = Foreign THEN Words ELSE {w}
At(off, length) == [off |-> off, length |-> length]
Field(f) == IF want = Foreign THEN [off : Words, length : Words] ELSE {f}
Bytes(n, blob) == IF want = Foreign THEN [1 .. n -> Chars] ELSE {blob}

Refuse == step' = "malformed" /\ read' = <<>> /\ UNCHANGED <<section, want>>
Go(next, r) == step' = next /\ read' = r /\ UNCHANGED <<section, want>>
Parsing(s, at) == section = s /\ step = at

\* Words in S are checked before they are used: ok, or the file is refused.
Checked(S, ok(_), go(_)) ==
    \/ \E w \in {x \in S : ok(x)} : go(w)
    \/ ~(\A w \in S : ok(w)) /\ Refuse

align32(n) == ((n + Align - 1) \div Align) * Align
Text(blob, f) == SubSeq(blob, f.off + 1, f.off + f.length)
Valid(text) == \A i \in DOMAIN text : text[i] # Bad

\* Bytewise order of strings.
Less(s, t) ==
    \/ IsStrictPrefix(s, t)
    \/ \E i \in DOMAIN s \cap DOMAIN t :
         s[i] < t[i] /\ SubSeq(s, 1, i - 1) = SubSeq(t, 1, i - 1)

\* n elements of elem cells fit in what follows a count at off (of len cells),
\* with reserve cells to spare.
count(n, len, off, elem, reserve) ==
    /\ off + 1 <= len
    /\ reserve <= len - off - 1
    /\ n <= (len - off - 1 - reserve) \div elem
    /\ n <= MaxUint32

----------------------------------------------------------------------------
(* The header and section table: parseTable, and the layout of Encode.       *)

headLen(n) == 1 + n
end(s) == (s.off + s.length) % (Top + 1)

\* Mutant: the sum is compared without the check that it does not wrap.
FitsFileWrapped(s, size) == end(s) <= size

FitsFile(s, size) ==
    /\ s.length <= Top - s.off
    /\ end(s) <= size

FollowsTable(s, t) ==
    IF t.secs = <<>> THEN s.off >= align32(headLen(Len(t.kinds)))
    ELSE s.off > Last(t.secs).off /\ s.off >= end(Last(t.secs))

ReadSection ==
    /\ Parsing("table", "sections") /\ Len(read.secs) < Len(read.kinds)
    /\ Checked(Field(want.secs[Len(read.secs) + 1]),
         LAMBDA s : s.off % Align = 0 /\ FitsFile(s, read.size) /\ FollowsTable(s, read),
         LAMBDA s : Go(step, [read EXCEPT !.secs = Append(@, s)]))

knownKind == {"config", "build", "records", "ids", "ngram", "exact", "companion"}

KindsFit(kinds) ==
    LET present == {kinds[i].kind : i \in DOMAIN kinds}
    IN /\ Cardinality(present) = Len(kinds)
       /\ \A i \in DOMAIN kinds : kinds[i].required => kinds[i].kind \in knownKind
       /\ {"config", "build", "records", "ids"} \subseteq present
       /\ ("ngram" \in present) # ("exact" \in present)
       /\ "companion" \in present => "ngram" \in present

EndTable ==
    /\ Parsing("table", "sections") /\ Len(read.secs) = Len(read.kinds)
    /\ IF end(Last(read.secs)) = read.size /\ KindsFit(read.kinds)
       THEN Go("accepted", read) ELSE Refuse

\* The table Encode writes for section bodies of these lengths.
EncodedTable(kinds, lengths) ==
    LET place(secs, n) ==
            Append(secs, At(align32(IF secs = <<>> THEN headLen(Len(lengths))
                                    ELSE end(Last(secs))), n))
        secs == FoldLeft(place, <<>>, lengths)
    IN [kinds |-> kinds, secs |-> secs, size |-> end(Last(secs))]

----------------------------------------------------------------------------
(* The records section: parseRecords, encodeRecords and View's accessors.    *)

ReadRecordCount ==
    /\ Parsing("records", "count")
    /\ Checked(Word(want.n), LAMBDA n : count(n, read.len, 0, 6, 1),
               LAMBDA n : Go("keycount", [read EXCEPT !.n = n]))

NextRecord(r) == IF Len(r.rows) < r.n THEN "id" ELSE "records"

\* Bound: foreign blobs of at most MaxBlob bytes.
ReadKeyCount ==
    /\ Parsing("records", "keycount")
    /\ LET rowsEnd == 1 + 6 * read.n
           size(nk) == read.len - (rowsEnd + 1 + 2 * nk)
       IN Checked(Word(want.nk), LAMBDA nk : count(nk, read.len, rowsEnd, 2, 0),
            LAMBDA nk :
              /\ want = Foreign => size(nk) <= MaxBlob
              /\ \E blob \in Bytes(size(nk), want.blob) :
                   Go(NextRecord(read), [read EXCEPT !.nk = nk, !.blob = blob]))

\* Canonical packing: every field starts at the running cursor.
take(f, what) ==
    /\ f.off = read.cur
    /\ f.length <= Len(read.blob) - read.cur
    /\ what # "payload" => Valid(Text(read.blob, f))

TakeID ==
    /\ Parsing("records", "id")
    /\ Checked(Field(want.rows[Len(read.rows) + 1].id),
         LAMBDA f : f.length # 0 /\ take(f, "id"),
         LAMBDA f : Go("keys", [read EXCEPT !.cur = @ + f.length, !.rows = Append(@, [id |-> f])]))

KeyRangeFits(start, kc) ==
    /\ kc >= keysNullFlag => kc = keysNullFlag
    /\ start = read.kIdx
    /\ kc % keysNullFlag <= read.nk - read.kIdx

TakeKeyRange ==
    /\ Parsing("records", "keys")
    /\ LET i == Len(read.rows)
           left(w) == w[2] % keysNullFlag
       IN Checked(Word(want.rows[i].start) \X Word(want.rows[i].count),
            LAMBDA w : KeyRangeFits(w[1], w[2]),
            LAMBDA w : Go(IF left(w) = 0 THEN "payload" ELSE "key",
                          [read EXCEPT !.rows[i] = [id |-> @.id, start |-> w[1], count |-> w[2]],
                                       !.left = left(w)]))

TakeKey ==
    /\ Parsing("records", "key")
    /\ Checked(Field(want.keyRows[read.kIdx + 1]), LAMBDA f : take(f, "key"),
         LAMBDA f : Go(IF read.left = 1 THEN "payload" ELSE "key",
                       [read EXCEPT !.cur = @ + f.length, !.kIdx = @ + 1, !.left = @ - 1,
                                    !.keyRows = Append(@, f)]))

TakePayload ==
    /\ Parsing("records", "payload")
    /\ LET i == Len(read.rows)
       IN Checked(Field(want.rows[i].payload), LAMBDA f : take(f, "payload"),
            LAMBDA f : Go(NextRecord(read),
                          [read EXCEPT !.cur = @ + f.length,
                                       !.rows[i] = [id |-> @.id, start |-> @.start, count |-> @.count,
                                                    payload |-> f]]))

\* Mutant: bytes after the last payload are tolerated.
RecordsUsedUpLoosely == read.kIdx = read.nk

RecordsUsedUp == read.kIdx = read.nk /\ read.cur = Len(read.blob)

EndRecords ==
    /\ Parsing("records", "records")
    /\ IF RecordsUsedUp THEN Go("idcount", read) ELSE Refuse

ID(v, i) == Text(v.blob, v.rows[i].id)
KeyCount(v, i) == v.rows[i].count % keysNullFlag
KeysNull(v, i) == v.rows[i].count = keysNullFlag
Keys(v, i) == [j \in 1 .. KeyCount(v, i) |-> Text(v.blob, v.keyRows[v.rows[i].start + j])]
Payload(v, i) == Text(v.blob, v.rows[i].payload)
Record(v, i) ==
    [id |-> ID(v, i), null |-> KeysNull(v, i), keys |-> Keys(v, i), payload |-> Payload(v, i)]
Records(v) == [i \in 1 .. v.n |-> Record(v, i)]

\* What Encode refuses: empty or invalid IDs, invalid keys, repeated IDs.
Encodable(recs) ==
    /\ \A i \in DOMAIN recs :
         recs[i].id # <<>> /\ Valid(recs[i].id) /\ Valid(FlattenSeq(recs[i].keys))
    /\ \A i, j \in DOMAIN recs : recs[i].id = recs[j].id => i = j

put(v, r) ==
    LET cur == Len(v.blob) + Len(r.id)
        keyAt(j) == cur + Len(FlattenSeq(SubSeq(r.keys, 1, j - 1)))
        row == [id |-> At(Len(v.blob), Len(r.id)), start |-> Len(v.keyRows),
                count |-> IF r.null THEN keysNullFlag ELSE Len(r.keys),
                payload |-> At(keyAt(Len(r.keys) + 1), Len(r.payload))]
    IN [rows |-> Append(v.rows, row),
        keyRows |-> v.keyRows \o [j \in DOMAIN r.keys |-> At(keyAt(j), Len(r.keys[j]))],
        blob |-> v.blob \o r.id \o FlattenSeq(r.keys) \o r.payload]

\* Ordinals in the order of their IDs.
encodeIDs(recs) ==
    SetToSortSeq({i - 1 : i \in DOMAIN recs}, LAMBDA a, b : Less(recs[a + 1].id, recs[b + 1].id))

encodeRecords(recs) ==
    LET v == FoldLeft(put, [rows |-> <<>>, keyRows |-> <<>>, blob |-> <<>>], recs)
        n == Len(recs)
        nk == Len(v.keyRows)
    IN v @@ [n |-> n, nk |-> nk, len |-> 2 + 6 * n + 2 * nk + Len(v.blob), ids |-> encodeIDs(recs)]

----------------------------------------------------------------------------
(* The ids section: parseIDs, and Lookup's binary search.                    *)

ReadIDCount ==
    /\ Parsing("records", "idcount")
    /\ Checked(Word(want.n) \X Word(1 + want.n),
         LAMBDA w : count(w[1], w[2], 0, 1, 0) /\ w[1] = read.n /\ w[2] = 1 + w[1],
         LAMBDA w : Go("ids", read))

Follows(ids, o) == ids = <<>> \/ Less(ID(read, Last(ids) + 1), ID(read, o + 1))

TakeOrdinal ==
    /\ Parsing("records", "ids") /\ Len(read.ids) < read.n
    /\ Checked(Word(want.ids[Len(read.ids) + 1]),
         LAMBDA o : o < read.n /\ Follows(read.ids, o),
         LAMBDA o : Go(step, [read EXCEPT !.ids = Append(@, o)]))

EndIDs == Parsing("records", "ids") /\ Len(read.ids) = read.n /\ Go("accepted", read)

IDOrdinal(v, k) == v.ids[k + 1]

\* sort.Search: halving 0 .. n - 1 for the first k with p(k).
Search(n, p(_)) ==
    LET from[i \in 0 .. n, j \in 0 .. n] ==
            LET h == (i + j) \div 2
            IN IF i >= j THEN i ELSE IF p(h) THEN from[i, h] ELSE from[h + 1, j]
    IN from[0, n]

\* The ordinals found: none or one.
Lookup(v, id) ==
    LET IDAt(k) == ID(v, IDOrdinal(v, k) + 1)
        k == Search(v.n, LAMBDA i : ~Less(IDAt(i), id))
    IN IF k < v.n /\ IDAt(k) = id THEN {IDOrdinal(v, k)} ELSE {}

----------------------------------------------------------------------------
(* The exact section: parseExactSection, encodeExact, and exact.Restore.     *)

ReadExactKeyCount ==
    /\ Parsing("exact", "count")
    /\ Checked(Word(want.k), LAMBDA k : 3 <= read.len /\ k <= (read.len - 3) \div 2,
               LAMBDA k : Go("postings", [read EXCEPT !.k = k]))

Room == read.len - 3 - 2 * read.k

ReadPostingCount ==
    /\ Parsing("exact", "postings")
    /\ Checked(Word(want.p), LAMBDA p : p <= Room,
               LAMBDA p : Go("arena", [read EXCEPT !.p = p]))

\* Bounds: arena and postings of at most MaxExact cells, ordinals up to one
\* past the last.
ReadArena ==
    /\ Parsing("exact", "arena")
    /\ Checked(Word(Len(want.arena)),
         LAMBDA length : length = Room - read.p /\ read.p <= MaxUint32,
         LAMBDA length :
           /\ want = Foreign => length + read.p <= MaxExact
           /\ \E arena \in Bytes(length, want.arena),
                postings \in IF want = Foreign THEN [1 .. read.p -> 0 .. read.n] ELSE {want.postings} :
                Go("keys", [read EXCEPT !.arena = arena, !.postings = postings]))

\* Mutant: a run may be longer than the packed locator holds.
KeyFitsAnyRun(length, run) ==
    /\ length # 0 /\ length <= Len(read.arena) - read.aOff
    /\ run # 0 /\ run <= read.p - read.pOff

KeyFits(length, run) ==
    /\ length # 0 /\ length <= Len(read.arena) - read.aOff
    /\ run # 0 /\ run <= maxRun /\ run <= read.p - read.pOff

Ascending(s) == \A j \in 1 .. Len(s) - 1 : s[j] < s[j + 1]

KeyTaken(length, run) ==
    LET key == At(read.aOff, length)
        ords == Text(read.postings, At(read.pOff, run))
    IN /\ read.keys # <<>> =>
            Less(Text(read.arena, Last(read.keys).key), Text(read.arena, key))
       /\ Ascending(ords) /\ \A j \in DOMAIN ords : ords[j] < read.n

TakeExactKey ==
    /\ Parsing("exact", "keys") /\ Len(read.keys) < read.k
    /\ LET i == Len(read.keys) + 1
       IN Checked(Word(want.keys[i].key.length) \X Word(want.keys[i].run.length),
            LAMBDA w : KeyFits(w[1], w[2]) /\ KeyTaken(w[1], w[2]),
            LAMBDA w : Go(step, [read EXCEPT !.aOff = @ + w[1], !.pOff = @ + w[2],
                                   !.keys = Append(@, [key |-> At(read.aOff, w[1]),
                                                       run |-> At(read.pOff, w[2])])]))

EndExact ==
    /\ Parsing("exact", "keys") /\ Len(read.keys) = read.k
    /\ IF read.aOff = Len(read.arena) /\ read.pOff = read.p THEN Go("accepted", read) ELSE Refuse

\* Restore goes through the same lengths again and packs where each run is.
Restore(arena, keys, postings) ==
    LET aOff(i) == MapThenSumSet(LAMBDA j : keys[j].key.length, 1 .. i - 1)
        pOff(i) == MapThenSumSet(LAMBDA j : keys[j].run.length, 1 .. i - 1)
        kl(i) == keys[i].key.length
        rl(i) == keys[i].run.length
        k(i) == Text(arena, At(aOff(i), kl(i)))
        sound == /\ \A i \in DOMAIN keys :
                      /\ 1 <= kl(i) /\ kl(i) <= Len(arena) - aOff(i)
                      /\ 1 <= rl(i) /\ rl(i) <= maxRun /\ rl(i) <= Len(postings) - pOff(i)
                 /\ \A i, j \in DOMAIN keys : k(i) = k(j) => i = j
                 /\ aOff(Len(keys) + 1) = Len(arena) /\ pOff(Len(keys) + 1) = Len(postings)
        packed(t) == LET i == CHOOSE x \in DOMAIN keys : k(x) = t
                     IN pOff(i) * 2 ^ LenBits + rl(i)
    IN IF sound THEN [ok |-> TRUE, m |-> [t \in {k(i) : i \in DOMAIN keys} |-> packed(t)]]
       ELSE [ok |-> FALSE]

\* Index.Lookup: the locator taken apart again.
LookupExact(m, postings, text) ==
    IF text \notin DOMAIN m THEN <<>>
    ELSE Text(postings, At(m[text] \div 2 ^ LenBits, m[text] % 2 ^ LenBits))

\* An index is a function from keys to ascending runs.
encodeExact(n, idx) ==
    LET keys == SetToSortSeq(DOMAIN idx, Less)
        before(i) == SubSeq(keys, 1, i - 1)
        runs(ks) == FlattenSeq([j \in DOMAIN ks |-> idx[ks[j]]])
        arena == FlattenSeq(keys)
    IN [n |-> n, k |-> Len(keys), p |-> Len(runs(keys)), arena |-> arena, postings |-> runs(keys),
        keys |-> [i \in DOMAIN keys |->
                    [key |-> At(Len(FlattenSeq(before(i))), Len(keys[i])),
                     run |-> At(Len(runs(before(i))), Len(idx[keys[i]]))]],
        len |-> 3 + 2 * Len(keys) + Len(runs(keys)) + Len(arena)]

ExactContents(v) ==
    [t \in {Text(v.arena, v.keys[i].key) : i \in DOMAIN v.keys} |->
        LET i == CHOOSE x \in DOMAIN v.keys : Text(v.arena, v.keys[x].key) = t
        IN Text(v.postings, v.keys[i].run)]

----------------------------------------------------------------------------
(* The ngram section: parseNgram and encodeNgram.                            *)

\* Cells of a bitmap's frozen form.
frozenSize(set) == 1 + Cardinality(set)

gramAt(v) == 3 + 4 * v.g
bmStart(v, gramLen) == align32(gramAt(v) + gramLen)

ReadGramCount ==
    /\ Parsing("ngram", "count")
    /\ Checked(Word(want.g), LAMBDA g : count(g, read.len, 0, 4, 2),
               LAMBDA g : Go("ords", [read EXCEPT !.g = g]))

ReadNumOrds ==
    /\ Parsing("ngram", "ords")
    /\ Checked(Word(want.numOrds), LAMBDA numOrds : numOrds <= read.n,
               LAMBDA numOrds : Go("blob", [read EXCEPT !.numOrds = numOrds]))

\* Bound: foreign gram blobs of at most MaxBlob bytes.
ReadGramBlob ==
    /\ Parsing("ngram", "blob")
    /\ Checked(Word(Len(want.grams)),
         LAMBDA length : length <= read.len - gramAt(read) /\ bmStart(read, length) <= read.len,
         LAMBDA length :
           /\ want = Foreign => length <= MaxBlob
           /\ \E grams \in Bytes(length, want.grams) :
                Go("gram", [read EXCEPT !.grams = grams, !.bmLen = read.len - bmStart(read, length)]))

GramFits(f) ==
    /\ f.off = read.gcur /\ f.length # 0 /\ f.length <= Len(read.grams) - read.gcur
    /\ read.rows # <<>> => Less(Text(read.grams, Last(read.rows).gram), Text(read.grams, f))

TakeGram ==
    /\ Parsing("ngram", "gram") /\ Len(read.rows) < read.g
    /\ Checked(Field(want.rows[Len(read.rows) + 1].gram), GramFits,
         LAMBDA f : Go("bitmap", [read EXCEPT !.gcur = @ + f.length, !.rows = Append(@, [gram |-> f])]))

BitmapFits(f) ==
    LET start == align32(read.bcur)
    IN f.off = start /\ start <= read.bmLen /\ f.length <= read.bmLen - start

\* A bitmap of another shape than a frozen, nonempty one is refused.
TakeBitmap ==
    /\ Parsing("ngram", "bitmap")
    /\ LET i == Len(read.rows)
           sets == IF want = Foreign THEN SUBSET (0 .. read.n) ELSE {want.rows[i].set}
       IN Checked(Field(want.rows[i].bitmap) \X sets,
            LAMBDA w : /\ BitmapFits(w[1])
                       /\ w[2] # {} /\ w[1].length = frozenSize(w[2]) /\ Max(w[2]) < read.numOrds,
            LAMBDA w : Go("gram", [read EXCEPT !.bcur = w[1].off + w[1].length,
                                               !.rows[i] = [gram |-> @.gram, bitmap |-> w[1], set |-> w[2]]]))

EndNgram ==
    /\ Parsing("ngram", "gram") /\ Len(read.rows) = read.g
    /\ LET stored == UNION {read.rows[i].set : i \in DOMAIN read.rows}
       IN IF /\ read.gcur = Len(read.grams) /\ read.bcur = read.bmLen
             /\ read.numOrds = IF stored = {} THEN 0 ELSE Max(stored) + 1
          THEN Go("accepted", read) ELSE Refuse

\* An index is a function from grams to nonempty sets of ordinals.
encodeNgram(n, post) ==
    LET grams == SetToSortSeq(DOMAIN post, Less)
        stored == UNION {post[g] : g \in DOMAIN post}
        place(rows, gram) ==
            LET last == Last(rows)
                gcur == IF rows = <<>> THEN 0 ELSE last.gram.off + last.gram.length
                bcur == IF rows = <<>> THEN 0 ELSE last.bitmap.off + last.bitmap.length
            IN Append(rows, [gram |-> At(gcur, Len(gram)), set |-> post[gram],
                             bitmap |-> At(align32(bcur), frozenSize(post[gram]))])
        rows == FoldLeft(place, <<>>, grams)
        bmLen == IF rows = <<>> THEN 0 ELSE Last(rows).bitmap.off + Last(rows).bitmap.length
        blob == FlattenSeq(grams)
    IN [n |-> n, g |-> Len(grams), grams |-> blob, rows |-> rows, bmLen |-> bmLen,
        numOrds |-> IF stored = {} THEN 0 ELSE Max(stored) + 1,
        len |-> align32(3 + 4 * Len(grams) + Len(blob)) + bmLen]

NgramContents(v) ==
    [t \in {Text(v.grams, v.rows[i].gram) : i \in DOMAIN v.rows} |->
        (CHOOSE r \in ToSet(v.rows) : Text(v.grams, r.gram) = t).set]

----------------------------------------------------------------------------
EmptyRecords(len) ==
    [len |-> len, n |-> 0, nk |-> 0, blob |-> <<>>, cur |-> 0, kIdx |-> 0, left |-> 0,
     rows |-> <<>>, keyRows |-> <<>>, ids |-> <<>>]
EmptyExact(n, len) ==
    [len |-> len, n |-> n, k |-> 0, p |-> 0, arena |-> <<>>, postings |-> <<>>,
     aOff |-> 0, pOff |-> 0, keys |-> <<>>]
EmptyNgram(n, len) ==
    [len |-> len, n |-> n, g |-> 0, numOrds |-> 0, grams |-> <<>>, bmLen |-> 0,
     gcur |-> 0, bcur |-> 0, rows |-> <<>>]

\* Bounds: files and sections of at most MaxCells cells, MaxOrd records.
InitForeign ==
    /\ want = Foreign
    /\ \/ /\ section = "table" /\ step = "sections"
          /\ \E kinds \in Tables, size \in 0 .. MaxCells :
               headLen(Len(kinds)) <= size /\ read = [kinds |-> kinds, size |-> size, secs |-> <<>>]
       \/ section = "records" /\ step = "count" /\ \E len \in 0 .. MaxCells : read = EmptyRecords(len)
       \/ /\ section = "exact" /\ step = "count"
          /\ \E n \in {0, MaxOrd, MaxExact - 1}, len \in 0 .. MaxCells : read = EmptyExact(n, len)
       \/ /\ section = "ngram" /\ step = "count"
          /\ \E n \in 0 .. MaxOrd, len \in 0 .. MaxCells : read = EmptyNgram(n, len)

InitEncoded ==
    \/ /\ section = "table" /\ step = "sections"
       /\ \E kinds \in {ks \in Tables : KindsFit(ks)} :
            \E lengths \in [DOMAIN kinds -> 1 .. Align + 1] :
               LET t == EncodedTable(kinds, lengths)
               IN want = t /\ read = [kinds |-> kinds, size |-> t.size, secs |-> <<>>]
    \/ /\ section = "records" /\ step = "count"
       /\ \E recs \in {rs \in SomeRecords : Encodable(rs)} :
            LET v == encodeRecords(recs) IN want = v /\ read = EmptyRecords(v.len)
    \/ /\ section = "exact" /\ step = "count"
       /\ \E idx \in SomeExact :
            LET v == encodeExact(MaxOrd, idx) IN want = v /\ read = EmptyExact(MaxOrd, v.len)
    \/ /\ section = "ngram" /\ step = "count"
       /\ \E post \in SomeNgram :
            LET v == encodeNgram(MaxOrd, post) IN want = v /\ read = EmptyNgram(MaxOrd, v.len)

LayoutInit == InitForeign \/ InitEncoded

LayoutNext ==
    \/ ReadSection \/ EndTable
    \/ ReadRecordCount \/ ReadKeyCount \/ TakeID \/ TakeKeyRange \/ TakeKey \/ TakePayload
    \/ EndRecords \/ ReadIDCount \/ TakeOrdinal \/ EndIDs
    \/ ReadExactKeyCount \/ ReadPostingCount \/ ReadArena \/ TakeExactKey \/ EndExact
    \/ ReadGramCount \/ ReadNumOrds \/ ReadGramBlob \/ TakeGram \/ TakeBitmap \/ EndNgram

LayoutSpec == LayoutInit /\ [][LayoutNext]_layoutVars

----------------------------------------------------------------------------
Within(f, n) == f.off + f.length <= n
Apart(f, g) == f.off + f.length <= g.off \/ g.off + g.length <= f.off

\* Whatever the words are, what the parsers accept is in bounds in true
\* arithmetic: sections lie behind the header, inside the file, aligned and
\* apart; a record's fields, its key range, an exact run, a gram and an
\* aligned bitmap lie inside what they index (NewView: "Every offset, length
\* and count is bounds- and overflow-checked before use").
ViewStaysInBounds ==
    step # "malformed" =>
        CASE section = "table" ->
               /\ \A i \in DOMAIN read.secs :
                    LET s == read.secs[i]
                    IN s.off >= headLen(Len(read.kinds)) /\ s.off % Align = 0 /\ Within(s, read.size)
               /\ \A i, j \in DOMAIN read.secs : i # j => Apart(read.secs[i], read.secs[j])
          [] section = "records" ->
               LET size == Len(read.blob)
               IN step \in {"records", "idcount", "ids", "accepted"} =>
                    \A i \in 1 .. read.n :
                      LET r == read.rows[i]
                      IN /\ Within(r.id, size) /\ Within(r.payload, size)
                         /\ r.start + KeyCount(read, i) <= Len(read.keyRows)
                         /\ \A j \in DOMAIN read.keyRows : Within(read.keyRows[j], size)
          [] section = "exact" ->
               \A i \in DOMAIN read.keys :
                 Within(read.keys[i].key, Len(read.arena)) /\ Within(read.keys[i].run, read.p)
          [] section = "ngram" ->
               step # "bitmap" => \A i \in DOMAIN read.rows :
                 LET r == read.rows[i]
                 IN /\ Within(r.gram, Len(read.grams)) /\ Within(r.bitmap, read.bmLen)
                    /\ (bmStart(read, Len(read.grams)) + r.bitmap.off) % Align = 0

Same(v, image) == \A f \in DOMAIN image : v[f] = image[f]

\* A section has one encoding: an accepted one is word for word what Encode
\* writes for the contents it holds, so nothing a View serves escapes the
\* base ID and nothing is stored twice; and whatever Encode writes is
\* accepted (encodeRecords, encodeIDs, encodeExact, encodeNgram, NewView).
OneEncoding ==
    /\ want # Foreign => step # "malformed"
    /\ step = "accepted" =>
         CASE section = "table" -> TRUE
           [] section = "records" -> Encodable(Records(read)) /\ Same(read, encodeRecords(Records(read)))
           [] section = "exact" -> Same(read, encodeExact(read.n, ExactContents(read)))
           [] section = "ngram" -> Same(read, encodeNgram(read.n, NgramContents(read)))

\* Strings to look up: those stored, and others below, between and above.
Probes == UNION {[1 .. n -> Chars] : n \in 0 .. 2}

\* An accepted artifact can be served: Lookup finds every record by its ID
\* and no other, although it only halves; exact.Restore never refuses what
\* NewView accepted, and its packed locators find each key's whole run.
LookupsFindAll ==
    step = "accepted" =>
        /\ section = "records" =>
             \A id \in Probes \cup {ID(read, i) : i \in 1 .. read.n} :
               Lookup(read, id) = {i - 1 : i \in {x \in 1 .. read.n : ID(read, x) = id}}
        /\ section = "exact" =>
             LET idx == Restore(read.arena, read.keys, read.postings)
                 held == ExactContents(read)
             IN /\ idx.ok
                /\ \A t \in Probes \cup DOMAIN held :
                     LookupExact(idx.m, read.postings, t) = IF t \in DOMAIN held THEN held[t] ELSE <<>>
=============================================================================
