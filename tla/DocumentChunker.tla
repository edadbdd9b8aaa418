--------------------------- MODULE DocumentChunker ---------------------------
(***************************************************************************)
(* Cutting a document into chunks (services/ai/rag/chunker.py): by size    *)
(* with a break at a separator, or by grouping sentences or paragraphs.    *)
(* A text is a sequence of characters, of which only blanks and two of the *)
(* separators are told apart; the sentences and paragraphs the regular     *)
(* expressions split it into are given by their lengths.                   *)
(***************************************************************************)
EXTENDS Integers, Sequences, FiniteSets, SequencesExt

CONSTANTS
    MaxText,            \* bound: characters of a text
    MaxUnits,           \* bound: sentences or paragraphs
    CHUNK_SIZE, MIN_CHUNK_SIZE,
    OVERLAPS,           \* the chunk_overlap of the configuration (0, or the default)
    REACH               \* how far behind the end separators are looked for (10)

VARIABLES
    text, units,        \* the document
    strategy, overlap,  \* the configuration
    start,              \* where the next chunk of the token strategy starts
    idx,                \* the turns its loop has made, of which only the parity is kept
    cuts,               \* the pieces cut so far: start_offset, end_offset, and whether kept
    groups              \* the chunks of the grouping strategies, as sequences of units

chunkVars == <<text, units, strategy, overlap, start, idx, cuts, groups>>

ASSUME ChunkAssumption ==
    /\ CHUNK_SIZE \in Nat /\ \A o \in OVERLAPS : o \in 0..(CHUNK_SIZE - 1)
    /\ MaxText \in Nat /\ MaxUnits \in Nat /\ MIN_CHUNK_SIZE \in Nat /\ REACH \in Nat

Least(a, b) == IF a <= b THEN a ELSE b
Separators == <<".", " ">>
Undecided == -CHUNK_SIZE

ChunkInit ==
    /\ text \in UNION {[1..n -> {"x", " ", "."}] : n \in 1..MaxText}
    /\ units \in UNION {[1..n -> 1..(CHUNK_SIZE + 1)] : n \in 0..MaxUnits}
    /\ strategy \in {"token", "sentence", "semantic"} /\ overlap \in OVERLAPS
    /\ strategy # "token" => text = <<"x">> /\ overlap = 0
    /\ strategy = "token" => units = <<>>
    /\ start = Undecided /\ idx = 0 /\ cuts = {} /\ groups = <<>>

\* chunk() chooses; a text of at most one paragraph is cut by size.
ChooseStrategy ==
    /\ start = Undecided /\ groups = <<>>
    /\ strategy = "token" \/ (strategy = "semantic" /\ Len(units) <= 1)
    /\ start' = 0
    /\ UNCHANGED <<text, units, strategy, overlap, idx, cuts, groups>>
-----------------------------------------------------------------------------
\* Positions count from 0; a negative one counts from the end of the text.
From(s) == IF s < 0 THEN (IF Len(text) + s < 0 THEN 0 ELSE Len(text) + s) ELSE s

\* text.rfind(sep, start, end + len(sep) + 10), -1 when there is none.
LastBefore(sep, s, end) ==
    LET at == {p \in From(s)..(Least(end + 1 + REACH, Len(text)) - 1) : text[p + 1] = sep}
    IN IF at = {} THEN -1 ELSE CHOOSE p \in at : \A q \in at : q <= p

\* The loop over the separators: each may move the break forward.
BestBreak(s, end) ==
    LET best[i \in 0..Len(Separators)] ==
          IF i = 0 THEN end
          ELSE LET pos == LastBefore(Separators[i], s, end)
               IN  IF pos > s /\ pos < best[i - 1] THEN pos + 1 ELSE best[i - 1]
    IN  best[Len(Separators)]

\* The length of a piece without the blanks around it.
Stripped(from, to) ==
    LET dark == {p \in from..(to - 1) : text[p + 1] # " "}
    IN IF dark = {} THEN 0
       ELSE 1 + (CHOOSE p \in dark : \A q \in dark : q <= p) - (CHOOSE p \in dark : \A q \in dark : p <= q)

Piece(s, end) == [start_offset |-> s, end_offset |-> end, kept |-> Stripped(From(s), end) >= MIN_CHUNK_SIZE]

\* Plausible slip: the separator is stepped over.
SkipSeparator(s, end) == IF end > s THEN end + 1 - overlap ELSE end + 1

\* Where the chunk after text[s:end] starts.
NextStart(s, end) == IF end > s THEN end - overlap ELSE end + 1

\* One turn of _chunk_by_token.
CutByToken ==
    /\ start # Undecided /\ start < Len(text)
    /\ LET end == Least(BestBreak(start, Least(start + CHUNK_SIZE, Len(text))), Len(text))
       IN cuts' = cuts \cup {Piece(start, end)} /\ start' = NextStart(start, end)
    /\ idx' = 1 - idx
    /\ UNCHANGED <<text, units, strategy, overlap, groups>>
-----------------------------------------------------------------------------
Begun == [chunks |-> <<>>, current |-> <<>>, current_len |-> 0]

\* A unit joins the current chunk, or closes it because it would not fit.
Accumulate(acc, i) ==
    IF acc.current_len + units[i] > CHUNK_SIZE /\ acc.current # <<>>
    THEN [chunks |-> Append(acc.chunks, acc.current), current |-> <<i>>, current_len |-> units[i]]
    ELSE [chunks |-> acc.chunks, current |-> Append(acc.current, i), current_len |-> acc.current_len + units[i]]

\* What the loop over the units has before and after each of them.
GroupLoop ==
    LET acc[i \in 0..Len(units)] == IF i = 0 THEN Begun ELSE Accumulate(acc[i - 1], i)
    IN  acc

CloseLast(acc) == IF acc.current = <<>> THEN acc.chunks ELSE Append(acc.chunks, acc.current)
Grouped == CloseLast(GroupLoop[Len(units)])

ChunkBySentence ==
    /\ strategy = "sentence" /\ groups = <<>>
    /\ groups' = Grouped
    /\ UNCHANGED <<text, units, strategy, overlap, start, idx, cuts>>
ChunkBySemantic ==
    /\ strategy = "semantic" /\ Len(units) > 1 /\ groups = <<>>
    /\ groups' = Grouped
    /\ UNCHANGED <<text, units, strategy, overlap, start, idx, cuts>>

ChunkNext == ChooseStrategy \/ CutByToken \/ ChunkBySentence \/ ChunkBySemantic

\* chunk() is synchronous: its loop keeps turning.
ChunkSpec == ChunkInit /\ [][ChunkNext]_chunkVars /\ WF_chunkVars(CutByToken)
-----------------------------------------------------------------------------
ChunkTypeOK ==
    /\ start \in (-CHUNK_SIZE)..(MaxText + 1) /\ idx \in 0..1
    /\ \A c \in cuts : c.start_offset \in (1 - CHUNK_SIZE)..MaxText /\ c.end_offset \in 0..MaxText /\ c.kept \in BOOLEAN

\* Cutting by size loses nothing but scraps: every character before the next
\* start lies in a piece, and the pieces that were not kept are shorter than
\* the minimum; as long as the overlap has sent no chunk back to before the
\* text, where Python's slices count from the end.
NothingSkipped ==
    (\A c \in cuts : c.start_offset >= 0) =>
        \A p \in 0..(start - 1) : p < Len(text) =>
            \E c \in cuts : c.start_offset <= p /\ p < c.end_offset

\* The length of a group of units.
Total(lengths, group) ==
    LET sum[i \in 0..Len(group)] == IF i = 0 THEN 0 ELSE sum[i - 1] + lengths[group[i]]
    IN  sum[Len(group)]

\* A group holds units that follow one another, and fits the size if it has several.
GroupRight(lengths, g) ==
    /\ g # <<>> /\ \A i \in 2..Len(g) : g[i] = g[i - 1] + 1
    /\ Len(g) = 1 \/ Total(lengths, g) <= CHUNK_SIZE

\* The next group begins where this one ends, with a unit it had no room for.
FollowRight(lengths, g, h) == h[1] = Last(g) + 1 /\ Total(lengths, g) + lengths[h[1]] > CHUNK_SIZE

\* The groups hold the units 1..n, each once and in order, and are as large as they may be.
Greedy(lengths, gs, n) ==
    /\ gs[1][1] = 1 /\ Last(Last(gs)) = n
    /\ \A g \in 1..Len(gs) : GroupRight(lengths, gs[g])
    /\ \A g \in 2..Len(gs) : FollowRight(lengths, gs[g - 1], gs[g])

\* Grouping keeps every unit, and makes each chunk as large as it may be.
GroupsAreGreedy == groups # <<>> => Greedy(units, groups, Len(units))

\* Stated by chunk(), "Return a list of Chunk objects for *text*.": cutting by size
\* comes to an end.
ChunkingEnds == start # Undecided ~> start >= Len(text)

\* Without overlap cutting by size comes to an end, whatever separators the text
\* has: every turn of _chunk_by_token moves the start forward.
EndsWithoutOverlap == (start # Undecided /\ overlap = 0) ~> start >= Len(text)
=============================================================================
