-------------------------------- MODULE Chunker --------------------------------
(***************************************************************************)
(* retrieval/chunker.py: how one H2 section of a policy document becomes   *)
(* chunks that fit the embedding model.  A word is <<paragraph, position>>;*)
(* a section is [heading |-> words of its name, paras |-> words of each    *)
(* paragraph], and a chunk is the sequence of the section's words in it,   *)
(* after the prefix and the heading every chunk repeats.                   *)
(***************************************************************************)
EXTENDS Integers, Sequences, SequencesExt

CONSTANTS
    ChunkMaxWords,  \* config.CHUNK_MAX_WORDS
    PrefixWords,    \* words of "Fraud Pattern: {pattern}"
    Sections        \* the sections the documents are written from

ASSUME ChunkAssumption ==
    /\ ChunkMaxWords \in Nat \ {0}
    /\ PrefixWords \in Nat
    /\ Sections \subseteq [heading : Nat, paras : Seq(Nat \ {0})]

Paragraphs(sec) == [p \in DOMAIN sec.paras |-> [i \in 1 .. sec.paras[p] |-> <<p, i>>]]

Body(sec) == FlattenSeq(Paragraphs(sec))

\* overhead_words: the prefix, "##" and the section's name.
Overhead(sec) == PrefixWords + 1 + sec.heading

WordCount(sec, chunk) == Overhead(sec) + Len(chunk)

\* Mutated form: paragraphs are split at the limit itself, without room for the
\* prefix and the heading.
Budget_Whole(sec) == ChunkMaxWords

\* effective_budget
Budget(sec) == ChunkMaxWords - Overhead(sec)

\* words[i:i + budget] for every budget-th i; a negative step gives no i at all.
Pieces(words, budget) ==
    IF Len(words) <= budget THEN <<words>>
    ELSE IF budget < 0 THEN <<>>
    ELSE [i \in 1 .. (Len(words) + budget - 1) \div budget |->
            SubSeq(words, (i - 1) * budget + 1,
                   IF i * budget < Len(words) THEN i * budget ELSE Len(words))]

\* _split_oversized_paragraphs
SplitOversized(paras, budget) ==
    FlattenSeq([p \in DOMAIN paras |-> Pieces(paras[p], budget)])

\* The loop over the paragraphs: a group is closed when the next does not fit.
Grouped(paras, budget) ==
    LET Place(g, para) ==
            IF Len(g.current) + Len(para) > budget /\ g.current # <<>>
            THEN [closed |-> Append(g.closed, g.current), current |-> para]
            ELSE [g EXCEPT !.current = @ \o para]
        end == FoldLeft(Place, [closed |-> <<>>, current |-> <<>>], paras)
    IN  IF end.current = <<>> THEN end.closed ELSE Append(end.closed, end.current)

\* _build_chunks_for_section
ChunkSection(sec) ==
    IF WordCount(sec, Body(sec)) <= ChunkMaxWords THEN <<Body(sec)>>
    ELSE Grouped(SplitOversized(Paragraphs(sec), Budget(sec)), Budget(sec))

\* range() raises on a step of zero.
SectionRaises(sec) ==
    WordCount(sec, Body(sec)) > ChunkMaxWords /\ Budget(sec) = 0 /\ sec.paras # <<>>

-----------------------------------------------------------------------------

\* Section sec becomes chunks within the limit, that keep its words in order, and
\* no paragraph that fits is cut - if its heading leaves room for a word.
SectionFits(sec) ==
    LET chunks == ChunkSection(sec)
    IN  Budget(sec) > 0 =>
            /\ \A c \in DOMAIN chunks : WordCount(sec, chunks[c]) <= ChunkMaxWords
            /\ FlattenSeq(chunks) = Body(sec)
            /\ \A p \in DOMAIN sec.paras : sec.paras[p] <= Budget(sec) =>
                  \E c \in DOMAIN chunks :
                      \A i \in 1 .. sec.paras[p] : Contains(chunks[c], <<p, i>>)

EverySectionFits == \A sec \in Sections : SectionFits(sec)
=============================================================================
