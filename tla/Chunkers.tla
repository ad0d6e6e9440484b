------------------------------ MODULE Chunkers ------------------------------
(***************************************************************************)
(* The chunkers, as functions of a page.  A text is a sequence of symbols: *)
(* positive numbers are words (the capitalised ones among them are names), *)
(* the others are the characters the chunkers look at.  Every symbol has   *)
(* length 1.  No RECURSIVE operator: recursion is by recursive functions.  *)
(***************************************************************************)
EXTENDS Integers, SequencesExt

CONSTANTS
  Size,             \* chunk_size
  Overlap,          \* overlap
  ParentSize, ChildSize, ChildOverlap,
  Target            \* target_size of the semantic chunker

ASSUME ChunkerAssumption ==
  /\ {Size, ParentSize, ChildSize, Target} \subseteq Nat \ {0}
  /\ {Overlap, ChildOverlap} \subseteq Nat

Space == 0
Newline == -1
Dot == -2           \* the end of a sentence: . ! ?
Pipe == -3
Definition == -4    \* def, class, func, ... and the space after it
Tab == -5

Capital == 1 .. 9   \* capitalised words
Word(c) == c > 0 \/ c = Definition

Text == Seq(Int)

Blank(c) == c \in {Space, Newline, Tab}

strip(s) ==
  LET solid == {i \in DOMAIN s : ~Blank(s[i])} IN
  IF solid = {} THEN <<>> ELSE SubSeq(s, Min(solid), Max(solid))

(* The elements that pass a test, in their order.                           *)
Where(s, Test(_)) == FlattenSeq([i \in DOMAIN s |-> IF Test(s[i]) THEN <<s[i]>> ELSE <<>>])

NonEmpty(ss) == Where(ss, LAMBDA s : s # <<>>)

(* str.split: at each leftmost occurrence of a separator.                   *)
At(sep, s) == {i \in 1 .. Len(s) - Len(sep) + 1 : SubSeq(s, i, i + Len(sep) - 1) = sep}

split(sep, text) ==
  LET cut[s \in Text] ==
        IF At(sep, s) = {} THEN <<s>>
        ELSE LET i == Min(At(sep, s)) IN
             <<SubSeq(s, 1, i - 1)>> \o cut[SubSeq(s, i + Len(sep), Len(s))]
  IN cut[text]

join(ss, sep) == FoldLeft(LAMBDA s, x : IF s = <<>> THEN x ELSE s \o sep \o x, <<>>, ss)

splitlines(s) ==
  LET lines == split(<<Newline>>, s) IN
  IF Last(lines) = <<>> THEN Front(lines) ELSE lines

unlines(lines) == FlattenSeq([i \in DOMAIN lines |-> Append(lines[i], Newline)])

-----------------------------------------------------------------------------
(* The recursive splitter.                                                  *)

Separators == <<<<Newline, Newline>>, <<Newline>>, <<Dot, Space>>, <<Space>>>>

(* Mutant: what was gathered so far is forgotten before a long part.        *)
Flush_never(acc) == acc.chunks

Flush(acc) == IF acc.current = <<>> THEN acc.chunks ELSE Append(acc.chunks, acc.current)

(* The parts of s at its coarsest separator from the k-th on, each with the *)
(* separator after it (the last one too); single symbols if there is none.  *)
Coarsest(k, s) ==
  LET found == {j \in k .. Len(Separators) : At(Separators[j], s) # {}} IN
  IF found = {} THEN Len(Separators) + 1 ELSE Min(found)

Parts(k, s) ==
  IF k > Len(Separators) THEN [i \in DOMAIN s |-> <<s[i]>>]
  ELSE LET parts == split(Separators[k], s) IN
       [i \in DOMAIN parts |-> parts[i] \o Separators[k]]

(* _recursive_split: parts are packed together up to the size; a part that  *)
(* is too long by itself is split at the finer separators.                  *)
recursive_split(text, size) ==
  LET cut[p \in (1 .. Len(Separators) + 1) \X Text] ==
        LET s == p[2]
            j == Coarsest(p[1], s)
            Pack(acc, piece) ==
              IF Len(piece) > size
              THEN [chunks |-> Flush(acc) \o cut[<<j + 1, piece>>], current |-> <<>>]
              ELSE IF Len(acc.current) + Len(piece) <= size
              THEN [acc EXCEPT !.current = @ \o piece]
              ELSE [chunks |-> Flush(acc), current |-> piece]
        IN IF s = <<>> THEN <<>>
           ELSE IF Len(s) <= size THEN <<s>>
           ELSE Flush(FoldLeft(Pack, [chunks |-> <<>>, current |-> <<>>], Parts(j, s)))
  IN cut[<<1, text>>]

(* _apply_overlap: a chunk begins with the end of the one before it.        *)
Tail_(s, n) == SubSeq(s, Max({1, Len(s) - n + 1}), Len(s))

apply_overlap(chunks, overlap) ==
  IF overlap = 0 THEN chunks
  ELSE [i \in DOMAIN chunks |->
          IF i = 1 THEN chunks[i]
          ELSE strip(strip(Tail_(chunks[i - 1], overlap)) \o <<Space>> \o chunks[i])]

split_text(s, size, overlap) ==
  LET raw == recursive_split(s, size) IN
  apply_overlap(NonEmpty([i \in DOMAIN raw |-> strip(raw[i])]), overlap)

-----------------------------------------------------------------------------
(* Chunks, and the strategies that make them.  `parent` is the position of  *)
(* the parent among the page's chunks, 0 for none.                          *)

Chunk == [content : Text, type : {"text", "table", "code"}, parent : Nat, embed : BOOLEAN]

TextChunk(s, type) == [content |-> s, type |-> type, parent |-> 0, embed |-> TRUE]

Chunks(ss, type) == [i \in DOMAIN ss |-> TextChunk(ss[i], type)]

RecursiveChunker(page) == Chunks(split_text(page, Size, Overlap), "text")

(* Parents for context, each followed by its children for recall.           *)
ParentChildChunker(page) ==
  FoldLeft(LAMBDA chunks, parent :
             LET n == Len(chunks) + 1
                 children == split_text(parent, ChildSize, ChildOverlap)
             IN Append(chunks, [TextChunk(parent, "text") EXCEPT !.embed = FALSE])
                  \o [i \in DOMAIN children |->
                        [TextChunk(children[i], "text") EXCEPT !.parent = n]],
           <<>>, split_text(page, ParentSize, 0))

(* _sentences: paragraphs, cut after a sentence's end where blanks and a    *)
(* capital follow.                                                          *)
SentenceEnds(s) ==
  {i \in DOMAIN s : /\ s[i] = Dot
                    /\ i < Len(s) /\ Blank(s[i + 1])
                    /\ \E j \in i + 2 .. Len(s) :
                         /\ s[j] \in Capital
                         /\ \A m \in i + 1 .. j - 1 : Blank(s[m])}

CutAfter(s, ends) ==
  LET CutAt(acc, i) ==
        IF i \in ends \cup {Len(s)}
        THEN [pieces |-> Append(acc.pieces, SubSeq(s, acc.from, i)), from |-> i + 1]
        ELSE acc
  IN FoldLeft(CutAt, [pieces |-> <<>>, from |-> 1], [i \in DOMAIN s |-> i]).pieces

Sentences(s) ==
  LET paragraphs == split(<<Newline, Newline>>, s)
      pieces == FlattenSeq([i \in DOMAIN paragraphs |->
                  LET p == strip(paragraphs[i]) IN CutAfter(p, SentenceEnds(p))])
  IN NonEmpty([i \in DOMAIN pieces |-> strip(pieces[i])])

(* Mutant: the space between two sentences is not counted.                  *)
SemanticChunker_tight(page) ==
  LET Gather(acc, s) ==
        LET length == FoldLeft(LAMBDA n, x : n + Len(x), 0, acc.current) IN
        IF acc.current # <<>> /\ length + Len(s) > Target
        THEN [chunks |-> Append(acc.chunks, join(acc.current, <<Space>>)), current |-> <<s>>]
        ELSE [acc EXCEPT !.current = Append(@, s)]
      end == FoldLeft(Gather, [chunks |-> <<>>, current |-> <<>>], Sentences(page))
  IN Chunks(IF end.current = <<>> THEN end.chunks
            ELSE Append(end.chunks, join(end.current, <<Space>>)), "text")

(* Whole sentences, gathered up to the target size.                         *)
SemanticChunker(page) ==
  LET Gather(acc, s) ==
        LET length == FoldLeft(LAMBDA n, x : n + Len(x) + 1, 0, acc.current) IN
        IF acc.current # <<>> /\ length + Len(s) > Target
        THEN [chunks |-> Append(acc.chunks, join(acc.current, <<Space>>)), current |-> <<s>>]
        ELSE [acc EXCEPT !.current = Append(@, s)]
      end == FoldLeft(Gather, [chunks |-> <<>>, current |-> <<>>], Sentences(page))
  IN Chunks(IF end.current = <<>> THEN end.chunks
            ELSE Append(end.chunks, join(end.current, <<Space>>)), "text")

(* A line is part of a table when it has two bars, or two tabs.             *)
is_table_line(line) ==
  \E mark \in {Pipe, Tab} : Cardinality({i \in DOMAIN line : line[i] = mark}) >= 2

(* _segment: maximal runs of lines that are, or are not, a table's.         *)
segment(s) ==
  LET Group(acc, line) ==
        IF acc # <<>> /\ Last(acc).table = is_table_line(line)
        THEN [acc EXCEPT ![Len(acc)].lines = Append(@, line)]
        ELSE Append(acc, [table |-> is_table_line(line), lines |-> <<line>>])
  IN FoldLeft(Group, <<>>, splitlines(s))

TableAwareChunker(page) ==
  FlattenSeq([i \in DOMAIN segment(page) |->
    LET block == strip(unlines(segment(page)[i].lines)) IN
    IF block = <<>> THEN <<>>
    ELSE IF segment(page)[i].table THEN <<TextChunk(block, "table")>>
    ELSE Chunks(split_text(block, Size, Overlap), "text")])

(* Where a definition begins: the start of the line, or of the blank lines  *)
(* before it.                                                               *)
DefinitionStarts(s) ==
  LET LineStart(i) == i = 1 \/ s[i - 1] = Newline
      Leads(i, j) == LineStart(i) /\ i <= j /\ s[j] = Definition
                       /\ \A m \in i .. j - 1 : Blank(s[m])
  IN {i \in DOMAIN s : \E j \in DOMAIN s :
        Leads(i, j) /\ \A m \in 1 .. i - 1 : ~Leads(m, j)}

(* _split_on_defs: blocks that begin at a definition; a page without any is *)
(* one block, blanks and all.                                               *)
Blocks(page) ==
  LET starts == DefinitionStarts(page)
      blocks == CutAfter(page, {i - 1 : i \in starts})
  IN IF strip(page) = <<>> THEN <<>>
     ELSE IF starts = {} THEN <<page>>
     ELSE NonEmpty([i \in DOMAIN blocks |-> strip(blocks[i])])

(* Mutant: definitions are not looked for.                                  *)
CodeAwareChunker_plain(page) == Chunks(split_text(page, Size, 0), "code")

(* Blocks within the size stay whole.                                       *)
CodeAwareChunker(page) ==
  Chunks(FlattenSeq([i \in DOMAIN Blocks(page) |->
           LET block == Blocks(page)[i] IN
           IF Len(block) <= Size THEN <<block>> ELSE split_text(block, Size, 0)]), "code")

Strategies == {"recursive", "parent_child", "semantic", "table_aware", "code_aware"}

(* get_chunker: a name nobody knows means the default.                      *)
chunk(strategy, page) ==
  CASE strategy = "parent_child" -> ParentChildChunker(page)
    [] strategy = "semantic" -> SemanticChunker(page)
    [] strategy = "table_aware" -> TableAwareChunker(page)
    [] strategy = "code_aware" -> CodeAwareChunker(page)
    [] OTHER -> RecursiveChunker(page)
=============================================================================
