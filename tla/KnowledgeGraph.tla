--------------------------- MODULE KnowledgeGraph ---------------------------
(***************************************************************************)
(* The knowledge graph of an organisation: how entities and relations are  *)
(* read from a text, kept in the in-process store, and explored.           *)
(***************************************************************************)
EXTENDS Chunkers

(* Relations are kept in the order they came in, repeated ones repeated.    *)
Relation == [source : Text, target : Text, doc : Nat]

-----------------------------------------------------------------------------
(* RuleBasedExtractor.                                                      *)

(* Unlike the chunker's, these sentences end at any blank after a stop.     *)
extract_sentences(s) ==
  CutAfter(s, {i \in DOMAIN s : s[i] = Dot /\ i < Len(s) /\ Blank(s[i + 1])})

(* The names of a sentence: capitalised words with nothing but blanks       *)
(* between them are one name, and a name counts once.                       *)
Named(acc) ==
  IF acc.current = <<>> \/ acc.current \in ToSet(acc.found) THEN acc.found
  ELSE Append(acc.found, acc.current)

names(s) ==
  LET Read(acc, c) ==
        IF c \in Capital THEN [acc EXCEPT !.current = Append(@, c)]
        ELSE IF Blank(c) THEN acc
        ELSE [found |-> Named(acc), current |-> <<>>]
  IN Named(FoldLeft(Read, [found |-> <<>>, current |-> <<>>], s))

Pairs(found) ==
  FlattenSeq([i \in DOMAIN found |->
    [j \in 1 .. Len(found) - i |-> <<found[i], found[i + j]>>]])

extract(s) ==
  LET sentences == extract_sentences(s)
      found == [i \in DOMAIN sentences |-> names(sentences[i])]
  IN [entities |-> UNION {ToSet(found[i]) : i \in DOMAIN found},
      relations |-> FlattenSeq([i \in DOMAIN found |-> Pairs(found[i])])]

-----------------------------------------------------------------------------
(* InMemoryGraphStore.neighbors: breadth first, a hop at a time.            *)

(* Mutant: an entity is looked for again in every hop.                      *)
Hop_again(state, relations) ==
  FoldLeft(LAMBDA acc, rel :
             LET s == rel.source  t == rel.target
                 key == IF s \in state.frontier /\ t \notin state.seen THEN <<t>>
                        ELSE IF t \in state.frontier /\ s \notin state.seen THEN <<s>>
                        ELSE <<>>
             IN IF key = <<>> THEN acc
                ELSE [acc EXCEPT !.next = @ \cup {key[1]}, !.out = Append(@, key[1])],
           [next |-> {}, out |-> state.out], relations)

(* One pass over the relations.  What was seen is only brought up to date   *)
(* after it; `out` has every entity once.                                   *)
Hop(state, relations) ==
  FoldLeft(LAMBDA acc, rel :
             LET s == rel.source  t == rel.target
                 key == IF s \in state.frontier /\ t \notin state.seen THEN <<t>>
                        ELSE IF t \in state.frontier /\ s \notin state.seen THEN <<s>>
                        ELSE <<>>
             IN IF key = <<>> THEN acc
                ELSE [next |-> acc.next \cup {key[1]},
                      out |-> IF key[1] \in ToSet(acc.out) THEN acc.out ELSE Append(acc.out, key[1])],
           [next |-> {}, out |-> state.out], relations)

neighbors(relations, seeds, hops, limit) ==
  LET Step(state, n) ==
        LET hop == Hop(state, relations) IN
        [frontier |-> hop.next, seen |-> state.seen \cup hop.next, out |-> hop.out]
      end == FoldLeft(Step, [frontier |-> seeds, seen |-> seeds, out |-> <<>>],
                      [n \in 1 .. hops |-> n])
  IN SubSeq(end.out, 1, Min({limit, Len(end.out)}))

(* The reference: what a walk of at most `hops` relations reaches.          *)
Adjacent(relations, x) ==
  {relations[k].target : k \in {m \in DOMAIN relations : relations[m].source = x}}
    \cup {relations[k].source : k \in {m \in DOMAIN relations : relations[m].target = x}}

Within(relations, seeds, hops) ==
  FoldLeft(LAMBDA reached, n : reached \cup UNION {Adjacent(relations, x) : x \in reached},
           seeds, [n \in 1 .. hops |-> n])
=============================================================================
