----------------------------- MODULE MCIndexing -----------------------------
(* Small instances of Indexing for TLC. *)
EXTENDS Indexing, TLC

CONSTANTS w1, w2

W == 11         \* a word
N == 1          \* a capitalised one
M == 2
O == 3

Calm == [failures |-> 0, losses |-> 0, again |-> 0, queries |-> 0]

May(strategy, extractor) == Calm @@ [strategy |-> strategy, extractor |-> extractor]

(* Every page of up to n of these symbols, cut by one strategy.             *)
Every(strategy, symbols, n) ==
  [docs |-> {1}, workers |-> {w1}, texts |-> {<<s>> : s \in SeqOf(symbols, n)}, may |-> May(strategy, "llm")]

(* Two pages.                                                               *)
Pages(strategy) ==
  LET short == SeqOf({W, Space, Definition}, 2) IN
  [docs |-> {1}, workers |-> {w1}, texts |-> {<<s, t>> : s \in short, t \in short}, may |-> May(strategy, "llm")]

(* Two documents, two workers, and all that can go wrong.                   *)
Shared ==
  [docs |-> {1, 2}, workers |-> {w1, w2}, texts |-> {<<<<W, Space, W, W>>>>, <<<<W, W>>, <<W>>>>},
   may |-> [May("parent_child", "llm") EXCEPT !.failures = 1, !.losses = 1, !.again = 1]]

(* Texts whose sentences name some of three, explored.                      *)
Sentence == {<<N>>, <<N, W, M>>, <<M, W, O>>, <<O, Space, W, N>>, <<N, M>>, <<N, W, M, W, O>>}

Explored ==
  [docs |-> {1}, workers |-> {w1}, texts |-> {<<s \o <<Dot, Space>> \o t>> : s \in Sentence, t \in Sentence},
   may |-> [May("recursive", "rules") EXCEPT !.queries = 1, !.again = 1]]

Asked == {<<N>>, <<M>>, <<N, W, O>>, <<W>>}

Scenarios ==
  {Every("recursive", {W, Space, Newline, Dot}, 6), Every("recursive", {W, Space}, 8),
   Every("parent_child", {W, Space, Newline, Dot}, 6),
   Every("semantic", {W, N, Space, Newline, Dot}, 5),
   Every("table_aware", {W, Newline, Pipe}, 6), Every("table_aware", {Newline, Pipe}, 9),
   Every("table_aware", {W, Newline, Tab, Pipe}, 5), Every("table_aware", {Newline, Tab}, 8),
   Every("code_aware", {W, Space, Newline, Definition}, 6),
   Pages("recursive"), Pages("code_aware"), Every("unknown", {W, Space}, 6), Shared, Explored}
=============================================================================
