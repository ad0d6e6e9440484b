----------------------------- MODULE Evaluation -----------------------------
(***************************************************************************)
(* Golden datasets and the runs that score the model on them:              *)
(*                                                                         *)
(*   create  add_dataset -> add_samples -> save                            *)
(*   run     get_dataset -> list_samples -> open_run                       *)
(*             -> answer_sample, once per sample -> add_results -> save    *)
(*                                                                         *)
(* A text is the set of its content words, which is all the metrics read;  *)
(* a score is in thousandths.  Requests are numbered, and the number is    *)
(* the id of the rows they insert.                                         *)
(***************************************************************************)
EXTENDS Integers, Sequences, FiniteSetsExt

CONSTANTS
  Words,
  Requesters,       \* requests in progress, each with its own session
  Orgs,
  Datasets,         \* sequences of samples a client may post
  Answers,          \* texts the model may write
  NoTruth,          \* the ground_truth of a sample that has none
  MaxStudies        \* bound: requests made

Sample == [question : SUBSET Words, truth : (SUBSET Words) \cup {NoTruth},
           contexts : Seq(SUBSET Words)]

ASSUME EvaluationAssumption ==
  /\ IsFiniteSet(Words)
  /\ Orgs # {}
  /\ Datasets \subseteq Seq(Sample)
  /\ Answers \subseteq SUBSET Words
  /\ \A text \in SUBSET Words : text # NoTruth
  /\ MaxStudies \in Nat

VARIABLES
  tables,           \* committed rows
  flushed,          \* rows flushed and not yet committed, by request
  job,              \* requests: where they stand and what they read
  studies           \* requests made so far

evaluation == <<tables, flushed, job, studies>>

-----------------------------------------------------------------------------
(* The metrics.                                                             *)

(* a / b, to the nearest thousandth (a tie needs sixteen words).            *)
Thousandths(a, b) == (2000 * a + b) \div (2 * b)

coverage(target, source) ==
  IF target = {} THEN 0
  ELSE Thousandths(Cardinality(target \cap source), Cardinality(target))

(* An answer without content words is grounded in nothing.                  *)
faithfulness(answer, contexts) == coverage(answer, UNION {contexts[i] : i \in DOMAIN contexts})

(* A context is relevant from a tenth of the reference on.                  *)
context_precision(reference, contexts) ==
  LET Relevant(c) == /\ reference # {}
                     /\ 10 * Cardinality(reference \cap c) >= Cardinality(reference) IN
  IF contexts = <<>> THEN 0
  ELSE Thousandths(Cardinality({i \in DOMAIN contexts : Relevant(contexts[i])}),
                   Cardinality(DOMAIN contexts))

Metrics == {"faithfulness", "answer_relevancy", "context_precision", "hallucination",
            "context_recall"}

(* A sample without a ground truth has no context_recall.                   *)
evaluate_sample(sample, answer) ==
  LET faith == faithfulness(answer, sample.contexts)
      truth == sample.truth IN
  [k \in IF truth = NoTruth THEN Metrics \ {"context_recall"} ELSE Metrics |->
     CASE k = "faithfulness" -> faith
       [] k = "answer_relevancy" -> coverage(sample.question, answer)
       [] k = "context_precision" ->
            context_precision(IF truth = NoTruth THEN sample.question ELSE truth, sample.contexts)
       [] k = "hallucination" -> 1000 - faith
       [] k = "context_recall" -> faithfulness(truth, sample.contexts)]

(* Mutant: the total of a metric is what the last sample scored.            *)
aggregated_last(aggregate, scores) ==
  [k \in DOMAIN aggregate \cup DOMAIN scores |->
     IF k \in DOMAIN scores THEN scores[k] ELSE aggregate[k]]

(* aggregate[key] = aggregate.get(key, 0.0) + value, for the keys scored.   *)
aggregated(aggregate, scores) ==
  [k \in DOMAIN aggregate \cup DOMAIN scores |->
     (IF k \in DOMAIN aggregate THEN aggregate[k] ELSE 0) +
     (IF k \in DOMAIN scores THEN scores[k] ELSE 0)]

(* The mean over all samples of the run, to the nearest thousandth; a tie   *)
(* of floats goes either way, up for the keys in `up`.                      *)
Mean(aggregate, n, up) ==
  [k \in DOMAIN aggregate |->
     (2 * aggregate[k] + n - (IF k \in up THEN 0 ELSE 1)) \div (2 * n)]

-----------------------------------------------------------------------------
(* Tables, sessions.                                                        *)

NoRecords == [datasets |-> {}, samples |-> {}, runs |-> {}, results |-> {}]

Resting == [pc |-> "rest", id |-> 0, org |-> CHOOSE o \in Orgs : TRUE, samples |-> <<>>,
            dataset |-> 0, pending |-> {}, aggregate |-> <<>>, scored |-> {}]

Seen(r, t) == tables[t] \cup flushed[r][t]

Is(r, pc) == job[r].pc = pc

Become(r, pc) == job' = [job EXCEPT ![r].pc = pc]

Flush(r, t, rows) == flushed' = [flushed EXCEPT ![r][t] = @ \cup rows]

(* The answer, or an exception: the session closes and rolls back.          *)
Over(r) ==
  /\ job' = [job EXCEPT ![r] = Resting]
  /\ flushed' = [flushed EXCEPT ![r] = NoRecords]

EvaluationInit ==
  /\ tables = NoRecords
  /\ flushed = [r \in Requesters |-> NoRecords]
  /\ job = [r \in Requesters |-> Resting]
  /\ studies = 0

-----------------------------------------------------------------------------
(* The two requests.                                                        *)

request_study(r) ==
  /\ Is(r, "rest")
  /\ studies < MaxStudies
  /\ studies' = studies + 1
  /\ \E o \in Orgs :
       \/ \E s \in Datasets :
            job' = [job EXCEPT ![r] = [Resting EXCEPT !.pc = "addDataset", !.id = studies + 1,
                                                      !.org = o, !.samples = s]]
       \/ \E d \in 1 .. studies :
            job' = [job EXCEPT ![r] = [Resting EXCEPT !.pc = "getDataset", !.id = studies + 1,
                                                      !.org = o, !.dataset = d]]
  /\ UNCHANGED <<tables, flushed>>

(* Mutant: each repository call commits what it adds.                       *)
add_dataset_committing(r) ==
  /\ Is(r, "addDataset")
  /\ tables' = [tables EXCEPT !.datasets = @ \cup {[id |-> job[r].id, org |-> job[r].org,
                                                    size |-> Len(job[r].samples)]}]
  /\ Become(r, "addSamples")
  /\ UNCHANGED <<flushed, studies>>

(* `size` is what the client posted, kept to be compared.                   *)
add_dataset(r) ==
  /\ Is(r, "addDataset")
  /\ Flush(r, "datasets", {[id |-> job[r].id, org |-> job[r].org, size |-> Len(job[r].samples)]})
  /\ Become(r, "addSamples")
  /\ UNCHANGED <<tables, studies>>

add_samples(r) ==
  /\ Is(r, "addSamples")
  /\ Flush(r, "samples", {[dataset |-> job[r].id, n |-> i, sample |-> job[r].samples[i]] :
                            i \in DOMAIN job[r].samples})
  /\ Become(r, "save")
  /\ UNCHANGED <<tables, studies>>

(* Another organisation's dataset is not found.                             *)
get_dataset(r) ==
  /\ Is(r, "getDataset")
  /\ IF \E d \in Seen(r, "datasets") : d.id = job[r].dataset /\ d.org = job[r].org
     THEN Become(r, "listSamples") /\ UNCHANGED flushed
     ELSE Over(r)
  /\ UNCHANGED <<tables, studies>>

list_samples(r) ==
  /\ Is(r, "listSamples")
  /\ job' = [job EXCEPT ![r].pc = "openRun",
                        ![r].pending = {s \in Seen(r, "samples") : s.dataset = job[r].dataset}]
  /\ UNCHANGED <<tables, flushed, studies>>

open_run(r) ==
  /\ Is(r, "openRun")
  /\ Flush(r, "runs", {[id |-> job[r].id, dataset |-> job[r].dataset, org |-> job[r].org,
                        metrics |-> <<>>]})
  /\ Become(r, "answer")
  /\ UNCHANGED <<tables, studies>>

(* One turn of the loop; the query orders the samples as it likes.          *)
answer_sample(r) ==
  /\ Is(r, "answer")
  /\ \E s \in job[r].pending, answer \in Answers :
       LET scores == evaluate_sample(s.sample, answer) IN
       job' = [job EXCEPT ![r].pending = @ \ {s},
                          ![r].aggregate = aggregated(@, scores),
                          ![r].scored = @ \cup {[run |-> job[r].id, sample |-> s, answer |-> answer,
                                                 scores |-> scores]}]
  /\ UNCHANGED <<tables, flushed, studies>>

(* The metrics of the run and its results go out in one flush.              *)
add_results(r) ==
  /\ Is(r, "answer")
  /\ job[r].pending = {}
  /\ \E up \in SUBSET DOMAIN job[r].aggregate :
       LET n == IF job[r].scored = {} THEN 1 ELSE Cardinality(job[r].scored)
           metrics == Mean(job[r].aggregate, n, up) IN
       flushed' = [flushed EXCEPT
         ![r].runs = {[run EXCEPT !.metrics = metrics] : run \in @},
         ![r].results = job[r].scored]
  /\ Become(r, "save")
  /\ UNCHANGED <<tables, studies>>

save(r) ==
  /\ Is(r, "save")
  /\ tables' = [t \in DOMAIN tables |-> tables[t] \cup flushed[r][t]]
  /\ Over(r)
  /\ UNCHANGED studies

(* The model or a statement raises, or the process dies.                    *)
abandon(r) ==
  /\ ~Is(r, "rest")
  /\ Over(r)
  /\ UNCHANGED <<tables, studies>>

Study(r) ==
  \/ request_study(r) \/ add_dataset(r) \/ add_samples(r) \/ get_dataset(r) \/ list_samples(r)
  \/ open_run(r) \/ answer_sample(r) \/ add_results(r) \/ save(r) \/ abandon(r)

EvaluationNext == \E r \in Requesters : Study(r)

EvaluationSpec == EvaluationInit /\ [][EvaluationNext]_evaluation

-----------------------------------------------------------------------------
ResultsOf(run) == {x \in tables.results : x.run = run.id}

(* A committed run has one result for every sample its dataset was posted   *)
(* with, and belongs to the organisation that posted it: no run sees a      *)
(* dataset before its samples, and no failure leaves a run half scored.     *)
RunsAreWhole ==
  \A run \in tables.runs :
    \E d \in tables.datasets :
      /\ d.id = run.dataset /\ d.org = run.org
      /\ {x.sample.n : x \in ResultsOf(run)} = 1 .. d.size
      /\ \A x, y \in ResultsOf(run) : x.sample.n = y.sample.n => x = y

Total(results, k) ==
  MapThenSumSet(LAMBDA x : x.scores[k], {x \in results : k \in DOMAIN x.scores})

IsGrounded(x) ==
  \A w \in x.answer : \E i \in DOMAIN x.sample.sample.contexts : w \in x.sample.sample.contexts[i]

(* Each metric is, to half a thousandth, the mean of the scores (a missing  *)
(* recall counting for nothing), and what is not faithful is hallucinated.  *)
(* No hallucination means that every word of an answer is in the contexts   *)
(* it was given, unless so many samples and words make the mean that one    *)
(* word is lost in the rounding.                                            *)
MetricsMatch(metrics, results) ==
  LET n == Cardinality(results) IN
  /\ \A x \in results : DOMAIN x.scores \subseteq DOMAIN metrics
  /\ \A k \in DOMAIN metrics :
       LET d == 2 * (n * metrics[k] - Total(results, k)) IN -n <= d /\ d <= n
  /\ n > 0 => metrics["faithfulness"] + metrics["hallucination"] \in 999 .. 1001
  /\ n > 0 /\ metrics["hallucination"] = 0 =>
       \A x \in results : (n + 1) * Cardinality(x.answer) < 2000 => IsGrounded(x)

(* What a committed run reports agrees with the results stored beside it.   *)
MetricsMatchResults == \A run \in tables.runs : MetricsMatch(run.metrics, ResultsOf(run))

(* The aggregate mean of eval_service.py, for the metric that only some     *)
(* samples have.  The code divides by the number of all samples.            *)
RecallIsMean ==
  \A run \in tables.runs :
    LET having == {x \in ResultsOf(run) : "context_recall" \in DOMAIN x.scores}
        n == Cardinality(having) IN
    n > 0 => LET d == 2 * (n * run.metrics["context_recall"]
                            - Total(having, "context_recall"))
             IN -n <= d /\ d <= n
=============================================================================
