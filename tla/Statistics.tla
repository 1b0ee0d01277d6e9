----------------------------- MODULE Statistics -----------------------------
(***************************************************************************)
(* The statistics of the engine (source/common/statistic_impl.cc) and how   *)
(* a process merges those of its workers for its report and for a snapshot  *)
(* of a run in flight (process_impl.cc, client_worker_impl.cc).             *)
(*                                                                          *)
(* Doubles are exact fractions <<numerator, denominator>> in lowest terms;  *)
(* 0/0 is the NaN of the code and spreads through every operation, as in    *)
(* the code.  A standard deviation is represented by its square.  The two   *)
(* histogram libraries are external: a histogram is the multiset of what    *)
(* was put in, its bins taken fine enough to hold Values apart.             *)
(***************************************************************************)
EXTENDS Integers, FiniteSetsExt, SequencesExt

CONSTANTS
    Workers,        \* number of workers
    KindsInit,      \* the kinds a worker's statistics may have, in id order
    Values,         \* the samples
    HdrMax,         \* upper bound of a HdrStatistic (60 seconds in the code)
    UintMax,        \* UINT64_MAX
    MaxSamples      \* bound: samples in a run

VARIABLES
    kinds,          \* the kind of each statistic, the same for every worker
    stats,          \* stats[w][i]: statistic i of worker w
    seen            \* seen[w][i][v]: how often v was added there (history)

vars == <<kinds, stats, seen>>

W == 1 .. Workers
Ids == DOMAIN kinds

---------------------------------------------------------------------------
(* Fractions *)

NaN == <<0, 0>>
Zero == <<0, 1>>
Int1(n) == <<n, 1>>
Ratio(n, d) ==
    IF d = 0 THEN NaN
    ELSE LET g == Max({k \in 1 .. d : n % k = 0 /\ d % k = 0})
         IN  <<n \div g, d \div g>>
Plus(a, b) == Ratio(a[1] * b[2] + b[1] * a[2], a[2] * b[2])
Minus(a, b) == Ratio(a[1] * b[2] - b[1] * a[2], a[2] * b[2])
Times(a, b) == Ratio(a[1] * b[1], a[2] * b[2])
Over(a, n) == Ratio(a[1], a[2] * n)
OrZero(a) == IF a = NaN THEN Zero ELSE a

(* std::round of a fraction that is not negative: halves go up *)
Round(a) == (2 * a[1] + a[2]) \div (2 * a[2])

---------------------------------------------------------------------------
(* The multiset of samples a histogram, or samples_, holds *)

Nothing == [v \in Values |-> 0]
Size(h) == MapThenSumSet(LAMBDA v : h[v], Values)
SumOf(h) == MapThenSumSet(LAMBDA v : v * h[v], Values)
SquaresOf(h) == MapThenSumSet(LAMBDA v : v * v * h[v], Values)
Held(h) == {v \in Values : h[v] > 0}
Both(h, g) == [v \in Values |-> h[v] + g[v]]
HistMean(h) == Ratio(SumOf(h), Size(h))
HistVariance(h) == Minus(Ratio(SquaresOf(h), Size(h)), Times(HistMean(h), HistMean(h)))

---------------------------------------------------------------------------
(* One statistic. All kinds share a record; each uses the fields its class has. *)

New(k) ==
    [kind |-> k, id |-> 0, min |-> UintMax, max |-> 0, count |-> 0,
     sum_x |-> 0, sum_x2 |-> 0, mean |-> Zero, variance |-> Zero, hist |-> Nothing]

SetId(s, i) == [s EXCEPT !.id = i]

Lower(a, b) == IF a < b THEN a ELSE b
Higher(a, b) == IF a > b THEN a ELSE b

BaseAdd(s, v) ==
    [s EXCEPT !.min = Lower(@, v), !.max = Higher(@, v), !.count = @ + 1]

SimpleAdd(s, v) ==
    [BaseAdd(s, v) EXCEPT !.sum_x = @ + v, !.sum_x2 = @ + v * v]

StreamingAdd(s, v) ==
    LET t == BaseAdd(s, v)
        delta == Minus(Int1(v), s.mean)
        delta_n == Over(delta, t.count)
    IN  [t EXCEPT
            !.mean = Plus(@, delta_n),
            !.variance = Plus(@, Times(Times(delta, delta_n), Int1(t.count - 1)))]

InMemoryAdd(s, v) == [StreamingAdd(s, v) EXCEPT !.hist[v] = @ + 1]

HdrAdd(s, v) ==
    IF v > HdrMax THEN s ELSE [BaseAdd(s, v) EXCEPT !.hist[v] = @ + 1]

CircllhistAdd(s, v) == [BaseAdd(s, v) EXCEPT !.hist[v] = @ + 1]

AddValue(s, v) ==
    CASE s.kind = "simple" -> SimpleAdd(s, v)
      [] s.kind = "streaming" -> StreamingAdd(s, v)
      [] s.kind = "memory" -> InMemoryAdd(s, v)
      [] s.kind = "hdr" -> HdrAdd(s, v)
      [] s.kind = "circllhist" -> CircllhistAdd(s, v)

---------------------------------------------------------------------------
(* What a statistic answers *)

CountOf(s) == IF s.kind = "hdr" THEN Size(s.hist) ELSE s.count

MinOf(s) ==
    IF s.kind # "hdr" THEN s.min
    ELSE IF CountOf(s) = 0 THEN UintMax ELSE Min(Held(s.hist))

MaxOf(s) ==
    IF s.kind # "hdr" THEN s.max
    ELSE IF CountOf(s) = 0 THEN 0 ELSE Max(Held(s.hist))

SimpleMean(s) == IF s.count = 0 THEN NaN ELSE Ratio(s.sum_x, s.count)
SimpleVariance(s) ==
    IF s.count = 0 THEN NaN
    ELSE Minus(Ratio(s.sum_x2, s.count), Times(SimpleMean(s), SimpleMean(s)))

StreamingMean(s) == IF s.count = 0 THEN NaN ELSE s.mean
StreamingVariance(s) == IF s.count = 0 THEN NaN ELSE Over(s.variance, s.count)

MeanOf(s) ==
    CASE s.kind = "simple" -> SimpleMean(s)
      [] s.kind \in {"streaming", "memory"} -> StreamingMean(s)
      [] s.kind \in {"hdr", "circllhist"} -> HistMean(s.hist)

VarianceOf(s) ==
    CASE s.kind = "simple" -> SimpleVariance(s)
      [] s.kind \in {"streaming", "memory"} -> StreamingVariance(s)
      [] s.kind \in {"hdr", "circllhist"} -> HistVariance(s.hist)

---------------------------------------------------------------------------
(* combine() *)

CombineBase(a, b) ==
    [New(a.kind) EXCEPT !.min = Lower(MinOf(a), MinOf(b)),
                        !.max = Higher(MaxOf(a), MaxOf(b)),
                        !.count = CountOf(a) + CountOf(b)]

CombineSimple(a, b) ==
    [CombineBase(a, b) EXCEPT !.sum_x = a.sum_x + b.sum_x, !.sum_x2 = a.sum_x2 + b.sum_x2]

CombineStreaming(a, b) ==
    LET c == CombineBase(a, b)
        ma == OrZero(MeanOf(a))
        mb == OrZero(MeanOf(b))
        d == Minus(ma, mb)
    IN  IF c.count = 0 THEN c
        ELSE [c EXCEPT
           !.mean = Over(Plus(Times(Int1(a.count), ma), Times(Int1(b.count), mb)), c.count),
           !.variance = Plus(Plus(a.variance, b.variance),
                             Over(Times(Times(d, d), Int1(a.count * b.count)), c.count))]

CombineInMemory(a, b) ==
    LET h == Both(a.hist, b.hist)
    IN  [CombineStreaming(a, b) EXCEPT !.hist = h, !.count = Size(h)]

CombineHdr(a, b) == [New("hdr") EXCEPT !.hist = Both(a.hist, b.hist)]

CombineCircllhist(a, b) == [CombineBase(a, b) EXCEPT !.hist = Both(a.hist, b.hist)]

Combine(a, b) ==
    CASE a.kind = "simple" -> CombineSimple(a, b)
      [] a.kind = "streaming" -> CombineStreaming(a, b)
      [] a.kind = "memory" -> CombineInMemory(a, b)
      [] a.kind = "hdr" -> CombineHdr(a, b)
      [] a.kind = "circllhist" -> CombineCircllhist(a, b)

(* StreamingStatistic::summaryOf *)
SummaryOf(s) ==
    IF CountOf(s) = 0 THEN SetId(New("streaming"), s.id)
    ELSE [New("streaming") EXCEPT
            !.id = s.id, !.count = CountOf(s), !.min = MinOf(s), !.max = MaxOf(s),
            !.mean = MeanOf(s),
            !.variance = Times(OrZero(VarianceOf(s)), Int1(CountOf(s)))]

---------------------------------------------------------------------------
(* serializeNative and deserializeNative: the message holds the fields of   *)
(* the class, the encoded histogram holds no id                             *)

Serializable(s) == s.kind \in {"simple", "streaming", "hdr"}

SerializeSimple(s) ==
    [id |-> s.id, count |-> CountOf(s), min |-> MinOf(s), max |-> MaxOf(s),
     sum_x |-> s.sum_x, sum_x2 |-> s.sum_x2]

SerializeStreaming(s) ==
    [id |-> s.id, count |-> CountOf(s), min |-> MinOf(s), max |-> MaxOf(s),
     mean |-> s.mean, variance |-> s.variance]

SerializeHdr(s) == [hist |-> s.hist]

Serialize(s) ==
    CASE s.kind = "simple" -> SerializeSimple(s)
      [] s.kind = "streaming" -> SerializeStreaming(s)
      [] s.kind = "hdr" -> SerializeHdr(s)

DeserializeSimple(s, m) ==
    [s EXCEPT !.id = m.id, !.count = m.count, !.min = m.min, !.max = m.max,
              !.sum_x = m.sum_x, !.sum_x2 = m.sum_x2]

DeserializeStreaming(s, m) ==
    [s EXCEPT !.id = m.id, !.count = m.count, !.min = m.min, !.max = m.max,
              !.mean = m.mean, !.variance = m.variance]

DeserializeHdr(s, m) == [s EXCEPT !.hist = m.hist]

Deserialize(s, m) ==
    CASE s.kind = "simple" -> DeserializeSimple(s, m)
      [] s.kind = "streaming" -> DeserializeStreaming(s, m)
      [] s.kind = "hdr" -> DeserializeHdr(s, m)

---------------------------------------------------------------------------
(* StatisticImpl::toProto *)

MinField(s) == IF MinOf(s) = UintMax THEN 0 ELSE MinOf(s)

DurationProto(s) ==
    [count |-> CountOf(s), min |-> MinField(s), max |-> MaxOf(s),
     mean |-> IF CountOf(s) = 0 THEN 0 ELSE Round(MeanOf(s)),
     variance |-> IF CountOf(s) = 0 THEN Zero ELSE OrZero(VarianceOf(s))]

---------------------------------------------------------------------------
(* Merging. Statistics are kept in a map by name and merged by position.    *)

Copy(s) == Combine(New(s.kind), s)

(* ProcessImpl::mergeWorkerStatistics, for the report *)
MergeInto(merged, w) ==
    [i \in Ids |-> SetId(Combine(merged[i], stats[w][i]), merged[i].id)]

\* Fault: the merge starts from the first worker's statistics instead of fresh ones.
MergeFromFirst ==
    FoldLeft(MergeInto, [i \in Ids |-> SetId(stats[1][i], i)], [w \in W |-> w])

MergeWorkerStatistics ==
    FoldLeft(MergeInto, [i \in Ids |-> SetId(New(stats[1][i].kind), i)], [w \in W |-> w])

(* ClientWorkerImpl::snapshotStatistics: the copies worker w hands in, none *)
(* when the snapshot did not wait for it                                    *)
SnapshotStatistics(w, answered, detail) ==
    IF w \notin answered THEN <<>>
    ELSE [i \in Ids |-> SetId(IF detail = "full" THEN Copy(stats[w][i])
                                                 ELSE SummaryOf(stats[w][i]), i)]

MergeCopies(merged, copies) ==
    CASE copies = <<>> -> merged
      [] copies # <<>> /\ merged = <<>> -> copies
      [] OTHER -> [i \in DOMAIN merged |->
                     IF i \in DOMAIN copies
                     THEN SetId(Combine(merged[i], copies[i]), merged[i].id)
                     ELSE merged[i]]

(* ProcessImpl::mergeStatistics, for a snapshot *)
MergeStatistics(answered, detail) ==
    FoldLeft(MergeCopies, <<>>, [w \in W |-> SnapshotStatistics(w, answered, detail)])

---------------------------------------------------------------------------
(* Samples arrive at the workers in any order *)

Init ==
    /\ kinds \in KindsInit
    /\ stats = [w \in W |-> [i \in DOMAIN kinds |-> New(kinds[i])]]
    /\ seen = [w \in W |-> [i \in DOMAIN kinds |-> Nothing]]

Sample(w, i, v) ==
    /\ MapThenSumSet(LAMBDA x : MapThenSumSet(LAMBDA j : Size(seen[x][j]), Ids), W)
         < MaxSamples
    /\ stats' = [stats EXCEPT ![w][i] = AddValue(@, v)]
    /\ seen' = [seen EXCEPT ![w][i][v] = @ + 1]
    /\ UNCHANGED kinds

Next == \E w \in W, i \in Ids, v \in Values : Sample(w, i, v)

Spec == Init /\ [][Next]_vars

---------------------------------------------------------------------------
(* Properties *)

(* Every field has its range, and no field is ever NaN: NaN is only what an *)
(* empty statistic answers.                                                 *)
TypeOK ==
    /\ kinds \in KindsInit
    /\ \A w \in W, i \in Ids :
         LET s == stats[w][i]
         IN  /\ s.kind = kinds[i]
             /\ s.count \in 0 .. MaxSamples
             /\ s.min \in Values \cup {UintMax} /\ s.max \in Values \cup {0}
             /\ s.mean[2] > 0 /\ s.variance[2] > 0 /\ s.variance[1] >= 0
             /\ s.hist \in [Values -> 0 .. MaxSamples]

(* What statistic i of the workers ws should answer: worked out from the    *)
(* samples themselves, out of range ones left out of a HdrStatistic.        *)
Expected(i, ws) ==
    LET keep == {v \in Values : kinds[i] = "hdr" => v <= HdrMax}
        times == [v \in keep |-> MapThenSumSet(LAMBDA w : seen[w][i][v], ws)]
        there == {v \in keep : times[v] > 0}
        n == MapThenSumSet(LAMBDA v : times[v], keep)
        sum == MapThenSumSet(LAMBDA v : times[v] * v, keep)
        squares == MapThenSumSet(LAMBDA v : times[v] * v * v, keep)
    IN  [id |-> i, count |-> n,
         min |-> IF there = {} THEN UintMax ELSE Min(there),
         max |-> IF there = {} THEN 0 ELSE Max(there),
         mean |-> Ratio(sum, n),
         variance |-> Ratio(n * squares - sum * sum, n * n)]

Observed(s) ==
    [id |-> s.id, count |-> CountOf(s), min |-> MinOf(s), max |-> MaxOf(s),
     mean |-> MeanOf(s), variance |-> VarianceOf(s)]

(* The report's global statistics (mergeWorkerStatistics) are those of all  *)
(* samples of all workers, however the samples were spread over the workers *)
(* and whether or not some of them, the first included, had none: "one idle *)
(* worker would blank the pstdev of all" does not happen.                   *)
MergedIsWhole ==
    LET merged == MergeWorkerStatistics
    IN  \A i \in Ids : Observed(merged[i]) = Expected(i, W)

(* The statistics of a snapshot (mergeStatistics) are those of all samples  *)
(* of exactly the workers that answered in time, whichever those are.       *)
SnapshotIsWhole ==
    \A answered \in SUBSET W :
       LET merged == MergeStatistics(answered, "full")
       IN  IF answered = {} THEN merged = <<>>
           ELSE \A i \in Ids : Observed(merged[i]) = Expected(i, answered)

(* "Summaries combine exactly" (statistic_impl.h): a snapshot that takes a  *)
(* summary of each statistic reports the same count, mean, variance,        *)
(* smallest and largest value as one that copies the histograms.            *)
SummariesExact ==
    \A answered \in SUBSET W \ {{}} :
       LET merged == MergeStatistics(answered, "summary")
       IN  \A i \in Ids : Observed(merged[i]) = Expected(i, answered)

(* What a report in the duration domain says is coherent: zeros when there  *)
(* are no samples, otherwise a mean, rounded, between the smallest and the  *)
(* largest value and a deviation no larger than their distance.             *)
ReportCoherent ==
    LET merged == MergeWorkerStatistics
    IN  \A i \in Ids :
          LET p == DurationProto(merged[i])
              spread == p.max - p.min
          IN  /\ p.min <= p.mean /\ p.mean <= p.max
              /\ p.variance[1] <= spread * spread * p.variance[2]
              /\ p.count = 0 => p.max = 0

(* A statistic read back from its own serialisation, whatever the instance  *)
(* that reads it held before, answers as the original does, and goes on     *)
(* doing so when it takes another sample or is combined with a third.       *)
RestoredIsSame ==
    \A w, x \in W, i \in Ids :
       Serializable(stats[w][i]) =>
         LET s == stats[w][i]
             t == stats[x][i]
             r == Deserialize(t, Serialize(s))
         IN  /\ Observed(r) = Observed(s)
             /\ \A v \in Values : Observed(AddValue(r, v)) = Observed(AddValue(s, v))
             /\ Observed(Combine(r, t)) = Observed(Combine(s, t))
=============================================================================
