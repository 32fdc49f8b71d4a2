-------------------------- MODULE QualityBenchmark --------------------------
(* The quality benchmark and its release gate                                  *)
(* (src/local_moe/quality_benchmark.py): each case is run on every variant of  *)
(* the routing, in an order that rotates, while a thread samples the host's   *)
(* memory; the gate then decides whether routing is worth its cost.           *)
EXTENDS Integers, Sequences, FiniteSets, FiniteSetsExt, SequencesExt

CONSTANTS
    Variants,    \* the variants, in the order of the manifest
    Cases,       \* the number of cases
    Repetitions,
    Outcomes,    \* what a run of each variant may give
    Decision,    \* the thresholds of the manifest, rates in percent
    Ram,         \* levels of used memory
    MaxSamples,  \* bound on the samples a tracker's thread takes
    MaxGaps      \* bound on the samples that fail, in whole or in part

VARIABLES
    bench,    \* the run: step, whether memory is gated, the first sample, the verdict
    records,
    tracker,  \* what the memory samples of the current record saw
    memory,   \* what the first sample and those of finished records saw
    ram       \* the host: used memory and swap; and, for the property, what was ever sampled

benchVars == <<bench, records, tracker, memory, ram>>

Unavailable == -1
Blank == [used |-> Unavailable, swap |-> Unavailable]
NoSamples == [peak |-> Unavailable, count |-> 0, available |-> 0]
Planned == Cases * Repetitions * Len(Variants)

BenchInit ==
    /\ bench = [pc |-> "load", required |-> FALSE, before |-> Blank, passed |-> FALSE]
    /\ records = <<>>
    /\ tracker = [pc |-> "off", sum |-> NoSamples]
    /\ memory = NoSamples
    /\ ram = [used |-> Min(Ram), swap |-> 0, first |-> 0, taken |-> 0, blank |-> 0, gaps |-> 0, highest |-> 0]

Go(pc) == bench' = [bench EXCEPT !.pc = pc]

-----------------------------------------------------------------------------
(* Samples of the host *)

\* What the sampler may give: memory and swap, one of them, or nothing.
Sampled ==
    LET host == [used |-> ram.used, swap |-> ram.swap]
    IN  {host} \cup (IF ram.gaps < MaxGaps
                     THEN {Blank, [host EXCEPT !.used = Unavailable], [host EXCEPT !.swap = Unavailable]}
                     ELSE {})

\* A summary after one more sample: one that gave anything counts as available.
Add(sum, s) ==
    [peak |-> Max({sum.peak, s.used}), count |-> sum.count + 1,
     available |-> sum.available + (IF s = Blank THEN 0 ELSE 1)]

\* Record of a sample, for the property.
Noted(s) ==
    [ram EXCEPT !.taken = @ + 1, !.blank = @ + (IF s = Blank THEN 1 ELSE 0),
                !.gaps = @ + (IF Unavailable \in {s.used, s.swap} THEN 1 ELSE 0), !.highest = Max({@, s.used})]

-----------------------------------------------------------------------------
(* Before the run *)

\* The manifest, which may gate memory or not, the configuration and the cases
\* must be complete.
LoadSpec ==
    /\ bench.pc = "load"
    /\ Go("error") \/ \E r \in BOOLEAN : bench' = [bench EXCEPT !.pc = "validate", !.required = r]
    /\ UNCHANGED <<records, tracker, memory, ram>>

ValidateInputs ==
    /\ bench.pc = "validate"
    /\ Go("ready") \/ Go("blocked")
    /\ UNCHANGED <<records, tracker, memory, ram>>

\* Every endpoint answers and lists its model, and memory is sampled once.
CheckReadiness ==
    /\ bench.pc = "ready"
    /\ \/ Go("blocked") /\ UNCHANGED <<memory, ram>>
       \/ \E s \in Sampled :
            /\ bench' = [bench EXCEPT !.pc = "record", !.before = s]
            /\ memory' = Add(memory, s)
            /\ ram' = [Noted(s) EXCEPT !.first = ram.swap]
    /\ UNCHANGED <<records, tracker>>

-----------------------------------------------------------------------------
(* The records *)

\* The n-th record: each case starts with the variant after the one before it.
Slot(n) ==
    LET round  == (n - 1) \div Len(Variants)
        case   == round % Cases
        rep    == round \div Cases
        offset == (case + rep) % Len(Variants)
    IN  [case |-> case, rep |-> rep,
         variant |-> Variants[((offset + (n - 1)) % Len(Variants)) + 1]]

\* _run_record: the first sample, then the sampling thread, then the model.
StartRecord ==
    /\ bench.pc = "record" /\ tracker.pc = "off" /\ Len(records) < Planned
    /\ \E s \in Sampled : tracker' = [pc |-> "on", sum |-> Add(NoSamples, s)] /\ ram' = Noted(s)
    /\ UNCHANGED <<bench, records, memory>>

SampleThread ==
    /\ tracker.pc = "on" /\ tracker.sum.count <= MaxSamples
    /\ \E s \in Sampled : tracker' = [tracker EXCEPT !.sum = Add(@, s)] /\ ram' = Noted(s)
    /\ UNCHANGED <<bench, records, memory>>

\* An error that is none of a provider, the system or the run time ends the run.
RunRaises ==
    /\ tracker.pc = "on"
    /\ Go("error")
    /\ tracker' = [pc |-> "off", sum |-> NoSamples]
    /\ UNCHANGED <<records, memory, ram>>

\* The runner answers, or its error is a failed record.
RunCase ==
    /\ tracker.pc = "on"
    /\ LET slot == Slot(Len(records) + 1)
       IN  \E o \in Outcomes[slot.variant] : records' = Append(records, [slot |-> slot, out |-> o])
    /\ tracker' = [tracker EXCEPT !.pc = "stop"]
    /\ UNCHANGED <<bench, memory, ram>>

\* _summarize_run_memory: the records' summaries are merged.
Merge(a, b) ==
    [peak |-> Max({a.peak, b.peak}), count |-> a.count + b.count, available |-> a.available + b.available]

\* Mutant of StopTracker: the samples are copied before the last one is taken.
StopUnsampled ==
    /\ tracker.pc = "stop"
    /\ \E s \in Sampled : ram' = Noted(s)
    /\ memory' = Merge(memory, tracker.sum)
    /\ tracker' = [pc |-> "off", sum |-> NoSamples]
    /\ UNCHANGED <<bench, records>>

\* _HostMemoryTracker.stop: the thread is joined, then the last sample taken.
StopTracker ==
    /\ tracker.pc = "stop"
    /\ \E s \in Sampled : memory' = Merge(memory, Add(tracker.sum, s)) /\ ram' = Noted(s)
    /\ tracker' = [pc |-> "off", sum |-> NoSamples]
    /\ UNCHANGED <<bench, records>>

HostMemory ==
    /\ \E u \in Ram \ {ram.used} : ram' = [ram EXCEPT !.used = u, !.swap = IF u = Max(Ram) THEN 1 ELSE @]
    /\ bench.pc \in {"ready", "record"}
    /\ UNCHANGED <<bench, records, tracker, memory>>

-----------------------------------------------------------------------------
(* The gate *)

Of(v) == {n \in DOMAIN records : records[n].slot.variant = v}
Ok(v) == {n \in Of(v) : records[n].out.ok}
AtLeastPercent(part, whole, percent) == 100 * Cardinality(part) >= percent * Cardinality(whole)
AtMostPercent(part, whole, percent) == 100 * Cardinality(part) <= percent * Cardinality(whole)

\* Thresholds on each required variant alone.
OperationalPassed(v) ==
    /\ AtLeastPercent({n \in Of(v) : records[n].out.good}, Of(v), Decision.min_task)
    /\ AtMostPercent(Of(v) \ Ok(v), Of(v), Decision.max_failures)
    /\ AtMostPercent({n \in Ok(v) : records[n].out.cut}, Of(v), Decision.max_truncated)

Key(n) == <<records[n].slot.case, records[n].slot.rep>>
Record(v, k) == CHOOSE n \in Ok(v) : Key(n) = k

\* The routed cases that both variants finished, and how their latencies compare.
PairedKeys(v, base) ==
    {Key(n) : n \in {n \in Ok(v) : records[n].out.routed}} \cap {Key(n) : n \in Ok(base)}

\* Their ratios in twelfths (exact for latencies that divide twelve), sorted.
RatioOf(v, base, k) == (12 * records[Record(v, k)].out.lat) \div records[Record(base, k)].out.lat
SortedRatios(v, base) ==
    LET keys == SetToSeq(PairedKeys(v, base))
    IN  SortSeq([n \in DOMAIN keys |-> RatioOf(v, base, keys[n])], <)

\* The median ratio is at most one, over enough cases.
RoutedFaster(v, base) ==
    LET ratios == SortedRatios(v, base)
        len    == Len(ratios)
    IN  /\ len >= Decision.min_routed /\ len > 0
        /\ ratios[(len + 1) \div 2] + ratios[(len \div 2) + 1] <= 24

Latency(ns) == MapThenSumSet(LAMBDA n : records[n].out.lat, ns)

\* compare_to_baseline: no worse in quality, success and mean latency.
ValueDemonstrated(v, base) ==
    /\ Cardinality({n \in Of(v) : records[n].out.good}) >= Cardinality({n \in Of(base) : records[n].out.good})
    /\ Cardinality(Ok(v)) >= Cardinality(Ok(base))
    /\ Ok(v) # {} /\ Ok(base) # {}
    /\ Latency(Ok(v)) * Cardinality(Ok(base)) <= Latency(Ok(base)) * Cardinality(Ok(v))
    /\ RoutedFaster(v, base)

\* The two-expert variant only has to compare, and say so.
DiagnosticPassed(v) == AtLeastPercent({n \in Ok(v) : records[n].out.compared}, Of(v), Decision.min_compared)

\* evaluate_host_memory_gate: nothing is asked unless the manifest requires it;
\* then the first and last samples must tell, enough samples be available, and
\* neither the growth of swap over the run nor the peak be too large.
MemoryPassed(after) ==
    LET run == Add(memory, after)
    IN  \/ ~bench.required
        \/ /\ bench.before.swap # Unavailable /\ after.swap # Unavailable
           /\ bench.before.used # Unavailable /\ run.peak # Unavailable
           /\ 100 * run.available >= Decision.min_coverage * run.count
           /\ after.swap - bench.before.swap <= Decision.max_swap /\ run.peak <= Decision.max_ram

\* The run's last sample, then the gate.
EvaluateGate ==
    /\ bench.pc = "record" /\ tracker.pc = "off" /\ Len(records) = Planned
    /\ \E s \in Sampled :
      /\ ram' = Noted(s)
      /\ bench' = [bench EXCEPT !.pc = "complete",
                     !.passed = /\ \A v \in {Decision.base, Decision.value} : OperationalPassed(v)
                                /\ ValueDemonstrated(Decision.value, Decision.base)
                                /\ DiagnosticPassed(Decision.diagnostic)
                                /\ MemoryPassed(s)]
    /\ UNCHANGED <<records, tracker, memory>>

BenchNext ==
    \/ LoadSpec \/ ValidateInputs \/ CheckReadiness \/ StartRecord \/ SampleThread \/ RunCase \/ RunRaises
    \/ StopTracker \/ HostMemory \/ EvaluateGate

BenchSpec == BenchInit /\ [][BenchNext]_benchVars

-----------------------------------------------------------------------------
\* A release that passed is evidenced.  Routing was shown to pay on a case that
\* baseline and candidate both finished.  Where memory is gated, whatever samples
\* failed and whenever they were taken, the run's own first and last included: no
\* sample anywhere in the run read more than the limit, enough of all samples
\* gave anything, and the host's swap is no larger at the end of the run than at
\* its start by more than is allowed (run_quality_benchmark, _HostMemoryTracker.stop,
\* _summarize_run_memory, evaluate_host_memory_gate).
PassedIsEvidenced ==
    bench.passed =>
      /\ \E n \in Ok(Decision.value), m \in Ok(Decision.base) : Key(n) = Key(m) /\ records[n].out.routed
      /\ bench.required =>
           /\ ram.highest <= Decision.max_ram
           /\ 100 * (ram.taken - ram.blank) >= Decision.min_coverage * ram.taken
           /\ ram.swap - ram.first <= Decision.max_swap
=============================================================================
