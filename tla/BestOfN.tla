------------------------------ MODULE BestOfN ------------------------------
(***************************************************************************)
(* bench/eval/bestofn.py: one seed of a best-of-N run.  Each problem is    *)
(* sampled N times, each candidate is scored or errs, and the selector     *)
(* picks the one that counts.  A score is the primary metric, 0..Full.     *)
(***************************************************************************)
EXTENDS Integers, Sequences, FiniteSetsExt

CONSTANTS N,           \* n_candidates
          Full,        \* the score of a candidate that passes the oracle
          MaxProblems  \* bound on the problems of the task

ASSUME BestOfNAssumption == N \in Nat \ {0} /\ Full \in Nat \ {0} /\ MaxProblems \in Nat

VARIABLES candidates,   \* of the problem at hand
          scan,         \* the selector's pass, the candidate it is at, and its best so far
          perProblem,   \* the candidates and the pick of each problem
          aggregate,    \* picked_reason_counts, and the sum of the picked scores
          once          \* history: the sum of the scores of the first candidates

benchVars == <<candidates, scan, perProblem, aggregate, once>>

\* A candidate whose provider call raised has no metrics.
Error == -1

\* Index 0 is the code's -1.
ScanStart == [pass |-> 1, at |-> 1, idx |-> 0, value |-> Error]

BenchInit ==
    /\ candidates = <<>> /\ scan = ScanStart
    /\ perProblem = <<>> /\ once = 0
    /\ aggregate = [oracle_pass |-> 0, highest_score |-> 0, no_valid_candidate |-> 0, sum |-> 0]

\* One provider call.
Sample(outcome) ==
    /\ Len(perProblem) < MaxProblems /\ Len(candidates) < N
    /\ candidates' = Append(candidates, outcome)
    /\ UNCHANGED <<scan, perProblem, aggregate, once>>

\* The selector returns, and the problem ends.
Pick(reason, idx, value) ==
    /\ perProblem' = Append(perProblem, [cs |-> candidates, pick |-> [idx |-> idx, value |-> value]])
    /\ aggregate' = [aggregate EXCEPT ![reason] = @ + 1, !.sum = @ + value]
    /\ once' = once + Max({0, candidates[1]})
    /\ candidates' = <<>> /\ scan' = ScanStart

Selecting(pass) == Len(candidates) = N /\ scan.pass = pass

\* A candidate of the first pass: the first that passes the oracle is picked.
FirstPass ==
    /\ Selecting(1) /\ scan.at <= N
    /\ IF candidates[scan.at] >= Full
       THEN Pick("oracle_pass", scan.at, candidates[scan.at])
       ELSE /\ scan' = [scan EXCEPT !.at = @ + 1]
            /\ UNCHANGED <<candidates, perProblem, aggregate, once>>

\* None passes: the second pass starts.
SecondPassStarts ==
    /\ Selecting(1) /\ scan.at > N
    /\ scan' = [ScanStart EXCEPT !.pass = 2]
    /\ UNCHANGED <<candidates, perProblem, aggregate, once>>

\* Mutant: a tie goes to the later candidate.
LaterWins(k) == candidates[k] # Error /\ candidates[k] >= scan.value

Better(k) == candidates[k] # Error /\ candidates[k] > scan.value

\* A candidate of the second pass: it is the best so far if strictly better.
SecondPass ==
    /\ Selecting(2) /\ scan.at <= N
    /\ scan' = IF Better(scan.at)
               THEN [scan EXCEPT !.at = @ + 1, !.idx = scan.at, !.value = candidates[scan.at]]
               ELSE [scan EXCEPT !.at = @ + 1]
    /\ UNCHANGED <<candidates, perProblem, aggregate, once>>

SecondPassEnds ==
    /\ Selecting(2) /\ scan.at > N
    /\ IF scan.idx > 0 THEN Pick("highest_score", scan.idx, Max({0, scan.value}))
                       ELSE Pick("no_valid_candidate", 0, 0)

BenchNext ==
    \/ \E outcome \in {Error} \cup 0..Full : Sample(outcome)
    \/ FirstPass \/ SecondPassStarts \/ SecondPass \/ SecondPassEnds

BenchSpec == BenchInit /\ [][BenchNext]_benchVars

-----------------------------------------------------------------------------
\* The candidates of a problem, and the one that counts: the first of the best,
\* and none only when all erred.
FirstOfTheBest(cs, pick) ==
    /\ pick.idx = 0 <=> \A k \in DOMAIN cs : cs[k] = Error
    /\ pick.idx = 0 => pick.value = 0
    /\ pick.idx > 0 => /\ pick.value = cs[pick.idx]
                       /\ \A k \in DOMAIN cs : cs[k] <= pick.value
                       /\ \A k \in 1..pick.idx - 1 : cs[k] < pick.value

\* The problems that some candidate solves.
Solved == {i \in DOMAIN perProblem : \E k \in DOMAIN perProblem[i].cs : perProblem[i].cs[k] = Full}

\* The pick of every problem is the first of the best of its candidates; the
\* seed's mean is then at least that of sampling once, and oracle_pass counts
\* the problems that some candidate solves.
SelectionIsBest ==
    /\ \A i \in DOMAIN perProblem : FirstOfTheBest(perProblem[i].cs, perProblem[i].pick)
    /\ aggregate.sum >= once
    /\ aggregate.oracle_pass = Cardinality(Solved)
=============================================================================
