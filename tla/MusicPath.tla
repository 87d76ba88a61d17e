----------------------------- MODULE MusicPath -----------------------------
(***************************************************************************)
(* viterbi() of src/crates/signal/src/hmm.rs: the most likely state of     *)
(* every window.  Log likelihoods are integers; emissions[t][s] is what    *)
(* window t says for state s, log[r][s] what it costs to go from r to s,   *)
(* and bias how strongly a side is expected to begin in the groove.        *)
(***************************************************************************)
EXTENDS Integers, Sequences

States == {"gap", "music"}

(* The first window has no window before it: only the bias speaks.         *)
FirstScore(emissions, bias) ==
  [s \in States |-> emissions[1][s] - (IF s = "music" THEN bias ELSE 0)]

\* Mutant: the step into a state is weighed after the window is known.
ComesFromLate(score, log, to) ==
  IF score["gap"] + log[to]["gap"] >= score["music"] + log[to]["music"] THEN "gap" ELSE "music"

(* A tie goes to the groove.                                               *)
ComesFrom(score, log, to) ==
  IF score["gap"] + log["gap"][to] >= score["music"] + log["music"][to] THEN "gap" ELSE "music"

Scores(emissions, log, bias) ==
  LET score[t \in 1 .. Len(emissions)] ==
        IF t = 1 THEN FirstScore(emissions, bias)
        ELSE [to \in States |->
                LET from == ComesFrom(score[t - 1], log, to)
                IN  score[t - 1][from] + log[from][to] + emissions[t][to]]
  IN  score

(* The better end, the groove if they are equal, and the way back from it. *)
Viterbi(emissions, log, bias) ==
  LET last  == Len(emissions)
      score == Scores(emissions, log, bias)
      state[t \in 1 .. last] ==
        IF t = last
        THEN IF score[last]["music"] > score[last]["gap"] THEN "music" ELSE "gap"
        ELSE ComesFrom(score[t], log, state[t + 1])
  IN  [t \in 1 .. last |-> state[t]]
=============================================================================
