--------------------------- MODULE AlgorithmProofs ---------------------------
(***************************************************************************)
(* Proofs about the pure algorithms, for inputs of any size, and with them *)
(* of what the run over the bounded inputs shows.                          *)
(***************************************************************************)
EXTENDS MCAlgorithms, TLAPS, FiniteSetTheorems, SequenceTheorems, WellFoundedInduction

----------------------------------------------------------------------------
(* Least numbers, and induction over a set of numbers.                     *)

LEMMA LeastNatural ==
  ASSUME NEW S, S \subseteq Nat, S # {}
  PROVE  \E x \in S : \A y \in S : x <= y
<1> DEFINE R == {ss \in Nat \X Nat : ss[1] < ss[2]}
<1>1. IsWellFoundedOn(R, Nat)
  BY NatLessThanWellFounded DEF OpToRel
<1>2. \A a, b \in Nat : a < b => <<a, b>> \in R
  OBVIOUS
<1> HIDE DEF R
<1>3. PICK x \in S : \A y \in S : ~ (<<y, x>> \in R)
  BY <1>1, WFMin
<1>4. ASSUME NEW y \in S
      PROVE  x <= y
  <2>1. x \in Nat /\ y \in Nat /\ ~ (y < x)
    BY <1>2, <1>3, <1>4
  <2> QED
    BY <2>1
<1> QED
  BY <1>4

LEMMA SetInduction ==
  ASSUME NEW S, 0 \in S, \A n \in Nat : n \in S => n + 1 \in S
  PROVE  \A n \in Nat : n \in S
<1> DEFINE T == {n \in Nat : n \notin S}
<1> SUFFICES ASSUME T # {}
             PROVE  FALSE
  OBVIOUS
<1>1. PICK x \in T : \A y \in T : x <= y
  <2>1. T \subseteq Nat
    OBVIOUS
  <2> HIDE DEF T
  <2> QED
    BY <2>1, LeastNatural
<1>2. x \in Nat /\ x # 0 /\ x - 1 \in Nat /\ x - 1 \notin T
  BY <1>1
<1>3. x - 1 \in S /\ (x - 1) + 1 = x
  BY <1>2
<1> QED
  BY <1>1, <1>2, <1>3

----------------------------------------------------------------------------
(* A state is an input, or an input with what its algorithm makes of it.   *)

EvaluationInv ==
  /\ subject \in Subjects
  /\ input \in {<<i>> : i \in Inputs(subject)}
  /\ output # <<>> => output = <<Evaluated(subject, input[1])>>

THEOREM OutputsAreEvaluated == Spec => []EvaluationInv
<1>1. Init => EvaluationInv
  BY DEF Init, EvaluationInv
<1>2. EvaluationInv /\ [Evaluate]_vars => EvaluationInv'
  BY DEF EvaluationInv, Evaluate, vars
<1> QED
  BY <1>1, <1>2, PTL DEF Spec

\* The output of a subject that is done is what its algorithm says of an input of it.
LEMMA DoneIsEvaluated ==
  ASSUME EvaluationInv, NEW s, Done(s)
  PROVE  /\ input[1] \in Inputs(s) /\ output[1] = Evaluated(s, input[1])
         /\ subject = s
BY DEF EvaluationInv, Done

----------------------------------------------------------------------------
(* Searches.                                                               *)

LEMMA SearchIsConstrained ==
  ASSUME NEW provider \in {"musicbrainz", "discogs"}, NEW query, NEW world, NEW answer \in Int,
         query.criteria \subseteq P!CliCriteria, query.limit \in Nat
  PROVE  LET reply == P!Search(provider, query, world, answer)
         IN  /\ reply.sent # P!NoRequest => reply.sent.terms # {}
             /\ reply.sent.provider = "discogs" => world.token
             /\ reply.found <= query.limit
<1> DEFINE reply == P!Search(provider, query, world, answer)
           asked == P!Request(provider, query)
<1>1. \/ reply.sent = P!NoRequest /\ reply.found = 0
      \/ /\ ~ P!NothingToAsk(provider, query) /\ ~ P!Unauthorised(provider, world)
         /\ reply.sent = asked
         /\ reply.found \in {0, P!Smaller(answer, query.limit)}
  BY DEF P!Search, P!Failure, P!Sent
<1>2. P!NoRequest.provider = "none"
  BY DEF P!NoRequest
<1>3. asked.provider = provider /\ asked.terms = P!Terms(provider, query)
  BY DEF P!Request
<1> HIDE DEF reply, asked
<1>4. CASE reply.sent = P!NoRequest /\ reply.found = 0
  BY <1>2, <1>4 DEF reply
<1>5. CASE /\ ~ P!NothingToAsk(provider, query) /\ ~ P!Unauthorised(provider, world)
           /\ reply.sent = asked
           /\ reply.found \in {0, P!Smaller(answer, query.limit)}
  <2>1. P!Terms(provider, query) # {}
    BY <1>5 DEF P!NothingToAsk, P!IgnoredBy, P!Understands, P!Terms, P!Criteria, P!CliCriteria
  <2>2. provider = "discogs" => world.token
    BY <1>5 DEF P!Unauthorised
  <2>3. reply.found <= query.limit
    BY <1>5 DEF P!Smaller
  <2> QED
    BY <1>3, <1>5, <2>1, <2>2, <2>3 DEF reply
<1> QED
  BY <1>1, <1>4, <1>5

(***************************************************************************)
(* musicbrainz.rs:294-318, discogs.rs:304-331, cli/metadata.rs:240: no     *)
(* search the command line can ask sends a request without a criterion, or *)
(* asks a provider that needs a token without one, or reports more than    *)
(* its limit; for any criteria, limit and answers.                         *)
(***************************************************************************)
LEMMA RunSearchIsConstrained ==
  ASSUME NEW query, NEW world, NEW which \in {"both", "musicbrainz", "discogs"}, NEW answers,
         query.criteria \subseteq P!CliCriteria, query.limit \in Nat,
         \A provider \in {"musicbrainz", "discogs"} : answers[provider] \in Int
  PROVE  LET replies == P!RunSearch(query, which, world, answers).replies
         IN  \A k \in DOMAIN replies :
               /\ replies[k].sent # P!NoRequest => replies[k].sent.terms # {}
               /\ replies[k].sent.provider = "discogs" => world.token
               /\ replies[k].found <= query.limit
<1> DEFINE replies == P!RunSearch(query, which, world, answers).replies
<1> SUFFICES ASSUME NEW k \in DOMAIN replies
             PROVE  /\ replies[k].sent # P!NoRequest => replies[k].sent.terms # {}
                    /\ replies[k].sent.provider = "discogs" => world.token
                    /\ replies[k].found <= query.limit
  OBVIOUS
<1>1. query.criteria # {} /\ replies = P!Ask(query, which, world, answers)
  BY DEF P!RunSearch
<1> HIDE DEF replies
<1>2. \A i \in DOMAIN P!Chosen(which) : P!Chosen(which)[i] \in {"musicbrainz", "discogs"}
  BY DEF P!Chosen
<1>3. /\ k \in DOMAIN P!Chosen(which)
      /\ replies[k] = P!Search(P!Chosen(which)[k], query, world, answers[P!Chosen(which)[k]])
  BY <1>1 DEF P!Ask
<1> DEFINE provider == P!Chosen(which)[k]
<1>4. provider \in {"musicbrainz", "discogs"} /\ answers[provider] \in Int
  BY <1>2, <1>3
<1> HIDE DEF provider
<1>5. replies[k] = P!Search(provider, query, world, answers[provider])
  BY <1>3 DEF provider
<1> QED
  BY <1>4, <1>5, SearchIsConstrained

THEOREM SearchesAreConstrained == Spec => []RequestsAreConstrained
<1>1. EvaluationInv => RequestsAreConstrained
  <2> SUFFICES ASSUME EvaluationInv, Done("search")
               PROVE  RequestsAreConstrained
    BY DEF RequestsAreConstrained
  <2> DEFINE i == input[1]
  <2>1. i \in SearchInputs /\ output[1] = P!RunSearch(i.query, i.which, i.world, i.answers)
    BY DoneIsEvaluated DEF Inputs, Evaluated
  <2>2. /\ i.query.criteria \subseteq P!CliCriteria /\ i.query.limit \in Nat
        /\ i.which \in {"both", "musicbrainz", "discogs"}
        /\ \A provider \in {"musicbrainz", "discogs"} : i.answers[provider] \in Int
    BY <2>1 DEF SearchInputs, P!CliCriteria, P!Down, P!Broken
  <2> HIDE DEF i
  <2> DEFINE replies == P!RunSearch(i.query, i.which, i.world, i.answers).replies
  <2>3. \A k \in DOMAIN replies :
          /\ replies[k].sent # P!NoRequest => replies[k].sent.terms # {}
          /\ replies[k].sent.provider = "discogs" => i.world.token
          /\ replies[k].found <= i.query.limit
    <3> DEFINE q == i.query
               w == i.world
               c == i.which
               a == i.answers
    <3>1. /\ q.criteria \subseteq P!CliCriteria /\ q.limit \in Nat
          /\ c \in {"both", "musicbrainz", "discogs"}
          /\ \A provider \in {"musicbrainz", "discogs"} : a[provider] \in Int
      BY <2>2
    <3>2. replies = P!RunSearch(q, c, w, a).replies
      OBVIOUS
    <3> HIDE DEF q, w, c, a, replies
    <3>3. \A k \in DOMAIN replies :
            /\ replies[k].sent # P!NoRequest => replies[k].sent.terms # {}
            /\ replies[k].sent.provider = "discogs" => w.token
            /\ replies[k].found <= q.limit
      BY <3>1, <3>2, RunSearchIsConstrained
    <3> QED
      BY <3>3 DEF w, q
  <2>4. output[1].replies = replies
    BY <2>1
  <2>5. RequestsAreConstrained <=>
          \A k \in DOMAIN output[1].replies :
            /\ output[1].replies[k].sent # P!NoRequest => output[1].replies[k].sent.terms # {}
            /\ output[1].replies[k].sent.provider = "discogs" => i.world.token
            /\ output[1].replies[k].found <= i.query.limit
    BY DEF RequestsAreConstrained, i
  <2> HIDE DEF replies
  <2> QED
    BY <2>3, <2>4, <2>5
<1> QED
  BY <1>1, OutputsAreEvaluated, PTL

----------------------------------------------------------------------------
(* Cover art.                                                              *)

(***************************************************************************)
(* project/release.rs:407-449, jpeg_dimensions(): for a file of any number *)
(* of segments, a size comes from the first frame header of an unbroken    *)
(* chain, and the header is whole.                                         *)
(***************************************************************************)
LEMMA SizeIsItsFrames ==
  ASSUME NEW Kinds, NEW segments \in Seq(Kinds),
         C!JpegDimensions(segments) # <<0, 0>>
  PROVE  \E i \in DOMAIN segments :
           /\ segments[i].marker \in {"SOF0", "SOF2"} /\ segments[i].whole
           /\ C!JpegDimensions(segments) = segments[i].size
           /\ \A j \in 1 .. i - 1 : segments[j].marker \notin {"SOF0", "SOF2", "junk"}
<1> DEFINE stops == {i \in DOMAIN segments : C!Ends(segments[i])}
           first == CHOOSE i \in stops : \A j \in stops : i <= j
<1>1. DOMAIN segments = 1 .. Len(segments) /\ Len(segments) \in Nat
  OBVIOUS
<1>2. stops # {}
  BY DEF C!JpegDimensions, C!NoSize
<1>3. PICK i \in stops : \A j \in stops : i <= j
  <2>1. stops \subseteq Nat
    BY <1>1
  <2> HIDE DEF stops
  <2> QED
    BY <1>2, <2>1, LeastNatural
<1>4. first \in stops /\ \A j \in stops : first <= j
  BY <1>3
<1>5. C!JpegDimensions(segments)
        = IF C!IsFrame(segments[first].marker) /\ segments[first].whole
          THEN C!Sized(segments[first].size) ELSE C!NoSize
  BY <1>2 DEF C!JpegDimensions
<1> HIDE DEF first
<1>6. /\ C!IsFrame(segments[first].marker) /\ segments[first].whole
      /\ C!JpegDimensions(segments) = segments[first].size
  BY <1>5 DEF C!Sized, C!NoSize
<1>7. ASSUME NEW j \in 1 .. first - 1
      PROVE  segments[j].marker \notin {"SOF0", "SOF2", "junk"}
  <2>1. first \in 1 .. Len(segments)
    BY <1>1, <1>4
  <2>2. j \in DOMAIN segments /\ ~ (first <= j)
    BY <1>1, <2>1
  <2>3. ~ C!Ends(segments[j])
    BY <1>4, <2>2
  <2> QED
    BY <2>3 DEF C!Ends, C!IsFrame, C!Frames
<1> QED
  BY <1>4, <1>6, <1>7 DEF C!IsFrame, C!Frames

(***************************************************************************)
(* project/release.rs:407-449: the size that is stored with a cover is     *)
(* that of the first frame header in an unbroken chain of segments.  The   *)
(* lemma says it of files of any length.                                   *)
(***************************************************************************)
THEOREM CoversAreMeasured == Spec => []CoverSizeIsItsFrames
<1>1. EvaluationInv => CoverSizeIsItsFrames
  <2> SUFFICES ASSUME EvaluationInv, Done("jpeg"), output[1] # <<0, 0>>
               PROVE  CoverSizeIsItsFrames
    BY DEF CoverSizeIsItsFrames
  <2> DEFINE i == input[1]
  <2>1. i \in Jpegs /\ output[1] = C!JpegDimensions(i)
    BY DoneIsEvaluated DEF Inputs, Evaluated
  <2>2. i \in Seq(Segments)
    <3>1. PICK n \in 0 .. 3 : i \in [1 .. n -> Segments]
      BY <2>1 DEF Jpegs
    <3> HIDE DEF i
    <3> QED
      BY <3>1
  <2> HIDE DEF i
  <2>3. \E k \in DOMAIN i :
          /\ i[k].marker \in {"SOF0", "SOF2"} /\ i[k].whole
          /\ C!JpegDimensions(i) = i[k].size
          /\ \A j \in 1 .. k - 1 : i[j].marker \notin {"SOF0", "SOF2", "junk"}
    BY <2>1, <2>2, SizeIsItsFrames
  <2> QED
    BY <2>1, <2>3 DEF CoverSizeIsItsFrames, i
<1> QED
  BY <1>1, OutputsAreEvaluated, PTL

----------------------------------------------------------------------------
(* Likeliest paths.                                                        *)

Chain(f, n, first, step) ==
  f[1] = first /\ \A t \in 2 .. n : f[t] = step[t][f[t - 1]]

(***************************************************************************)
(* Where each value is made of the one before, there is a function that    *)
(* holds them all.                                                         *)
(***************************************************************************)
LEMMA StepByStep ==
  ASSUME NEW n \in Nat \ {0}, NEW V, NEW first \in V, NEW step \in [1 .. n -> [V -> V]]
  PROVE  \E f \in [1 .. n -> V] : Chain(f, n, first, step)
<1> DEFINE Upto(m) == \E f \in [1 .. m -> V] :
             f = [t \in 1 .. m |-> IF t = 1 THEN first ELSE step[t][f[t - 1]]]
           T == {m \in Nat : m <= n => Upto(m)}
<1>1. 0 \in T
  <2> DEFINE f == [t \in 1 .. 0 |-> first]
  <2>1. f \in [1 .. 0 -> V] /\ f = [t \in 1 .. 0 |-> IF t = 1 THEN first ELSE step[t][f[t - 1]]]
    OBVIOUS
  <2> QED
    BY <2>1
<1>2. ASSUME NEW m \in Nat, m \in T
      PROVE  m + 1 \in T
  <2> SUFFICES ASSUME m + 1 <= n
               PROVE  Upto(m + 1)
    OBVIOUS
  <2>1. PICK f \in [1 .. m -> V] :
          f = [t \in 1 .. m |-> IF t = 1 THEN first ELSE step[t][f[t - 1]]]
    BY <1>2
  <2> DEFINE g == [t \in 1 .. m + 1 |-> IF t = 1 THEN first ELSE step[t][f[t - 1]]]
  <2>2. ASSUME NEW t \in 1 .. m + 1
        PROVE  g[t] \in V
    <3>1. CASE t = 1
      BY <3>1
    <3>2. CASE t # 1
      <4>1. t - 1 \in 1 .. m /\ t \in 1 .. n
        BY <3>2
      <4>2. f[t - 1] \in V /\ step[t] \in [V -> V]
        BY <4>1
      <4> QED
        BY <3>2, <4>2
    <3> QED
      BY <3>1, <3>2
  <2>3. ASSUME NEW t \in 1 .. m
        PROVE  g[t] = f[t]
    <3>1. t \in 1 .. m + 1
      OBVIOUS
    <3> QED
      BY <2>1, <3>1
  <2>4. g \in [1 .. m + 1 -> V]
    BY <2>2
  <2>5. g = [t \in 1 .. m + 1 |-> IF t = 1 THEN first ELSE step[t][g[t - 1]]]
    <3>1. ASSUME NEW t \in 1 .. m + 1, t # 1
          PROVE  g[t - 1] = f[t - 1]
      <4>1. t - 1 \in 1 .. m
        BY <3>1
      <4> HIDE DEF g
      <4> QED
        BY <2>3, <4>1
    <3> QED
      BY <3>1
  <2> HIDE DEF g
  <2> QED
    BY <2>4, <2>5
<1>3. T \subseteq Nat /\ \A m \in Nat : m \in T => m + 1 \in T
  BY <1>2
<1>4. n \in T
  <2> HIDE DEF T
  <2> QED
    BY <1>1, <1>3, SetInduction
<1>5. PICK f \in [1 .. n -> V] :
        f = [t \in 1 .. n |-> IF t = 1 THEN first ELSE step[t][f[t - 1]]]
  BY <1>4
<1>6. Chain(f, n, first, step)
  BY <1>5 DEF Chain
<1> QED
  BY <1>6

(***************************************************************************)
(* The equations of hmm.rs:315-359, of any side: the scores, the path that *)
(* is traced back through them, and the likelihood along a path.           *)
(***************************************************************************)
Scored(score, n, emissions, log, bias) ==
  /\ score \in [1 .. n -> [M!States -> Int]]
  /\ score[1] = M!FirstScore(emissions, bias)
  /\ \A t \in 2 .. n, to \in M!States :
       LET from == M!ComesFrom(score[t - 1], log, to)
       IN  score[t][to] = score[t - 1][from] + log[from][to] + emissions[t][to]

Traced(path, n, score, log) ==
  /\ path \in [1 .. n -> M!States]
  /\ path[n] = IF score[n]["music"] > score[n]["gap"] THEN "music" ELSE "gap"
  /\ \A t \in 2 .. n : path[t - 1] = M!ComesFrom(score[t - 1], log, path[t])

Summed(along, n, emissions, log, bias, path) ==
  /\ along \in [1 .. n -> Int]
  /\ along[1] = M!FirstScore(emissions, bias)[path[1]]
  /\ \A t \in 2 .. n :
       along[t] = along[t - 1] + log[path[t - 1]][path[t]] + emissions[t][path[t]]

\* The scores of a model follow their own equation, whatever the length of the side.
LEMMA ScoresAreSteps ==
  ASSUME NEW n \in Nat \ {0}, NEW emissions \in [1 .. n -> [M!States -> Int]],
         NEW log \in [M!States -> [M!States -> Int]], NEW bias \in Int
  PROVE  Scored(M!Scores(emissions, log, bias), n, emissions, log, bias)
<1> DEFINE Levels == [M!States -> Int]
           Next1(v, t) == [to \in M!States |->
                LET from == M!ComesFrom(v, log, to)
                IN  v[from] + log[from][to] + emissions[t][to]]
           first == M!FirstScore(emissions, bias)
           step == [t \in 1 .. n |-> [v \in Levels |-> Next1(v, t)]]
           score == M!Scores(emissions, log, bias)
           Equation(f) == f = [t \in 1 .. n |-> IF t = 1 THEN first ELSE Next1(f[t - 1], t)]
<1>1. Len(emissions) = n /\ 1 \in 1 .. n
  OBVIOUS
<1>2. first \in Levels
  <2>1. emissions[1] \in [M!States -> Int]
    BY <1>1
  <2> QED
    BY <2>1 DEF M!FirstScore
<1>3. ASSUME NEW v \in Levels, NEW t \in 1 .. n
      PROVE  Next1(v, t) \in Levels
  <2>1. \A to \in M!States : M!ComesFrom(v, log, to) \in M!States
    BY DEF M!ComesFrom, M!States
  <2>2. emissions[t] \in [M!States -> Int]
    OBVIOUS
  <2>3. ASSUME NEW to \in M!States, NEW from \in M!States
        PROVE  v[from] + log[from][to] + emissions[t][to] \in Int
    <3>1. v[from] \in Int /\ log[from] \in [M!States -> Int] /\ emissions[t][to] \in Int
      BY <2>2
    <3> QED
      BY <3>1
  <2> QED
    BY <2>1, <2>3
<1> HIDE DEF Next1, Levels
<1>4. step \in [1 .. n -> [Levels -> Levels]]
  <2>1. ASSUME NEW t \in 1 .. n
        PROVE  [v \in Levels |-> Next1(v, t)] \in [Levels -> Levels]
    BY <1>3
  <2> QED
    BY <2>1
<1>5. \E f \in [1 .. n -> Levels] : Equation(f)
  <2>1. PICK f \in [1 .. n -> Levels] :
          f[1] = first /\ \A t \in 2 .. n : f[t] = step[t][f[t - 1]]
    <3>1. \E f \in [1 .. n -> Levels] : Chain(f, n, first, step)
      <4> HIDE DEF first, step
      <4> QED
        BY <1>2, <1>4, StepByStep
    <3> QED
      BY <3>1 DEF Chain
  <2>2. ASSUME NEW t \in 1 .. n, t # 1
        PROVE  step[t][f[t - 1]] = Next1(f[t - 1], t)
    <3>1. f[t - 1] \in Levels
      <4>1. t - 1 \in 1 .. n
        BY <2>2
      <4> QED
        BY <4>1
    <3> QED
      BY <3>1 DEF step
  <2>3. ASSUME NEW t \in 1 .. n
        PROVE  f[t] = IF t = 1 THEN first ELSE Next1(f[t - 1], t)
    <3> HIDE DEF step, first
    <3>1. CASE t = 1
      BY <2>1, <3>1
    <3>2. CASE t # 1
      <4>1. f[t] = step[t][f[t - 1]]
        BY <2>1, <3>2
      <4> QED
        BY <2>2, <3>2, <4>1
    <3> QED
      BY <3>1, <3>2
  <2> HIDE DEF step, first
  <2>4. Equation(f)
    BY <2>3
  <2> QED
    BY <2>4
<1>6. score = CHOOSE f : Equation(f)
  BY <1>1 DEF M!Scores, Next1
<1> HIDE DEF score, Equation
<1>7. Equation(score)
  BY <1>5, <1>6
<1>8. score = [t \in 1 .. n |-> IF t = 1 THEN first ELSE Next1(score[t - 1], t)]
  BY <1>7 DEF Equation
<1> HIDE DEF first
<1>9. score[1] = first /\ \A t \in 2 .. n : score[t] = Next1(score[t - 1], t)
  BY <1>1, <1>8
<1>10. \A t \in 1 .. n : score[t] \in Levels
  <2> DEFINE T == {m \in Nat : m + 1 <= n => score[m + 1] \in Levels}
  <2>1. 0 \in T
    BY <1>2, <1>9
  <2>2. ASSUME NEW m \in Nat, m \in T
        PROVE  m + 1 \in T
    <3> SUFFICES ASSUME m + 2 <= n
                 PROVE  score[m + 2] \in Levels
      OBVIOUS
    <3>1. score[m + 1] \in Levels /\ m + 2 \in 2 .. n /\ (m + 2) - 1 = m + 1
      BY <2>2
    <3> QED
      BY <1>3, <1>9, <3>1
  <2>3. \A m \in Nat : m \in T
    <3> HIDE DEF T
    <3> QED
      BY <2>1, <2>2, SetInduction
  <2>4. ASSUME NEW t \in 1 .. n
        PROVE  score[t] \in Levels
    <3>1. t - 1 \in Nat /\ (t - 1) + 1 = t /\ t <= n
      OBVIOUS
    <3> QED
      BY <2>3, <3>1
  <2> QED
    BY <2>4
<1>11. score \in [1 .. n -> Levels]
  BY <1>8, <1>10
<1> QED
  BY <1>9, <1>11 DEF Scored, first, Next1, Levels, score

\* So does the likelihood of a path, ...
LEMMA LikelihoodIsSum ==
  ASSUME NEW n \in Nat \ {0}, NEW i, i.emissions \in [1 .. n -> [M!States -> Int]],
         i.log \in [M!States -> [M!States -> Int]], i.bias \in Int,
         NEW path \in [1 .. n -> M!States]
  PROVE  \E along : /\ Likelihood(i, path) = along[n]
                    /\ Summed(along, n, i.emissions, i.log, i.bias, path)
<1> DEFINE more(t) == i.log[path[t - 1]][path[t]]
           here(t) == i.emissions[t][path[t]]
           first == M!FirstScore(i.emissions, i.bias)[path[1]]
           step == [t \in 1 .. n |-> [v \in Int |-> IF t = 1 THEN 0 ELSE v + more(t) + here(t)]]
           Equation(f) == f = [t \in 1 .. n |-> IF t = 1 THEN first
                                                ELSE f[t - 1] + more(t) + here(t)]
<1>1. Len(i.emissions) = n /\ 1 \in 1 .. n /\ n \in 1 .. n
  OBVIOUS
<1>2. first \in Int
  <2>1. i.emissions[1] \in [M!States -> Int] /\ path[1] \in M!States
    BY <1>1
  <2> QED
    BY <2>1 DEF M!FirstScore
<1>3. ASSUME NEW t \in 1 .. n
      PROVE  here(t) \in Int /\ (t # 1 => more(t) \in Int)
  <2>1. i.emissions[t] \in [M!States -> Int] /\ path[t] \in M!States
    OBVIOUS
  <2>2. t # 1 => path[t - 1] \in M!States
    <3>1. t # 1 => t - 1 \in 1 .. n
      OBVIOUS
    <3> QED
      BY <3>1
  <2> QED
    BY <2>1, <2>2
<1> HIDE DEF more, here, first
<1>4. step \in [1 .. n -> [Int -> Int]]
  BY <1>3
<1>5. \E f \in [1 .. n -> Int] : Equation(f)
  <2>1. PICK f \in [1 .. n -> Int] :
          f[1] = first /\ \A t \in 2 .. n : f[t] = step[t][f[t - 1]]
    <3>1. \E f \in [1 .. n -> Int] : Chain(f, n, first, step)
      <4> HIDE DEF step
      <4> QED
        BY <1>2, <1>4, StepByStep
    <3> QED
      BY <3>1 DEF Chain
  <2>2. ASSUME NEW t \in 1 .. n, t # 1
        PROVE  f[t] = f[t - 1] + more(t) + here(t)
    <3>1. t - 1 \in 1 .. n /\ t \in 2 .. n
      BY <2>2
    <3>2. f[t - 1] \in Int
      BY <3>1
    <3>3. step[t][f[t - 1]] = f[t - 1] + more(t) + here(t)
      BY <2>2, <3>2
    <3> QED
      BY <2>1, <3>1, <3>3
  <2> HIDE DEF step
  <2>3. Equation(f)
    BY <2>1, <2>2
  <2> QED
    BY <2>3
<1> DEFINE along == CHOOSE f : Equation(f)
<1>6. Likelihood(i, path) = along[n]
  BY <1>1 DEF Likelihood, first, more, here
<1> HIDE DEF along, Equation
<1>7. Equation(along)
  BY <1>5 DEF along
<1>8. along = [t \in 1 .. n |-> IF t = 1 THEN first ELSE along[t - 1] + more(t) + here(t)]
  BY <1>7 DEF Equation
<1>9. along[1] = first /\ \A t \in 2 .. n : along[t] = along[t - 1] + more(t) + here(t)
  <2>1. along[1] = first
    BY <1>1, <1>8
  <2>2. ASSUME NEW t \in 2 .. n
        PROVE  along[t] = along[t - 1] + more(t) + here(t)
    <3>1. t \in 1 .. n /\ t # 1
      OBVIOUS
    <3> QED
      BY <1>8, <3>1
  <2> QED
    BY <2>1, <2>2
<1>10. \A t \in 1 .. n : along[t] \in Int
  <2> DEFINE T == {m \in Nat : m + 1 <= n => along[m + 1] \in Int}
  <2>1. 0 \in T
    BY <1>2, <1>9
  <2>2. ASSUME NEW m \in Nat, m \in T
        PROVE  m + 1 \in T
    <3> SUFFICES ASSUME m + 2 <= n
                 PROVE  along[m + 2] \in Int
      OBVIOUS
    <3>1. PICK t \in 2 .. n : t = m + 2
      OBVIOUS
    <3>2. t \in 1 .. n /\ t # 1 /\ t - 1 = m + 1
      BY <3>1
    <3>3. along[t - 1] \in Int
      BY <2>2, <3>2
    <3>4. here(t) \in Int /\ more(t) \in Int
      BY <1>3, <3>2
    <3>5. along[t] = along[t - 1] + more(t) + here(t)
      BY <1>9
    <3>6. along[t] \in Int
      <4> DEFINE last == along[t - 1]
      <4>1. last \in Int /\ along[t] = last + more(t) + here(t)
        BY <3>3, <3>5
      <4> HIDE DEF last
      <4> QED
        BY <3>4, <4>1
    <3> QED
      BY <3>1, <3>6
  <2>3. \A m \in Nat : m \in T
    <3> HIDE DEF T
    <3> QED
      BY <2>1, <2>2, SetInduction
  <2>4. ASSUME NEW t \in 1 .. n
        PROVE  along[t] \in Int
    <3>1. t - 1 \in Nat /\ (t - 1) + 1 = t /\ t <= n
      OBVIOUS
    <3> QED
      BY <2>3, <3>1
  <2> QED
    BY <2>4
<1>11. along \in [1 .. n -> Int]
  BY <1>8, <1>10
<1> QED
  <2>1. Summed(along, n, i.emissions, i.log, i.bias, path)
    BY <1>9, <1>11 DEF Summed, first, more, here
  <2> QED
    BY <1>6, <2>1

\* ... and the decoded path is traced back from the better of the last two scores.
LEMMA PathIsTraced ==
  ASSUME NEW n \in Nat \ {0}, NEW emissions \in [1 .. n -> [M!States -> Int]],
         NEW log \in [M!States -> [M!States -> Int]], NEW bias \in Int
  PROVE  Traced(M!Viterbi(emissions, log, bias), n, M!Scores(emissions, log, bias), log)
<1> DEFINE score == M!Scores(emissions, log, bias)
           path == M!Viterbi(emissions, log, bias)
           top == IF score[n]["music"] > score[n]["gap"] THEN "music" ELSE "gap"
           Back(t, to) == M!ComesFrom(score[t], log, to)
           step == [u \in 1 .. n |-> [to \in M!States |-> Back(n + 1 - u, to)]]
           Equation(f) == f = [t \in 1 .. n |-> IF t = n THEN top ELSE Back(t, f[t + 1])]
<1>1. Len(emissions) = n /\ 1 \in 1 .. n /\ n \in 1 .. n
  OBVIOUS
<1>2. top \in M!States /\ \A t, to : Back(t, to) \in M!States
  BY DEF M!States, M!ComesFrom
<1> HIDE DEF top, Back
<1>3. step \in [1 .. n -> [M!States -> M!States]]
  BY <1>2
<1>4. \E f \in [1 .. n -> M!States] : Equation(f)
  <2>1. PICK g \in [1 .. n -> M!States] :
          g[1] = top /\ \A u \in 2 .. n : g[u] = step[u][g[u - 1]]
    <3>1. \E g \in [1 .. n -> M!States] : Chain(g, n, top, step)
      <4> HIDE DEF step
      <4> QED
        BY <1>2, <1>3, StepByStep
    <3> QED
      BY <3>1 DEF Chain
  <2> DEFINE f == [t \in 1 .. n |-> g[n + 1 - t]]
  <2>2. f \in [1 .. n -> M!States]
    <3>1. \A t \in 1 .. n : n + 1 - t \in 1 .. n
      OBVIOUS
    <3> QED
      BY <3>1
  <2>3. f[n] = top
    BY <1>1, <2>1
  <2>4. ASSUME NEW t \in 1 .. n, t # n
        PROVE  f[t] = Back(t, f[t + 1])
    <3>1. PICK u \in 2 .. n : u = n + 1 - t
      BY <2>4
    <3>2. t + 1 \in 1 .. n /\ u - 1 = n + 1 - (t + 1) /\ n + 1 - u = t /\ u \in 1 .. n /\ u - 1 \in 1 .. n
      BY <2>4, <3>1
    <3>3. f[t] = g[u] /\ f[t + 1] = g[u - 1] /\ g[u - 1] \in M!States
      BY <3>1, <3>2
    <3>4. g[u] = step[u][g[u - 1]]
      BY <2>1
    <3>5. step[u][g[u - 1]] = Back(n + 1 - u, g[u - 1])
      BY <3>2, <3>3
    <3>6. Back(n + 1 - u, g[u - 1]) = Back(t, g[u - 1])
      BY <3>2
    <3> HIDE DEF f, step
    <3> QED
      BY <3>3, <3>4, <3>5, <3>6
  <2>5. Equation(f)
    <3>1. DOMAIN f = 1 .. n
      OBVIOUS
    <3>2. \A t \in 1 .. n : f[t] = IF t = n THEN top ELSE Back(t, f[t + 1])
      <4> HIDE DEF f
      <4> QED
        BY <2>3, <2>4
    <3>3. f = [t \in 1 .. n |-> f[t]]
      OBVIOUS
    <3> HIDE DEF f
    <3> QED
      BY <3>2, <3>3
  <2> HIDE DEF f, Equation
  <2> QED
    BY <2>2, <2>5
<1> DEFINE state == CHOOSE f : Equation(f)
<1>5. path = [t \in 1 .. n |-> state[t]]
  BY <1>1 DEF M!Viterbi, top, Back
<1> HIDE DEF state, Equation, path
<1>6. Equation(state)
  BY <1>4 DEF state
<1>7. state = [t \in 1 .. n |-> IF t = n THEN top ELSE Back(t, state[t + 1])]
  BY <1>6 DEF Equation
<1>8. path = state
  BY <1>5, <1>7
<1>9. path = [t \in 1 .. n |-> IF t = n THEN top ELSE Back(t, path[t + 1])]
  BY <1>7, <1>8
<1>10. path \in [1 .. n -> M!States]
  BY <1>2, <1>9
<1>11. path[n] = top
  BY <1>1, <1>9
<1>12. ASSUME NEW t \in 2 .. n
       PROVE  path[t - 1] = Back(t - 1, path[t])
  <2>1. PICK s \in 1 .. n : s = t - 1
    OBVIOUS
  <2>2. s # n /\ s + 1 = t
    BY <2>1
  <2>3. path[s] = Back(s, path[s + 1])
    BY <1>9, <2>2
  <2> QED
    BY <2>1, <2>2, <2>3
<1> QED
  BY <1>10, <1>11, <1>12 DEF Traced, top, Back, path, score

\* What a traced path comes to is the most that any path can.
LEMMA TracedIsBest ==
  ASSUME NEW n \in Nat \ {0}, NEW e \in [1 .. n -> [M!States -> Int]],
         NEW log \in [M!States -> [M!States -> Int]], NEW bias \in Int,
         NEW score, Scored(score, n, e, log, bias),
         NEW best, Traced(best, n, score, log),
         NEW path \in [1 .. n -> M!States],
         NEW along, Summed(along, n, e, log, bias, path),
         NEW climb, Summed(climb, n, e, log, bias, best)
  PROVE  along[n] <= climb[n]
<1> DEFINE first == M!FirstScore(e, bias)
<1>1. /\ score \in [1 .. n -> [M!States -> Int]]
      /\ score[1] = first
      /\ \A t \in 2 .. n, to \in M!States :
           LET from == M!ComesFrom(score[t - 1], log, to)
           IN  score[t][to] = score[t - 1][from] + log[from][to] + e[t][to]
  BY DEF Scored
<1>2. /\ best \in [1 .. n -> M!States]
      /\ best[n] = IF score[n]["music"] > score[n]["gap"] THEN "music" ELSE "gap"
      /\ \A t \in 2 .. n : best[t - 1] = M!ComesFrom(score[t - 1], log, best[t])
  BY DEF Traced
<1>3. /\ along \in [1 .. n -> Int]
      /\ along[1] = first[path[1]]
      /\ \A t \in 2 .. n :
           along[t] = along[t - 1] + log[path[t - 1]][path[t]] + e[t][path[t]]
  BY DEF Summed
<1>4. /\ climb \in [1 .. n -> Int]
      /\ climb[1] = first[best[1]]
      /\ \A t \in 2 .. n :
           climb[t] = climb[t - 1] + log[best[t - 1]][best[t]] + e[t][best[t]]
  BY DEF Summed
<1> HIDE DEF first
<1>5. log \in [M!States -> [M!States -> Int]] /\ e \in [1 .. n -> [M!States -> Int]]
  OBVIOUS
<1>6. 1 \in 1 .. n /\ n \in 1 .. n
  OBVIOUS
\* A score is the most a step into its state can come to.
<1>7. ASSUME NEW t \in 2 .. n, NEW from \in M!States, NEW to \in M!States
      PROVE  score[t - 1][from] + log[from][to] + e[t][to] <= score[t][to]
  <2> DEFINE last == score[t - 1]
             came == M!ComesFrom(last, log, to)
  <2>1. t - 1 \in 1 .. n /\ t \in 1 .. n
    OBVIOUS
  <2>2. last \in [M!States -> Int] /\ e[t][to] \in Int
    BY <1>1, <1>5, <2>1
  <2>3. score[t][to] = last[came] + log[came][to] + e[t][to]
    BY <1>1
  <2> HIDE DEF last
  <2>4. \A s \in M!States : last[s] \in Int /\ log[s][to] \in Int
    <3>1. \A s \in M!States : log[s] \in [M!States -> Int]
      BY <1>5
    <3> QED
      BY <2>2, <3>1
  <2>5. came \in M!States /\ last[from] + log[from][to] <= last[came] + log[came][to]
    <3>1. "gap" \in M!States /\ "music" \in M!States /\ from \in {"gap", "music"}
      BY DEF M!States
    <3>2. PICK g, m : g = last["gap"] + log["gap"][to] /\ m = last["music"] + log["music"][to]
      OBVIOUS
    <3>3. g \in Int /\ m \in Int
      <4>1. /\ last["gap"] \in Int /\ log["gap"][to] \in Int
            /\ last["music"] \in Int /\ log["music"][to] \in Int
        BY <2>4, <3>1, Zenon
      <4>2. \A x, y \in Int : x + y \in Int
        OBVIOUS
      <4> QED
        BY <3>2, <4>1, <4>2, Zenon
    <3>4. \/ came = "gap" /\ g >= m
          \/ came = "music" /\ ~ (g >= m)
      BY <3>2 DEF M!ComesFrom
    <3>5. last[from] + log[from][to] \in {g, m}
      BY <3>1, <3>2
    <3>6. PICK most : most = last[came] + log[came][to] /\ most \in {g, m}
      BY <3>2, <3>4
    <3>7. g <= most /\ m <= most
      <4>1. most = (IF g >= m THEN g ELSE m)
        BY <3>2, <3>4, <3>6
      <4> QED
        BY <3>3, <4>1
    <3>8. last[from] + log[from][to] <= most
      <4>1. PICK x : x = last[from] + log[from][to]
        OBVIOUS
      <4> QED
        BY <3>5, <3>7, <4>1
    <3>9. came \in M!States
      BY <3>1, <3>4
    <3> QED
      BY <3>6, <3>8, <3>9
  <2> HIDE DEF came
  <2>6. last[from] + log[from][to] + e[t][to] <= last[came] + log[came][to] + e[t][to]
    <3>1. PICK a, b, c, d, h : /\ a = last[from] /\ b = log[from][to] /\ h = e[t][to]
                               /\ c = last[came] /\ d = log[came][to]
      OBVIOUS
    <3>2. a \in Int /\ b \in Int /\ c \in Int /\ d \in Int /\ h \in Int /\ a + b <= c + d
      BY <2>2, <2>4, <2>5, <3>1
    <3>3. a + b + h <= c + d + h
      BY <3>2
    <3> QED
      BY <3>1, <3>3
  <2> QED
    BY <2>3, <2>6 DEF last
<1>8. \A t \in 1 .. n : along[t] <= score[t][path[t]] /\ climb[t] = score[t][best[t]]
  <2> DEFINE T == {m \in Nat : m + 1 <= n => /\ along[m + 1] <= score[m + 1][path[m + 1]]
                                             /\ climb[m + 1] = score[m + 1][best[m + 1]]}
  <2>1. 0 \in T
    <3>1. along[1] = score[1][path[1]] /\ climb[1] = score[1][best[1]] /\ along[1] \in Int
      BY <1>1, <1>3, <1>4, <1>6
    <3> QED
      BY <3>1
  <2>2. ASSUME NEW m \in Nat, m \in T
        PROVE  m + 1 \in T
    <3> SUFFICES ASSUME m + 2 <= n
                 PROVE  /\ along[m + 2] <= score[m + 2][path[m + 2]]
                        /\ climb[m + 2] = score[m + 2][best[m + 2]]
      OBVIOUS
    <3>1. PICK t \in 2 .. n : t = m + 2
      OBVIOUS
    <3>2. t \in 1 .. n /\ t - 1 = m + 1 /\ t - 1 \in 1 .. n
      BY <3>1
    <3>3. along[t - 1] <= score[t - 1][path[t - 1]] /\ climb[t - 1] = score[t - 1][best[t - 1]]
      BY <2>2, <3>2
    <3> HIDE DEF T
    <3>4. /\ path[t] \in M!States /\ path[t - 1] \in M!States
          /\ best[t] \in M!States /\ best[t - 1] \in M!States
      BY <1>2, <3>2
    <3>5. along[t] <= score[t][path[t]]
      <4> DEFINE l == log[path[t - 1]][path[t]]
                 h == e[t][path[t]]
                 a == along[t - 1]
                 s == score[t - 1][path[t - 1]]
                 z == score[t][path[t]]
      <4>1. l \in Int /\ h \in Int /\ a \in Int /\ s \in Int /\ z \in Int
        <5>1. log[path[t - 1]] \in [M!States -> Int] /\ e[t] \in [M!States -> Int]
          BY <1>5, <3>2, <3>4
        <5>2. score[t] \in [M!States -> Int] /\ score[t - 1] \in [M!States -> Int]
          BY <1>1, <3>2
        <5>3. l \in Int /\ h \in Int
          BY <3>4, <5>1
        <5>4. a \in Int
          BY <1>3, <3>2
        <5>5. s \in Int /\ z \in Int
          BY <3>4, <5>2
        <5> QED
          BY <5>3, <5>4, <5>5
      <4>2. along[t] = a + l + h
        BY <1>3
      <4>3. s + l + h <= z
        BY <1>7, <3>4
      <4>4. a <= s
        BY <3>3
      <4> HIDE DEF l, h, a, s, z
      <4>5. along[t] <= z
        BY <4>1, <4>2, <4>3, <4>4
      <4> QED
        BY <4>5 DEF z
    <3>6. climb[t] = score[t][best[t]]
      <4>1. best[t - 1] = M!ComesFrom(score[t - 1], log, best[t])
        BY <1>2
      <4>2. score[t][best[t]] = score[t - 1][best[t - 1]] + log[best[t - 1]][best[t]] + e[t][best[t]]
        BY <1>1, <3>4, <4>1
      <4>3. climb[t] = climb[t - 1] + log[best[t - 1]][best[t]] + e[t][best[t]]
        BY <1>4
      <4> QED
        BY <3>3, <4>2, <4>3
    <3> QED
      BY <3>1, <3>5, <3>6
  <2>3. \A m \in Nat : m \in T
    <3> HIDE DEF T
    <3> QED
      BY <2>1, <2>2, SetInduction
  <2>4. ASSUME NEW t \in 1 .. n
        PROVE  along[t] <= score[t][path[t]] /\ climb[t] = score[t][best[t]]
    <3>1. PICK m \in Nat : m = t - 1
      OBVIOUS
    <3>2. m + 1 = t /\ m + 1 <= n
      BY <3>1
    <3>3. along[m + 1] <= score[m + 1][path[m + 1]] /\ climb[m + 1] = score[m + 1][best[m + 1]]
      BY <2>3, <3>2
    <3> QED
      BY <3>2, <3>3
  <2> QED
    BY <2>4
<1>9. score[n][path[n]] <= score[n][best[n]]
  <2>1. score[n] \in [M!States -> Int] /\ path[n] \in M!States
    BY <1>1, <1>6
  <2>2. /\ "gap" \in M!States /\ "music" \in M!States /\ path[n] \in {"gap", "music"}
        /\ score[n]["gap"] \in Int /\ score[n]["music"] \in Int
    BY <2>1 DEF M!States
  <2>3. PICK m, g : m = score[n]["music"] /\ g = score[n]["gap"]
    OBVIOUS
  <2>4. m \in Int /\ g \in Int
    BY <2>2, <2>3
  <2>5. score[n][best[n]] = IF m > g THEN m ELSE g
    BY <1>2, <2>3
  <2>6. score[n][path[n]] \in {m, g}
    BY <2>2, <2>3
  <2> QED
    BY <2>4, <2>5, <2>6
<1>10. /\ along[n] \in Int /\ climb[n] \in Int /\ score[n][path[n]] \in Int
       /\ along[n] <= score[n][path[n]] /\ climb[n] = score[n][best[n]]
  <2>1. score[n] \in [M!States -> Int] /\ path[n] \in M!States
    BY <1>1, <1>6
  <2>2. along[n] \in Int /\ climb[n] \in Int
    BY <1>3, <1>4, <1>6
  <2> QED
    BY <1>6, <1>8, <2>1, <2>2
<1>11. along[n] <= climb[n]
  BY <1>9, <1>10
<1> QED
  BY <1>11

(***************************************************************************)
(* hmm.rs:315-359, viterbi(): for a side of any length, the path that is   *)
(* traced back is at least as likely as every other.                       *)
(***************************************************************************)
LEMMA PathIsBest ==
  ASSUME NEW n \in Nat \ {0}, NEW i, i.emissions \in [1 .. n -> [M!States -> Int]],
         i.log \in [M!States -> [M!States -> Int]], i.bias \in Int,
         NEW path \in [1 .. n -> M!States]
  PROVE  Likelihood(i, path) <= Likelihood(i, M!Viterbi(i.emissions, i.log, i.bias))
<1> DEFINE score == M!Scores(i.emissions, i.log, i.bias)
           best == M!Viterbi(i.emissions, i.log, i.bias)
<1>1. Scored(score, n, i.emissions, i.log, i.bias)
  BY ScoresAreSteps
<1>2. Traced(best, n, score, i.log)
  BY PathIsTraced
<1>3. best \in [1 .. n -> M!States]
  BY <1>2 DEF Traced
<1> HIDE DEF score, best
<1>4. PICK along : /\ Likelihood(i, path) = along[n]
                   /\ Summed(along, n, i.emissions, i.log, i.bias, path)
  BY LikelihoodIsSum
<1>5. PICK climb : /\ Likelihood(i, best) = climb[n]
                   /\ Summed(climb, n, i.emissions, i.log, i.bias, best)
  BY <1>3, LikelihoodIsSum
<1>6. along[n] <= climb[n]
  BY <1>1, <1>2, <1>4, <1>5, TracedIsBest
<1> QED
  BY <1>4, <1>5, <1>6 DEF best

THEOREM PathsAreLikeliest == Spec => []ViterbiIsBest
<1>1. EvaluationInv => ViterbiIsBest
  <2> SUFFICES ASSUME EvaluationInv, Done("path")
               PROVE  ViterbiIsBest
    BY DEF ViterbiIsBest
  <2> DEFINE i == input[1]
  <2>1. i \in PathInputs /\ output[1] = M!Viterbi(i.emissions, i.log, i.bias)
    BY DoneIsEvaluated DEF Inputs, Evaluated
  <2> HIDE DEF i
  <2>2. PICK n \in 1 .. 4 : i.emissions \in [1 .. n -> Likely]
    BY <2>1 DEF PathInputs
  <2>3. n \in Nat \ {0} /\ i.emissions \in [1 .. n -> [M!States -> Int]] /\ Len(i.emissions) = n
    <3>1. Likely \subseteq [M!States -> Int]
      BY DEF Likely
    <3> QED
      BY <2>2, <3>1
  <2>4. i.log \in [M!States -> [M!States -> Int]] /\ i.bias \in Int
    BY <2>1 DEF PathInputs
  <2>5. ASSUME NEW path \in [1 .. n -> M!States]
        PROVE  Likelihood(i, path) <= Likelihood(i, output[1])
    BY <2>1, <2>3, <2>4, PathIsBest
  <2> QED
    BY <2>3, <2>5 DEF ViterbiIsBest, i
<1> QED
  BY <1>1, OutputsAreEvaluated, PTL

----------------------------------------------------------------------------
(* What is said of the audio.                                              *)

\* No name of a device is the id of one, and no part of a name is a name or an id.
Apart(devices, query) ==
  \A d, e \in devices :
    /\ d.id = query => e.name # query /\ query \notin e.within
    /\ d.name = query => query \notin e.within

\* What a capture called bit-perfect has to be.
Earned(devices, query, request, report, c) ==
  /\ \/ {d \in devices : query \in {d.key, d.id, d.name} \cup d.within} = {c.device}
     \/ query = c.device.key
  /\ c.device.host = "alsa" /\ c.device.transport = "direct" /\ request.mode = "exclusive"
  /\ \A field \in A!Checked :
       report[field] = {c.negotiated[field]} /\ request[field] \subseteq report[field]

\* Whichever way it is named, the device of a capture is one the query names, and the only one.
LEMMA FoundIsNamed ==
  ASSUME NEW devices, NEW query,
         Apart(devices, query),
         NEW device \in A!Find(devices, query)
  PROVE  /\ device \in devices
         /\ \/ query = device.key
            \/ {d \in devices : query \in {d.key, d.id, d.name} \cup d.within} = {device}
<1> DEFINE keyed == {d \in devices : d.key = query}
           idd   == {d \in devices : d.id = query}
           named == {d \in devices : d.name = query}
           part  == {d \in devices : query \in d.within}
           meant == {d \in devices : query \in {d.key, d.id, d.name} \cup d.within}
<1>1. A!Find(devices, query)
        = IF keyed # {} THEN keyed ELSE IF idd # {} THEN A!Found(idd)
          ELSE IF named # {} THEN A!Found(named) ELSE A!Found(part)
  BY DEF A!Find
<1>2. \A S : device \in A!Found(S) => S = {device}
  BY DEF A!Found
<1>3. CASE keyed # {}
  BY <1>1, <1>3
<1>4. CASE keyed = {} /\ idd # {}
  <2>1. device \in A!Found(idd)
    BY <1>1, <1>4
  <2>2. idd = {device}
    BY <1>2, <2>1
  <2>3. meant = idd
    BY <1>4 DEF Apart
  <2> QED
    BY <2>2, <2>3
<1>5. CASE keyed = {} /\ idd = {} /\ named # {}
  <2>1. device \in A!Found(named)
    BY <1>1, <1>5
  <2>2. named = {device}
    BY <1>2, <2>1
  <2>3. meant = named
    BY <1>5 DEF Apart
  <2> QED
    BY <2>2, <2>3
<1>6. CASE keyed = {} /\ idd = {} /\ named = {}
  <2>1. device \in A!Found(part)
    BY <1>1, <1>6
  <2>2. part = {device}
    BY <1>2, <2>1
  <2>3. meant = part
    BY <1>6
  <2> QED
    BY <2>2, <2>3
<1> QED
  BY <1>3, <1>4, <1>5, <1>6

\* All three answers of the system are needed for it to agree, and each says what was expected.
LEMMA AgreedIsReported ==
  ASSUME NEW report, NEW expected, A!Compare(report, expected) = "agrees"
  PROVE  \A field \in A!Checked : report[field] = {expected[field]}
BY DEF A!Compare

(***************************************************************************)
(* capture.rs:395-450, verify.rs:290-344: a capture called bit-perfect     *)
(* came from the one device that was named, by a direct path nobody        *)
(* shares, in everything that was asked for, the system itself reported    *)
(* all of it, and nothing was lost; for any devices, formats, requests and *)
(* reports.                                                                *)
(***************************************************************************)
LEMMA ConfirmedIsEarned ==
  ASSUME NEW devices, NEW query,
         Apart(devices, query),
         NEW request, request.mode \in {"exclusive", "shared"}, NEW os, NEW clean,
         NEW c \in A!Captures(devices, query, request, os, clean), c.verdict = "confirmed"
  PROVE  Earned(devices, query, request, os.report, c) /\ clean
<1>1. PICK d \in A!Find(devices, query) : \E p \in A!Choose(d.configs, request) :
        c = [device |-> d, negotiated |-> A!Negotiated(d, request, p),
             verdict |-> A!Verdict(A!Negotiated(d, request, p), clean, A!Verify(d, os, p))]
  BY DEF A!Captures
<1>11. PICK p \in A!Choose(d.configs, request) :
        c = [device |-> d, negotiated |-> A!Negotiated(d, request, p),
             verdict |-> A!Verdict(A!Negotiated(d, request, p), clean, A!Verify(d, os, p))]
  BY <1>1
<1> DEFINE n == A!Negotiated(d, request, p)
           v == A!Verify(d, os, p)
<1>2. c.device = d /\ c.negotiated = n /\ A!Verdict(n, clean, v) = "confirmed"
  BY <1>11
<1>3. /\ v \notin {"disagrees", "unavailable"} /\ n.mode \in {"native", "exclusive"}
      /\ n.divergences = {} /\ clean
  <2> HIDE DEF n, v
  <2> QED
    BY <1>2 DEF A!Verdict, A!CouldBeBitPerfect
<1>4. v = "agrees" /\ d.host = "alsa" /\ A!Compare(os.report, p) = "agrees"
  BY <1>3 DEF A!Verify, A!Compare
<1>5. /\ n.rate = p.rate /\ n.channels = p.channels /\ n.format = p.format
      /\ n.mode = A!NegotiatedMode(request.mode, d.transport)
      /\ n.divergences =
           {field \in {"rate", "channels", "format"} : ~(request[field] \subseteq {p[field]})}
           \cup (IF A!NegotiatedMode(request.mode, d.transport) # request.mode THEN {"mode"} ELSE {})
  BY DEF A!Negotiated
<1> HIDE DEF n, v
<1>6. d.transport = "direct" /\ request.mode = "exclusive"
  BY <1>3, <1>5 DEF A!NegotiatedMode
<1>7. \A field \in A!Checked : request[field] \subseteq {p[field]}
  BY <1>3, <1>5 DEF A!Checked
<1>8. \A field \in A!Checked : os.report[field] = {p[field]}
  BY <1>4, AgreedIsReported
<1>9. \A field \in A!Checked : n[field] = p[field]
  BY <1>5 DEF A!Checked
<1>10. \/ {e \in devices : query \in {e.key, e.id, e.name} \cup e.within} = {d}
       \/ query = d.key
  BY FoundIsNamed
<1> QED
  BY <1>2, <1>3, <1>4, <1>6, <1>7, <1>8, <1>9, <1>10 DEF Earned

(***************************************************************************)
(* convert.rs:83-225: playback that names no loss loses nothing, for any   *)
(* number of channels: every channel is heard as it was stored, and a mono *)
(* side on every channel.  A float side that is also spread over more      *)
(* channels is left out, as in the property.                               *)
(***************************************************************************)
LEMMA LosslessIsHeard ==
  ASSUME NEW width \in Nat, NEW c, NEW frame \in [1 .. width -> [bits : Nat, loud : BOOLEAN]],
         c.from_channels = width, c.to_channels \in Nat, c.to \in A!Formats,
         \A n \in 1 .. width : /\ frame[n].bits <= A!Bits(c.from)
                               /\ frame[n].loud => c.from = "Float32",
         A!Losses(c) = {}, c.from = "Float32" => c.from_channels = c.to_channels
  PROVE  LET heard == A!Apply(c, frame)
         IN  \A n \in 1 .. width :
               /\ n \in DOMAIN heard /\ heard[n] = frame[n]
               /\ width = 1 => \A k \in DOMAIN heard : heard[k] = frame[1]
<1> DEFINE heard == A!Apply(c, frame)
           held == A!Bits(c.from)
           kept == A!Played(c.to)
<1>1. held \in Nat /\ kept \in Nat
  BY DEF A!Bits, A!Played
<1>2. ~ (held > kept) /\ (c.from = "Float32" => c.to = "F32") /\ ~ (width > c.to_channels)
  BY DEF A!Losses
<1>3. CASE A!IsIdentity(c)
  <2>1. heard = frame /\ DOMAIN frame = 1 .. width
    BY <1>3 DEF A!Apply
  <2> QED
    BY <2>1
<1>4. CASE ~ A!IsIdentity(c)
  <2>1. c.from # "Float32"
    BY <1>2, <1>4 DEF A!IsIdentity, A!Identical
  <2>2. ASSUME NEW n \in 1 .. width
        PROVE  A!Converted(c, frame[n]) = frame[n]
    <3>1. /\ frame[n] \in [bits : Nat, loud : BOOLEAN]
          /\ frame[n].bits <= held /\ frame[n].loud = FALSE
      BY <2>1
    <3>2. PICK b \in Nat : b = frame[n].bits
      BY <3>1
    <3>3. A!Earlier(b, kept) = b
      <4> HIDE DEF held, kept
      <4>1. b <= held
        BY <3>1, <3>2
      <4> QED
        BY <1>1, <1>2, <4>1 DEF A!Earlier
    <3>4. A!Converted(c, frame[n]) = [bits |-> b, loud |-> FALSE]
      BY <3>2, <3>3 DEF A!Converted
    <3> QED
      BY <3>1, <3>2, <3>4
  <2> HIDE DEF held, kept
  <2>3. heard = [to \in 1 .. c.to_channels |->
                   LET source == IF width = 1 /\ c.to_channels > 1 THEN 1 ELSE to
                   IN  IF source > width THEN A!Silence ELSE A!Converted(c, frame[source])]
    BY <1>4 DEF A!Apply
  <2> HIDE DEF heard
  <2>4. ASSUME NEW n \in 1 .. width
        PROVE  n \in DOMAIN heard /\ heard[n] = frame[n]
    <3>1. n \in 1 .. c.to_channels
      BY <1>2
    <3>2. heard[n] = A!Converted(c, frame[n])
      BY <2>3, <3>1
    <3> QED
      BY <2>2, <2>3, <3>1, <3>2
  <2>5. ASSUME width = 1, NEW k \in DOMAIN heard
        PROVE  heard[k] = frame[1]
    <3>1. k \in 1 .. c.to_channels /\ 1 \in 1 .. width
      BY <2>3, <2>5
    <3>2. heard[k] = A!Converted(c, frame[1])
      BY <2>3, <2>5, <3>1
    <3> QED
      BY <2>2, <3>1, <3>2
  <2> QED
    BY <2>4, <2>5 DEF heard
<1> QED
  BY <1>3, <1>4

THEOREM ClaimsAreProved == Spec => []ClaimsAreEarned
<1>1. ASSUME EvaluationInv, Done("capture")
      PROVE  \A c \in output[1] :
         c.verdict = "confirmed" =>
           LET i == input[1]
               said == i.os.report
           IN  /\ {d \in i.devices : i.query \in {d.key, d.id, d.name} \cup d.within} = {c.device}
                  \/ i.query = c.device.key
               /\ c.device.host = "alsa" /\ c.device.transport = "direct"
               /\ i.request.mode = "exclusive" /\ i.clean
               /\ \A field \in A!Checked :
                    said[field] = {c.negotiated[field]} /\ i.request[field] \subseteq said[field]
  <2> DEFINE i == input[1]
  <2>1. /\ i \in CaptureInputs
        /\ output[1] = A!Captures(i.devices, i.query, i.request, i.os, i.clean)
    BY <1>1, DoneIsEvaluated DEF Inputs, Evaluated
  <2> HIDE DEF i
  <2>2. /\ i.query \in {"k1", "i1", "deck", "de"} /\ i.request.mode \in {"exclusive", "shared"}
    BY <2>1 DEF CaptureInputs
  <2>3. \A d \in i.devices : d.id \in {"i1", "i2"} /\ d.name = "deck" /\ d.within = {"de"}
    <3>1. PICK prefix \in {"hw", "plughw"}, virtual \in BOOLEAN,
               configs \in {Ranges, {r \in Ranges : r.format = "F32"}}, twin \in Twins :
            i.devices = {Deck(prefix, virtual, configs)} \cup twin
      BY <2>1 DEF CaptureInputs
    <3>2. \A d \in twin : d.id \in {"i1", "i2"} /\ d.name = "deck" /\ d.within = {"de"}
      <4> SUFFICES ASSUME NEW d \in twin
                   PROVE  d.id \in {"i1", "i2"} /\ d.name = "deck" /\ d.within = {"de"}
        OBVIOUS
      <4>1. \/ d = Device("k2", "i1", "jack", "hw", FALSE, Ranges)
            \/ d = Device("k2", "i2", "alsa", "hw", FALSE, Ranges)
        BY DEF Twins
      <4>2. CASE d = Device("k2", "i1", "jack", "hw", FALSE, Ranges)
        <5>1. d.id = "i1" /\ d.name = "deck" /\ d.within = {"de"}
          BY <4>2, Zenon DEF Device
        <5> QED
          BY <5>1
      <4>3. CASE d = Device("k2", "i2", "alsa", "hw", FALSE, Ranges)
        <5>1. d.id = "i2" /\ d.name = "deck" /\ d.within = {"de"}
          BY <4>3, Zenon DEF Device
        <5> QED
          BY <5>1
      <4> QED
        BY <4>1, <4>2, <4>3
    <3>3. LET d == Deck(prefix, virtual, configs)
          IN  d.id = "i1" /\ d.name = "deck" /\ d.within = {"de"}
      BY DEF Deck, Device
    <3> QED
      BY <3>1, <3>2, <3>3
  <2>4. Apart(i.devices, i.query)
    <3>1. "i1" # "deck" /\ "i2" # "deck" /\ "i1" # "de" /\ "i2" # "de" /\ "deck" # "de"
      OBVIOUS
    <3> QED
      BY <2>3, <3>1 DEF Apart
  <2>5. ASSUME NEW c \in output[1], c.verdict = "confirmed"
        PROVE  Earned(i.devices, i.query, i.request, i.os.report, c) /\ i.clean
    BY <2>1, <2>2, <2>4, <2>5, ConfirmedIsEarned
  <2> QED
    BY <2>5 DEF Earned, i
<1>2. ASSUME EvaluationInv, Done("output")
      PROVE  \A p \in output[1] :
         LET c == p.conversion
             frame == input[1].side.frame
         IN  (A!Losses(c) = {} /\ (c.from = "Float32" => c.from_channels = c.to_channels)) =>
               \A n \in 1 .. Len(frame) :
                 /\ n \in DOMAIN p.heard /\ p.heard[n] = frame[n]
                 /\ Len(frame) = 1 => \A k \in DOMAIN p.heard : p.heard[k] = frame[1]
  <2> DEFINE i == input[1]
  <2>1. i \in OutputInputs /\ output[1] = PlayedOn(i)
    BY <1>2, DoneIsEvaluated DEF Inputs, Evaluated
  <2> HIDE DEF i
  <2> SUFFICES ASSUME NEW p \in output[1], A!Losses(p.conversion) = {},
                      p.conversion.from = "Float32" =>
                        p.conversion.from_channels = p.conversion.to_channels
               PROVE  \A n \in 1 .. Len(i.side.frame) :
                        /\ n \in DOMAIN p.heard /\ p.heard[n] = i.side.frame[n]
                        /\ Len(i.side.frame) = 1 =>
                             \A k \in DOMAIN p.heard : p.heard[k] = i.side.frame[1]
    BY DEF i
  <2>2. PICK point \in A!ChooseToPlay(i.configs, Material(i), {}) :
          /\ p.conversion = A!ConversionOf(Material(i), point)
          /\ p.heard = A!Apply(A!ConversionOf(Material(i), point), i.side.frame)
    BY <2>1 DEF PlayedOn
  <2>3. /\ point.format \in A!Formats
        /\ point.channels \in {r.channels : r \in i.configs}
    BY <2>2 DEF A!ChooseToPlay, A!Lowest, A!Advertised
  <2>4. PICK s \in A!StorageFormats, width \in 1 .. 2 :
          i.side.format = s /\ i.side.frame \in [1 .. width -> Samples(s)]
    BY <2>1 DEF OutputInputs
  <2>5. point.channels \in Nat
    <3>1. \A r \in i.configs : r.channels \in Nat
      BY <2>1 DEF OutputInputs, OutputRanges
    <3> QED
      BY <2>3, <3>1
  <2>6. ASSUME NEW x \in Samples(s)
        PROVE  /\ x \in [bits : Nat, loud : BOOLEAN] /\ x.bits <= A!Bits(s)
               /\ x.loud => s = "Float32"
    <3>1. /\ x \in [bits : {b \in {8, 16, 24, 32} : b <= A!Bits(s)},
                    loud : IF s = "Float32" THEN BOOLEAN ELSE {FALSE}]
      BY DEF Samples
    <3>2. /\ x.bits \in {b \in {8, 16, 24, 32} : b <= A!Bits(s)}
          /\ x.loud \in IF s = "Float32" THEN BOOLEAN ELSE {FALSE}
          /\ x = [bits |-> x.bits, loud |-> x.loud]
      BY <3>1
    <3>3. x.bits \in Nat /\ x.bits <= A!Bits(s)
      BY <3>2
    <3>4. x.loud \in BOOLEAN /\ (x.loud => s = "Float32")
      BY <3>2
    <3> QED
      BY <3>2, <3>3, <3>4
  <2> DEFINE frame == i.side.frame
             c == A!ConversionOf(Material(i), point)
  <2>7. frame \in [1 .. width -> [bits : Nat, loud : BOOLEAN]] /\ Len(frame) = width
    BY <2>4, <2>6
  <2>8. /\ c.from = s /\ c.from_channels = width /\ c.to = point.format
        /\ c.to_channels = point.channels
    BY <2>4, <2>7 DEF A!ConversionOf, Material
  <2>9. \A n \in 1 .. width : /\ frame[n].bits <= A!Bits(c.from)
                              /\ frame[n].loud => c.from = "Float32"
    BY <2>4, <2>6, <2>8
  <2> HIDE DEF frame, c
  <2>10. \A n \in 1 .. width :
           LET heard == A!Apply(c, frame)
           IN  /\ n \in DOMAIN heard /\ heard[n] = frame[n]
               /\ width = 1 => \A k \in DOMAIN heard : heard[k] = frame[1]
    <3>1. A!Losses(c) = {} /\ (c.from = "Float32" => c.from_channels = c.to_channels)
      BY <2>2 DEF c
    <3> QED
      BY <2>3, <2>5, <2>7, <2>8, <2>9, <3>1, LosslessIsHeard
  <2> QED
    BY <2>2, <2>7, <2>10 DEF c, frame
<1>3. EvaluationInv => ClaimsAreEarned
  BY <1>1, <1>2 DEF ClaimsAreEarned
<1> QED
  BY <1>3, OutputsAreEvaluated, PTL

----------------------------------------------------------------------------
(* Reading a capture.                                                      *)

(***************************************************************************)
(* What the project's tables say of the blocks of a capture, whatever has  *)
(* become of some of them: one row for a channel and a number, no two      *)
(* blocks of channel 0 that start at one frame; and that a sample is what  *)
(* it is by its channel and its frame.                                     *)
(***************************************************************************)
Readable(project) ==
  /\ project.channels \in Nat \ {0} /\ project.frames \in Nat
  /\ \A r \in project.rows :
       /\ r.channel \in Nat /\ r.sequence \in Nat /\ r.start \in Nat /\ r.frames \in Nat
       /\ Len(r.samples) \in Nat
       /\ \A k \in 1 .. Len(r.samples) : r.samples[k] = <<r.channel, r.start + k - 1>>
  /\ \A r, q \in project.rows :
       /\ r.channel = q.channel /\ r.sequence = q.sequence => r = q
       /\ r.channel = 0 /\ q.channel = 0 /\ r.start = q.start => r = q

\* A frame, as every channel should tell it.
Told(project, f) == [c \in 0 .. project.channels - 1 |-> <<c, f>>]

\* The block that ought to hold a frame does, on every channel.
Held(project, f) ==
  \E r \in project.rows :
    /\ r.channel = 0 /\ r.start <= f /\ f < r.start + r.frames
    /\ \A q \in project.rows : (q.channel = 0 /\ q.start <= f) => q.start <= r.start
    /\ \A c \in 0 .. project.channels - 1 : \E q \in project.rows :
         /\ q.sequence = r.sequence /\ q.channel = c /\ q.start = r.start
         /\ q.frames = r.frames /\ Len(q.samples) = q.frames

\* A block in hand: whatever frame it covers it tells as it should.
Telling(project, block) ==
  /\ block.start \in Nat /\ block.frames \in Nat
  /\ \A f \in Nat : block.start <= f /\ f < block.start + block.frames =>
       B!FrameAt(block, f) = Told(project, f)

\* What is loaded tells, and is what is found for a frame it covers.
LEMMA LoadTells ==
  ASSUME NEW project, Readable(project), NEW r \in project.rows, r.channel = 0,
         B!Loadable(project, r.sequence)
  PROVE  \E block : /\ B!Load(project, r.sequence) = <<block>>
                    /\ Telling(project, block)
                    /\ block.start = r.start /\ block.frames = r.frames
<1> DEFINE s == r.sequence
           row(c) == B!RowOf(project, s, c)
           block == [sequence |-> s, start |-> B!NotNegative(row(0).start),
                     frames |-> B!NotNegative(row(0).frames),
                     channels |-> [c \in 0 .. project.channels - 1 |-> row(c).samples]]
<1>1. r \in B!RowsOf(project, s)
  BY DEF B!RowsOf
<1>2. ASSUME NEW c, \E q \in B!RowsOf(project, s) : q.channel = c
      PROVE  row(c) \in project.rows /\ row(c).channel = c /\ row(c).sequence = s
  BY <1>2 DEF B!RowOf, B!RowsOf
<1>3. row(0) = r
  BY <1>1, <1>2 DEF Readable
<1>4. /\ r.start \in Nat /\ r.frames \in Nat
      /\ B!NotNegative(r.start) = r.start /\ B!NotNegative(r.frames) = r.frames
  BY DEF Readable, B!NotNegative
<1>5. B!Load(project, s) = <<block>>
  BY <1>1 DEF B!Load
<1>6. ASSUME NEW c \in 0 .. project.channels - 1
      PROVE  /\ row(c) \in project.rows /\ row(c).channel = c
             /\ row(c).start = r.start /\ Len(row(c).samples) >= r.frames
  <2>1. /\ \E q \in B!RowsOf(project, s) : q.channel = c
        /\ Len(row(c).samples) >= B!NotNegative(row(c).frames)
        /\ B!NotNegative(row(c).start) = B!NotNegative(row(0).start)
        /\ B!NotNegative(row(c).frames) = B!NotNegative(row(0).frames)
    BY <1>1 DEF B!Loadable
  <2>2. row(c) \in project.rows /\ row(c).channel = c
    BY <1>2, <2>1
  <2>3. row(c).start \in Nat /\ row(c).frames \in Nat
    BY <2>2 DEF Readable
  <2>4. /\ B!NotNegative(row(c).start) = row(c).start
        /\ B!NotNegative(row(c).frames) = row(c).frames
    BY <2>3 DEF B!NotNegative
  <2> QED
    BY <1>3, <1>4, <2>1, <2>2, <2>4
<1> HIDE DEF row
<1>7. /\ block.start = r.start /\ block.frames = r.frames
      /\ block.channels = [c \in 0 .. project.channels - 1 |-> row(c).samples]
  BY <1>3, <1>4
<1> HIDE DEF block
<1>8. ASSUME NEW f \in Nat, block.start <= f, f < block.start + block.frames
      PROVE  B!FrameAt(block, f) = Told(project, f)
  <2>1. B!FrameAt(block, f) = [c \in 0 .. project.channels - 1 |-> row(c).samples[f - r.start + 1]]
    BY <1>7 DEF B!FrameAt
  <2>2. ASSUME NEW c \in 0 .. project.channels - 1
        PROVE  row(c).samples[f - r.start + 1] = <<c, f>>
    <3>1. PICK k \in Nat : k = f - r.start + 1
      BY <1>4, <1>7, <1>8
    <3>2. Len(row(c).samples) \in Nat /\ k \in 1 .. Len(row(c).samples)
      <4>1. Len(row(c).samples) \in Nat
        BY <1>6 DEF Readable
      <4> QED
        BY <1>4, <1>6, <1>7, <1>8, <3>1, <4>1
    <3>3. row(c).samples[k] = <<row(c).channel, row(c).start + k - 1>>
      BY <1>6, <3>2 DEF Readable
    <3>4. r.start + k - 1 = f
      BY <1>4, <3>1
    <3> QED
      BY <1>6, <3>1, <3>3, <3>4
  <2> QED
    BY <2>1, <2>2 DEF Told
<1>9. Telling(project, block)
  BY <1>4, <1>7, <1>8 DEF Telling
<1> QED
  BY <1>5, <1>7, <1>9

\* What locate finds is a block of channel 0 that covers the frame; ...
LEMMA LocatedCovers ==
  ASSUME NEW project, Readable(project), NEW f \in Nat, NEW s \in B!Locate(project, f)
  PROVE  \E r \in project.rows : /\ r.channel = 0 /\ r.sequence = s
                                 /\ r.start <= f /\ f < r.start + r.frames
<1>1. PICK r \in project.rows :
        /\ r.channel = 0 /\ r.start <= f
        /\ f < B!NotNegative(r.start) + B!NotNegative(r.frames)
        /\ s = B!NotNegative(r.sequence)
  BY DEF B!Locate
<1>2. r.start \in Nat /\ r.frames \in Nat /\ r.sequence \in Nat
  BY DEF Readable
<1> QED
  BY <1>1, <1>2 DEF B!NotNegative

\* ... and a frame that is held is found, in a block that can be loaded.
LEMMA HeldIsFound ==
  ASSUME NEW project, Readable(project), NEW f \in Nat, Held(project, f)
  PROVE  /\ B!Locate(project, f) # {}
         /\ \A s \in B!Locate(project, f) : B!Loadable(project, s)
<1>1. PICK r \in project.rows :
        /\ r.channel = 0 /\ r.start <= f /\ f < r.start + r.frames
        /\ \A q \in project.rows : (q.channel = 0 /\ q.start <= f) => q.start <= r.start
        /\ \A c \in 0 .. project.channels - 1 : \E q \in project.rows :
             /\ q.sequence = r.sequence /\ q.channel = c /\ q.start = r.start
             /\ q.frames = r.frames /\ Len(q.samples) = q.frames
  BY DEF Held
<1>2. r.start \in Nat /\ r.frames \in Nat /\ r.sequence \in Nat
  BY DEF Readable
<1>3. /\ B!NotNegative(r.start) = r.start /\ B!NotNegative(r.frames) = r.frames
      /\ B!NotNegative(r.sequence) = r.sequence
  BY <1>2 DEF B!NotNegative
<1> DEFINE before == {q \in project.rows : q.channel = 0 /\ q.start <= f}
           last == {q \in before : \A p \in before : p.start <= q.start}
<1>4. B!Locate(project, f) = {B!NotNegative(q.sequence) :
         q \in {q \in last : f < B!NotNegative(q.start) + B!NotNegative(q.frames)}}
  BY DEF B!Locate
<1>5. r \in last
  BY <1>1
<1>6. ASSUME NEW q \in last
      PROVE  q = r
  <2>1. q \in before /\ r \in before /\ q.start <= r.start /\ r.start <= q.start
    BY <1>1, <1>5
  <2>2. q.start \in Nat /\ q.channel = 0 /\ q \in project.rows
    BY <2>1 DEF Readable
  <2>3. q.start = r.start
    BY <1>2, <2>1, <2>2
  <2> QED
    BY <1>1, <2>2, <2>3 DEF Readable
<1> HIDE DEF last
<1>7. B!Locate(project, f) = {r.sequence}
  <2>1. f < B!NotNegative(r.start) + B!NotNegative(r.frames)
    BY <1>1, <1>3
  <2> QED
    BY <1>3, <1>4, <1>5, <1>6, <2>1
<1>8. B!Loadable(project, r.sequence)
  <2> DEFINE row(c) == B!RowOf(project, r.sequence, c)
  <2>1. ASSUME NEW c \in 0 .. project.channels - 1
        PROVE  /\ \E q \in B!RowsOf(project, r.sequence) : q.channel = c
               /\ row(c).start = r.start /\ row(c).frames = r.frames
               /\ Len(row(c).samples) = r.frames
    <3>1. PICK q \in project.rows :
             /\ q.sequence = r.sequence /\ q.channel = c /\ q.start = r.start
             /\ q.frames = r.frames /\ Len(q.samples) = q.frames
      BY <1>1
    <3>2. q \in B!RowsOf(project, r.sequence)
      BY <3>1 DEF B!RowsOf
    <3>3. row(c) \in B!RowsOf(project, r.sequence) /\ row(c).channel = c
      BY <3>1, <3>2 DEF B!RowOf
    <3>4. row(c) = q
      BY <3>1, <3>3 DEF B!RowsOf, Readable
    <3> HIDE DEF row
    <3> QED
      BY <3>1, <3>2, <3>4
  <2> HIDE DEF row
  <2>2. 0 \in 0 .. project.channels - 1
    BY DEF Readable
  <2>3. ASSUME NEW c \in 0 .. project.channels - 1
        PROVE  /\ \E q \in B!RowsOf(project, r.sequence) : q.channel = c
               /\ Len(row(c).samples) >= B!NotNegative(row(c).frames)
               /\ B!NotNegative(row(c).start) = B!NotNegative(row(0).start)
               /\ B!NotNegative(row(c).frames) = B!NotNegative(row(0).frames)
    BY <1>2, <1>3, <2>1, <2>2
  <2> QED
    BY <2>3 DEF B!Loadable, row
<1> QED
  BY <1>7, <1>8

\* A reader: its cursor is in the span, and what is in hand covers it.
Reader(project, span, r) ==
  /\ r = [span |-> span, cursor |-> r.cursor, loaded |-> r.loaded]
  /\ r.cursor \in Nat /\ span.start <= r.cursor /\ r.cursor <= span.end
  /\ \/ r.loaded = <<>>
     \/ \E block : /\ r.loaded = <<block>> /\ Telling(project, block)
                   /\ block.start <= r.cursor /\ r.cursor < block.start + block.frames

Stretch(span) == span.start \in Nat /\ span.end \in Nat /\ span.start <= span.end

\* What has been given since a frame: every one, in order; and a refusal has its reason.
Given(project, span, from, fill) ==
  /\ fill = [reader |-> fill.reader, given |-> fill.given, ended |-> fill.ended]
  /\ Reader(project, span, fill.reader)
  /\ fill.given \in Seq({Told(project, f) : f \in Nat})
  /\ \A k \in 1 .. Len(fill.given) : fill.given[k] = Told(project, from + k - 1)
  /\ fill.reader.cursor = from + Len(fill.given)
  /\ fill.ended \in {"no", "refused"}
  /\ fill.ended = "refused" => ~ Held(project, fill.reader.cursor)

\* There is no more to come of it.
Through(span, fill) == fill.ended # "no" \/ fill.reader.cursor >= span.end

LEMMA OpenReads ==
  ASSUME NEW project, Readable(project), NEW span, span.start \in Nat, span.end \in Nat
  PROVE  /\ Stretch(B!ClampTo(span, project.frames))
         /\ B!ClampTo(span, project.frames).end <= project.frames
         /\ Reader(project, B!ClampTo(span, project.frames), B!Open(project, span))
<1> DEFINE clamped == B!ClampTo(span, project.frames)
<1>1. project.frames \in Nat
  BY DEF Readable
<1>2. Stretch(clamped) /\ clamped.end <= project.frames
  BY <1>1 DEF B!ClampTo, Stretch
<1> HIDE DEF clamped
<1>3. B!Open(project, span) = [span |-> clamped, cursor |-> clamped.start, loaded |-> <<>>]
  BY DEF B!Open, B!NoBlock, clamped
<1>4. Reader(project, clamped, B!Open(project, span))
  BY <1>2, <1>3 DEF Reader, Stretch
<1> QED
  BY <1>2, <1>4 DEF clamped

LEMMA HoldsIsCovers ==
  ASSUME NEW project, NEW block, NEW f
  PROVE  /\ B!Holds(<<block>>, f) <=> (block.start <= f /\ f < block.start + block.frames)
         /\ ~ B!Holds(<<>>, f)
<1>1. DOMAIN <<block>> = {1} /\ <<block>>[1] = block
  OBVIOUS
<1> QED
  BY <1>1 DEF B!Holds

LEMMA SeekReads ==
  ASSUME NEW project, NEW span, Stretch(span), NEW r, Reader(project, span, r), NEW f \in Int
  PROVE  Reader(project, span, B!Seek(r, f))
<1> DEFINE cursor == B!At(f, span.start, span.end)
<1>1. cursor \in Nat /\ span.start <= cursor /\ cursor <= span.end
  BY DEF B!At, Stretch
<1>2. B!Seek(r, f) = [span |-> span, cursor |-> cursor,
                      loaded |-> IF B!Holds(r.loaded, cursor) THEN r.loaded ELSE <<>>]
  <2>1. PICK c, l : r = [span |-> span, cursor |-> c, loaded |-> l]
    BY DEF Reader
  <2>2. r.span = span /\ r.loaded = l
    BY <2>1
  <2>3. B!Seek(r, f) = [r EXCEPT !.cursor = cursor,
                         !.loaded = IF B!Holds(@, cursor) THEN @ ELSE <<>>]
    BY <2>2 DEF B!Seek, B!NoBlock
  <2> HIDE DEF cursor
  <2> QED
    BY <2>1, <2>2, <2>3
<1> HIDE DEF cursor
<1>3. CASE ~ B!Holds(r.loaded, cursor)
  BY <1>1, <1>2, <1>3 DEF Reader
<1>4. CASE B!Holds(r.loaded, cursor)
  <2>1. r.loaded # <<>>
    BY <1>4, HoldsIsCovers
  <2>2. PICK block : r.loaded = <<block>> /\ Telling(project, block)
    BY <2>1 DEF Reader
  <2>3. block.start <= cursor /\ cursor < block.start + block.frames
    BY <1>4, <2>2, HoldsIsCovers
  <2> QED
    BY <1>1, <1>2, <1>4, <2>2, <2>3 DEF Reader
<1> QED
  BY <1>3, <1>4

\* What a turn gives, and the reader it leaves behind it.
Copied(project, span, from, room, copy) ==
  /\ Reader(project, span, copy.reader)
  /\ copy.given \in Seq({Told(project, f) : f \in Nat})
  /\ Len(copy.given) \in 1 .. room
  /\ copy.reader.cursor = from + Len(copy.given)
  /\ \A k \in 1 .. Len(copy.given) : copy.given[k] = Told(project, from + k - 1)

\* One turn copies what the block in hand, the span and the room have in common.
LEMMA CopyGives ==
  ASSUME NEW project, NEW span, Stretch(span), NEW r, Reader(project, span, r),
         r.cursor < span.end, NEW block, Telling(project, block),
         block.start <= r.cursor, r.cursor < block.start + block.frames,
         NEW room \in Nat \ {0}
  PROVE  Copied(project, span, r.cursor, room, B!Copy(r, block, room))
<1> DEFINE stop == block.start + block.frames
           n == B!Smaller(B!Smaller(stop, span.end) - r.cursor, room)
           copy == B!Copy(r, block, room)
           frames == {Told(project, f) : f \in Nat}
<1>1. r.cursor \in Nat /\ stop \in Nat /\ span.end \in Nat
  BY DEF Reader, Telling, Stretch
<1>2. n \in 1 .. room /\ r.cursor + n <= stop /\ r.cursor + n <= span.end
  BY <1>1 DEF B!Smaller
<1>3. /\ r = [span |-> span, cursor |-> r.cursor, loaded |-> r.loaded] /\ r.span = span
  BY DEF Reader
<1>4. copy = [given  |-> [k \in 1 .. n |-> B!FrameAt(block, r.cursor + k - 1)],
              reader |-> [r EXCEPT !.cursor = r.cursor + n,
                            !.loaded = IF r.cursor + n >= stop THEN <<>> ELSE <<block>>]]
  BY <1>3 DEF B!Copy, B!NoBlock
<1> HIDE DEF n, copy
<1>5. copy.given = [k \in 1 .. n |-> B!FrameAt(block, r.cursor + k - 1)]
  BY <1>4
<1>6. copy.reader = [span |-> span, cursor |-> r.cursor + n,
                     loaded |-> IF r.cursor + n >= stop THEN <<>> ELSE <<block>>]
  BY <1>3, <1>4
<1>7. ASSUME NEW k \in 1 .. n
      PROVE  copy.given[k] = Told(project, r.cursor + k - 1) /\ copy.given[k] \in frames
  <2>1. PICK f \in Nat : f = r.cursor + k - 1
    BY <1>1, <1>2
  <2>2. block.start <= f /\ f < block.start + block.frames
    <3>1. block.start \in Nat /\ block.frames \in Nat
      BY DEF Telling
    <3> QED
      BY <1>1, <1>2, <2>1, <3>1
  <2>3. B!FrameAt(block, f) = Told(project, f)
    BY <2>2 DEF Telling
  <2>4. copy.given[k] = B!FrameAt(block, f)
    BY <1>5, <2>1
  <2> QED
    BY <2>1, <2>3, <2>4
<1>8. copy.given \in Seq(frames) /\ Len(copy.given) = n
  <2> HIDE DEF frames
  <2>1. n \in Nat /\ copy.given \in [1 .. n -> frames]
    BY <1>2, <1>5, <1>7
  <2> QED
    BY <2>1
<1>9. Reader(project, span, copy.reader)
  <2>1. CASE r.cursor + n >= stop
    <3>1. copy.reader = [span |-> span, cursor |-> r.cursor + n, loaded |-> <<>>]
      BY <1>6, <2>1
    <3>2. r.cursor + n \in Nat /\ span.start <= r.cursor + n
      BY <1>1, <1>2 DEF Reader, Stretch
    <3> QED
      BY <1>2, <3>1, <3>2 DEF Reader
  <2>2. CASE ~ (r.cursor + n >= stop)
    <3>1. copy.reader = [span |-> span, cursor |-> r.cursor + n, loaded |-> <<block>>]
      BY <1>6, <2>2
    <3>2. r.cursor + n \in Nat /\ span.start <= r.cursor + n
      BY <1>1, <1>2 DEF Reader, Stretch
    <3>3. block.start <= r.cursor + n /\ r.cursor + n < block.start + block.frames
      BY <1>1, <1>2, <2>2 DEF Telling
    <3> QED
      BY <1>2, <3>1, <3>2, <3>3 DEF Reader
  <2> QED
    BY <2>1, <2>2
<1>10. copy.reader.cursor = r.cursor + Len(copy.given)
  BY <1>6, <1>8
<1>11. Copied(project, span, r.cursor, room, copy)
  <2> HIDE DEF frames
  <2>1. \A k \in 1 .. Len(copy.given) : copy.given[k] = Told(project, r.cursor + k - 1)
    BY <1>7, <1>8
  <2>2. Len(copy.given) \in 1 .. room
    BY <1>2, <1>8
  <2> QED
    BY <1>8, <1>9, <1>10, <2>1, <2>2 DEF Copied, frames
<1> QED
  BY <1>11 DEF copy

\* A fill stops when there is no more to come, or no more room for it.
Stops(span, room, fill) == Through(span, fill) \/ Len(fill.given) = room

Turned(project, span, from, room, last, fill) ==
  /\ Given(project, span, from, fill) /\ Len(fill.given) <= room
  /\ Stops(span, room, last) => fill = last
  /\ ~ Stops(span, room, last) =>
       Through(span, fill) \/ Len(fill.given) > Len(last.given)

\* One fill after another, as one.
Joined(last, more, fill) ==
  /\ fill = [reader |-> fill.reader, given |-> fill.given, ended |-> fill.ended]
  /\ fill.reader = more.reader /\ fill.given = last.given \o more.given

LEMMA GivenCounts ==
  ASSUME NEW project, NEW span, NEW from, NEW fill, Given(project, span, from, fill)
  PROVE  Len(fill.given) \in Nat
<1> DEFINE frames == {Told(project, f) : f \in Nat}
<1>1. fill.given \in Seq(frames)
  BY DEF Given
<1> HIDE DEF frames
<1> QED
  BY <1>1

Lengthened(last, more, fill) == Len(fill.given) = Len(last.given) + Len(more.given)

\* What is given from where the last gave out joins on to it.
LEMMA GivenJoins ==
  ASSUME NEW project, Readable(project), NEW span, NEW from \in Nat,
         NEW last, Given(project, span, from, last),
         NEW more, Given(project, span, last.reader.cursor, more),
         NEW fill, Joined(last, more, fill), fill.ended = more.ended
  PROVE  Given(project, span, from, fill) /\ Lengthened(last, more, fill)
<1> DEFINE frames == {Told(project, f) : f \in Nat}
           m == Len(last.given)
           n == Len(more.given)
           joined == last.given \o more.given
<1>1. last.given \in Seq(frames) /\ more.given \in Seq(frames)
  BY DEF Given
<1> HIDE DEF frames
<1>2. m \in Nat /\ n \in Nat
  BY <1>1
<1>3. \A k \in 1 .. m + n : /\ k <= m => joined[k] = last.given[k]
                            /\ k > m => joined[k] = more.given[k - m]
  BY <1>1
<1>4. last.reader.cursor \in Nat /\ last.reader.cursor = from + m
  BY DEF Given, Reader
<1>5. more.reader.cursor = last.reader.cursor + n
  BY DEF Given
<1>6. /\ fill.given = joined /\ fill.reader = more.reader
      /\ fill.ended = more.ended
  BY DEF Joined
<1>7. fill.given \in Seq(frames) /\ Len(fill.given) = m + n
  <2>1. joined \in Seq(frames) /\ Len(joined) = m + n
    BY <1>1
  <2> HIDE DEF joined
  <2> QED
    BY <1>6, <2>1
<1>8. m = Len(last.given) /\ n = Len(more.given)
  OBVIOUS
<1> HIDE DEF m, n, joined
<1>9. ASSUME NEW k \in 1 .. m + n
      PROVE  fill.given[k] = Told(project, from + k - 1)
  <2>1. CASE k <= m
    <3>1. k \in 1 .. m /\ joined[k] = last.given[k]
      BY <1>2, <1>3, <2>1
    <3> QED
      BY <1>6, <1>8, <3>1 DEF Given
  <2>2. CASE ~ (k <= m)
    <3>1. k - m \in 1 .. n /\ joined[k] = more.given[k - m]
      BY <1>2, <1>3, <2>2
    <3>2. more.given[k - m] = Told(project, last.reader.cursor + (k - m) - 1)
      BY <1>8, <3>1 DEF Given
    <3>3. last.reader.cursor + (k - m) - 1 = from + k - 1
      BY <1>2, <1>4
    <3> QED
      BY <1>6, <3>1, <3>2, <3>3
  <2> QED
    BY <2>1, <2>2
<1>10. fill.reader.cursor = from + Len(fill.given)
  <2>1. fill.reader.cursor = (from + m) + n
    BY <1>4, <1>5, <1>6
  <2> QED
    BY <1>2, <1>7, <2>1
<1>11. /\ Reader(project, span, fill.reader) /\ fill.ended \in {"no", "refused"}
       /\ fill.ended = "refused" => ~ Held(project, fill.reader.cursor)
  BY <1>6 DEF Given
<1>12. fill = [reader |-> fill.reader, given |-> fill.given, ended |-> fill.ended]
  BY DEF Joined
<1>13. \A k \in 1 .. Len(fill.given) : fill.given[k] = Told(project, from + k - 1)
  BY <1>7, <1>9
<1>14. Given(project, span, from, fill)
  BY <1>7, <1>10, <1>11, <1>12, <1>13 DEF Given, frames
<1>15. Lengthened(last, more, fill)
  BY <1>7, <1>8 DEF Lengthened
<1> QED
  BY <1>14, <1>15

LEMMA CopyJoins ==
  ASSUME NEW project, Readable(project), NEW span, NEW from \in Nat, NEW room \in Nat,
         NEW last, Given(project, span, from, last), NEW left \in Nat,
         room = Len(last.given) + left,
         NEW copy, Copied(project, span, last.reader.cursor, left, copy),
         NEW fill, Joined(last, copy, fill), fill.ended = "no"
  PROVE  /\ Given(project, span, from, fill)
         /\ Len(fill.given) <= room /\ Len(fill.given) > Len(last.given)
<1> DEFINE more == [reader |-> copy.reader, given |-> copy.given, ended |-> "no"]
<1>1. more.reader = copy.reader /\ more.given = copy.given /\ more.ended = "no"
  OBVIOUS
<1>2. more = [reader |-> more.reader, given |-> more.given, ended |-> more.ended]
  OBVIOUS
<1> HIDE DEF more
<1>3. Given(project, span, last.reader.cursor, more)
  BY <1>1, <1>2 DEF Copied, Given
<1>4. Joined(last, more, fill)
  BY <1>1 DEF Joined
<1>5. Given(project, span, from, fill) /\ Lengthened(last, more, fill)
  BY <1>1, <1>3, <1>4, GivenJoins
<1>6. Len(last.given) \in Nat
  BY GivenCounts
<1>7. Len(more.given) \in 1 .. left
  BY <1>1 DEF Copied
<1> DEFINE m == Len(last.given)
           n == Len(more.given)
           l == Len(fill.given)
<1>8. l = m + n /\ m \in Nat /\ n \in 1 .. left /\ room = m + left
  BY <1>5, <1>6, <1>7 DEF Lengthened
<1>9. l <= room /\ l > m
  <2> HIDE DEF l, m, n
  <2> QED
    BY <1>8
<1> QED
  BY <1>5, <1>9

LEMMA TurnKeeps ==
  ASSUME NEW project, Readable(project), NEW span, Stretch(span), NEW from \in Nat,
         NEW room \in Nat, NEW last, Given(project, span, from, last), Len(last.given) <= room
  PROVE  Turned(project, span, from, room, last, B!Turn(project, last, room))
<1> DEFINE r == last.reader
           m == Len(last.given)
           wanted == B!Wanted(project, r)
           next == CHOOSE s \in wanted : TRUE
           loaded == IF B!Holds(r.loaded, r.cursor) THEN r.loaded ELSE B!Load(project, next)
           copy == B!Copy(r, loaded[1], room - m)
           refused == ~ B!Holds(r.loaded, r.cursor) /\ (wanted = {} \/ ~ B!Loadable(project, next))
           fill == B!Turn(project, last, room)
<1>1. fill = IF last.ended # "no" \/ m = room \/ B!IsFinished(r) THEN last
             ELSE IF refused THEN [last EXCEPT !.ended = "refused"]
             ELSE IF loaded = <<>> THEN [last EXCEPT !.ended = "short", !.reader.loaded = <<>>]
             ELSE [reader |-> copy.reader, given |-> last.given \o copy.given, ended |-> "no"]
  BY DEF B!Turn, B!NoBlock
<1>2. m \in Nat
  BY GivenCounts
<1>3. Reader(project, span, r) /\ r.cursor \in Nat
  BY DEF Given, Reader
<1>4. r.span = span
  BY <1>3 DEF Reader
<1>5. B!IsFinished(r) <=> r.cursor >= span.end
  BY <1>4 DEF B!IsFinished
<1> HIDE DEF fill, copy, loaded, next, wanted
<1>6. CASE last.ended # "no" \/ m = room \/ B!IsFinished(r)
  <2>1. fill = last
    BY <1>1, <1>6
  <2>2. Stops(span, room, last)
    BY <1>5, <1>6 DEF Stops, Through
  <2>3. Turned(project, span, from, room, last, fill)
    BY <2>1, <2>2 DEF Turned
  <2> QED
    BY <2>3 DEF fill
<1>7. CASE ~ (last.ended # "no" \/ m = room \/ B!IsFinished(r))
  <2>1. ~ Stops(span, room, last) /\ m < room /\ r.cursor < span.end
    <3>1. span.end \in Nat
      BY DEF Stretch
    <3> QED
      BY <1>2, <1>3, <1>5, <1>7, <3>1 DEF Stops, Through
  <2>2. ASSUME NEW block, loaded = <<block>>, Telling(project, block), ~ refused,
               block.start <= r.cursor, r.cursor < block.start + block.frames
        PROVE  Turned(project, span, from, room, last, fill)
    <3>1. loaded # <<>> /\ loaded[1] = block
      BY <2>2
    <3>2. copy = B!Copy(r, block, room - m)
      BY <3>1 DEF copy
    <3>3. room - m \in Nat \ {0}
      BY <1>2, <2>1
    <3>4. Copied(project, span, r.cursor, room - m, copy)
      <4> HIDE DEF r, m
      <4> QED
        BY <1>3, <2>1, <2>2, <3>2, <3>3, CopyGives
    <3>5. fill = [reader |-> copy.reader, given |-> last.given \o copy.given, ended |-> "no"]
      BY <1>1, <1>7, <2>2, <3>1
    <3>6. Given(project, span, from, fill) /\ Len(fill.given) <= room /\ Len(fill.given) > m
      <4>1. Joined(last, copy, fill) /\ fill.ended = "no"
        BY <3>5 DEF Joined
      <4>2. room = m + (room - m)
        BY <1>2
      <4> QED
        BY <3>3, <3>4, <4>1, <4>2, CopyJoins
    <3> QED
      BY <2>1, <3>6 DEF Turned
  <2>3. CASE B!Holds(r.loaded, r.cursor)
    <3>1. r.loaded # <<>>
      BY <2>3, HoldsIsCovers
    <3>2. PICK block : /\ r.loaded = <<block>> /\ Telling(project, block)
                       /\ block.start <= r.cursor /\ r.cursor < block.start + block.frames
      BY <1>3, <3>1 DEF Reader
    <3>3. loaded = <<block>> /\ ~ refused
      BY <2>3, <3>2 DEF loaded
    <3>4. Turned(project, span, from, room, last, fill)
      BY <2>2, <3>2, <3>3
    <3> QED
      BY <3>4 DEF fill
  <2>4. CASE ~ B!Holds(r.loaded, r.cursor)
    <3>1. r.loaded = <<>>
      BY <1>3, <2>4, HoldsIsCovers DEF Reader
    <3>2. wanted = B!Locate(project, r.cursor)
      BY <3>1 DEF wanted, B!Wanted
    <3>3. CASE wanted = {} \/ ~ B!Loadable(project, next)
      <4>1. fill = [last EXCEPT !.ended = "refused"]
        BY <1>1, <1>7, <2>4, <3>3
      <4>2. ~ Held(project, r.cursor)
        <5>1. wanted # {} => next \in wanted
          BY DEF next
        <5> QED
          BY <1>3, <3>2, <3>3, <5>1, HeldIsFound
      <4>3. fill = [reader |-> r, given |-> last.given, ended |-> "refused"]
        BY <4>1 DEF Given
      <4>4. fill.reader = r /\ fill.given = last.given /\ fill.ended = "refused"
        BY <4>3
      <4>5. Given(project, span, from, fill)
        BY <4>2, <4>3, <4>4 DEF Given
      <4>6. Through(span, fill)
        BY <4>4 DEF Through
      <4>7. Turned(project, span, from, room, last, fill)
        BY <2>1, <4>4, <4>5, <4>6 DEF Turned
      <4> QED
        BY <4>7 DEF fill
    <3>4. CASE ~ (wanted = {} \/ ~ B!Loadable(project, next))
      <4>1. next \in B!Locate(project, r.cursor)
        BY <3>2, <3>4 DEF next
      <4>2. PICK q \in project.rows : /\ q.channel = 0 /\ q.sequence = next
                                      /\ q.start <= r.cursor /\ r.cursor < q.start + q.frames
        BY <1>3, <4>1, LocatedCovers
      <4>3. PICK block : /\ B!Load(project, next) = <<block>> /\ Telling(project, block)
                         /\ block.start = q.start /\ block.frames = q.frames
        BY <3>4, <4>2, LoadTells
      <4>4. loaded = <<block>> /\ ~ refused
        BY <2>4, <3>4, <4>3 DEF loaded
      <4>5. Turned(project, span, from, room, last, fill)
        BY <2>2, <4>2, <4>3, <4>4
      <4> QED
        BY <4>5 DEF fill
    <3> QED
      BY <3>3, <3>4
  <2> QED
    BY <2>3, <2>4
<1> QED
  BY <1>6, <1>7

\* The turns of a fill, one after the other.
Turns(f, project, reader, room, m) ==
  f = [n \in 0 .. m |->
         IF n = 0 THEN [reader |-> reader, given |-> <<>>, ended |-> "no"]
         ELSE B!Turn(project, f[n - 1], room)]

LEMMA TurnsExist ==
  ASSUME NEW project, NEW reader, NEW room, NEW most \in Nat
  PROVE  \E f : Turns(f, project, reader, room, most)
<1> DEFINE T == {m \in Nat : \E f : Turns(f, project, reader, room, m)}
           first == [reader |-> reader, given |-> <<>>, ended |-> "no"]
<1>1. 0 \in T
  <2> DEFINE f == [n \in 0 .. 0 |-> first]
  <2>1. f = [n \in 0 .. 0 |-> IF n = 0 THEN first ELSE B!Turn(project, f[n - 1], room)]
    OBVIOUS
  <2> HIDE DEF f
  <2>2. Turns(f, project, reader, room, 0)
    BY <2>1 DEF Turns
  <2> QED
    BY <2>2
<1>2. ASSUME NEW m \in Nat, m \in T
      PROVE  m + 1 \in T
  <2>1. PICK f : Turns(f, project, reader, room, m)
    BY <1>2
  <2> DEFINE g == [n \in 0 .. m + 1 |->
                     IF n = 0 THEN first ELSE B!Turn(project, f[n - 1], room)]
  <2>2. ASSUME NEW n \in 0 .. m
        PROVE  g[n] = f[n]
    <3>1. n \in 0 .. m + 1
      OBVIOUS
    <3> QED
      BY <2>1, <3>1 DEF Turns
  <2>3. ASSUME NEW n \in 0 .. m + 1, n # 0
        PROVE  g[n - 1] = f[n - 1]
    <3>1. n - 1 \in 0 .. m
      BY <2>3
    <3> HIDE DEF g
    <3> QED
      BY <2>2, <3>1
  <2>4. g = [n \in 0 .. m + 1 |-> IF n = 0 THEN first ELSE B!Turn(project, g[n - 1], room)]
    BY <2>3
  <2> HIDE DEF g
  <2>5. Turns(g, project, reader, room, m + 1)
    BY <2>4 DEF Turns
  <2> QED
    BY <2>5
<1> HIDE DEF T
<1>3. most \in T
  BY <1>1, <1>2, SetInduction
<1> QED
  BY <1>3 DEF T

\* A fill gives what there is room for, or as far as there is more to come.
LEMMA FillGives ==
  ASSUME NEW project, Readable(project), NEW span, Stretch(span), NEW reader,
         Reader(project, span, reader), NEW room \in Nat
  PROVE  /\ Given(project, span, reader.cursor, B!Fill(project, reader, room))
         /\ Stops(span, room, B!Fill(project, reader, room))
<1> DEFINE turn == CHOOSE f : Turns(f, project, reader, room, room)
           first == [reader |-> reader, given |-> <<>>, ended |-> "no"]
<1>1. B!Fill(project, reader, room) = turn[room]
  BY DEF B!Fill, Turns
<1>2. Turns(turn, project, reader, room, room)
  BY TurnsExist
<1> HIDE DEF turn
<1>3. turn[0] = first
  <2>1. 0 \in 0 .. room
    OBVIOUS
  <2> QED
    BY <1>2, <2>1 DEF Turns
<1>4. ASSUME NEW n \in Nat, n + 1 <= room
      PROVE  turn[n + 1] = B!Turn(project, turn[n], room)
  <2>1. n + 1 \in 0 .. room /\ n + 1 # 0 /\ (n + 1) - 1 = n
    BY <1>4
  <2> QED
    BY <1>2, <2>1 DEF Turns
<1> DEFINE Good(n) == /\ Given(project, span, reader.cursor, turn[n])
                      /\ Len(turn[n].given) \in Nat /\ Len(turn[n].given) <= room
                      /\ Stops(span, room, turn[n]) \/ Len(turn[n].given) >= n
           T == {n \in Nat : n <= room => Good(n)}
<1>5. 0 \in T
  <2>1. /\ turn[0].reader = reader /\ turn[0].given = <<>> /\ turn[0].ended = "no"
        /\ turn[0] = [reader |-> turn[0].reader, given |-> turn[0].given,
                      ended |-> turn[0].ended]
    BY <1>3
  <2>2. Len(turn[0].given) = 0 /\ turn[0].given \in Seq({Told(project, f) : f \in Nat})
    BY <2>1
  <2>3. reader.cursor \in Nat
    BY DEF Reader
  <2>4. Given(project, span, reader.cursor, turn[0])
    BY <2>1, <2>2, <2>3 DEF Given
  <2> QED
    BY <2>2, <2>4
<1>6. ASSUME NEW n \in Nat, n \in T
      PROVE  n + 1 \in T
  <2> SUFFICES ASSUME n + 1 <= room
               PROVE  Good(n + 1)
    OBVIOUS
  <2>1. Good(n)
    BY <1>6
  <2> DEFINE last == turn[n]
             fill == turn[n + 1]
  <2>2. fill = B!Turn(project, last, room)
    BY <1>4
  <2> HIDE DEF last, fill
  <2>3. /\ Given(project, span, reader.cursor, last)
        /\ Len(last.given) \in Nat /\ Len(last.given) <= room
        /\ Stops(span, room, last) \/ Len(last.given) >= n
    BY <2>1 DEF last
  <2>4. reader.cursor \in Nat
    BY DEF Reader
  <2>5. Turned(project, span, reader.cursor, room, last, fill)
    BY <2>2, <2>3, <2>4, TurnKeeps
  <2>6. Given(project, span, reader.cursor, fill) /\ Len(fill.given) <= room
    BY <2>5 DEF Turned
  <2>7. Len(fill.given) \in Nat
    BY <2>6, GivenCounts
  <2>8. Stops(span, room, fill) \/ Len(fill.given) >= n + 1
    <3>1. CASE Stops(span, room, last)
      BY <2>5, <3>1 DEF Turned
    <3>2. CASE ~ Stops(span, room, last)
      <4>1. Through(span, fill) \/ Len(fill.given) > Len(last.given)
        BY <2>5, <3>2 DEF Turned
      <4>2. CASE Through(span, fill)
        BY <4>2 DEF Stops
      <4>3. CASE Len(fill.given) > Len(last.given)
        BY <2>3, <2>7, <3>2, <4>3
      <4> QED
        BY <4>1, <4>2, <4>3
    <3> QED
      BY <3>1, <3>2
  <2> QED
    BY <2>6, <2>7, <2>8 DEF fill
<1> HIDE DEF T
<1>7. room \in T
  BY <1>5, <1>6, SetInduction
<1>8. /\ Given(project, span, reader.cursor, turn[room])
      /\ Len(turn[room].given) \in Nat /\ Len(turn[room].given) <= room
      /\ Stops(span, room, turn[room]) \/ Len(turn[room].given) >= room
  BY <1>7 DEF T
<1>9. Stops(span, room, turn[room])
  BY <1>8 DEF Stops
<1> QED
  BY <1>1, <1>8, <1>9

\* The fills of a playback, and the readers its seeks come to.
Fills(f, i, reader, m) ==
  f = [n \in 0 .. m |-> IF n = 0 THEN B!Fill(i.project, reader, i.room)
                        ELSE FilledOn(i, f[n - 1])]

Readers(f, i, m) ==
  f = [n \in 0 .. m |-> IF n = 0 THEN B!Open(i.project, i.span) ELSE SentOn(i, f[n - 1], n)]

LEMMA FillsExist ==
  ASSUME NEW i, NEW reader, NEW most \in Nat
  PROVE  \E f : Fills(f, i, reader, most)
<1> DEFINE T == {m \in Nat : \E f : Fills(f, i, reader, m)}
           first == B!Fill(i.project, reader, i.room)
<1>1. 0 \in T
  <2> DEFINE f == [n \in 0 .. 0 |-> first]
  <2>1. f = [n \in 0 .. 0 |-> IF n = 0 THEN first ELSE FilledOn(i, f[n - 1])]
    OBVIOUS
  <2> HIDE DEF f
  <2>2. Fills(f, i, reader, 0)
    BY <2>1 DEF Fills
  <2> QED
    BY <2>2
<1>2. ASSUME NEW m \in Nat, m \in T
      PROVE  m + 1 \in T
  <2>1. PICK f : Fills(f, i, reader, m)
    BY <1>2
  <2> DEFINE g == [n \in 0 .. m + 1 |-> IF n = 0 THEN first ELSE FilledOn(i, f[n - 1])]
  <2>2. ASSUME NEW n \in 0 .. m
        PROVE  g[n] = f[n]
    <3>1. n \in 0 .. m + 1
      OBVIOUS
    <3> QED
      BY <2>1, <3>1 DEF Fills
  <2>3. ASSUME NEW n \in 0 .. m + 1, n # 0
        PROVE  g[n - 1] = f[n - 1]
    <3>1. n - 1 \in 0 .. m
      BY <2>3
    <3> HIDE DEF g
    <3> QED
      BY <2>2, <3>1
  <2>4. g = [n \in 0 .. m + 1 |-> IF n = 0 THEN first ELSE FilledOn(i, g[n - 1])]
    BY <2>3
  <2> HIDE DEF g
  <2>5. Fills(g, i, reader, m + 1)
    BY <2>4 DEF Fills
  <2> QED
    BY <2>5
<1> HIDE DEF T
<1>3. most \in T
  BY <1>1, <1>2, SetInduction
<1> QED
  BY <1>3 DEF T

LEMMA ReadersExist ==
  ASSUME NEW i, NEW most \in Nat
  PROVE  \E f : Readers(f, i, most)
<1> DEFINE T == {m \in Nat : \E f : Readers(f, i, m)}
           first == B!Open(i.project, i.span)
<1>1. 0 \in T
  <2> DEFINE f == [n \in 0 .. 0 |-> first]
  <2>1. f = [n \in 0 .. 0 |-> IF n = 0 THEN first ELSE SentOn(i, f[n - 1], n)]
    OBVIOUS
  <2> HIDE DEF f
  <2>2. Readers(f, i, 0)
    BY <2>1 DEF Readers
  <2> QED
    BY <2>2
<1>2. ASSUME NEW m \in Nat, m \in T
      PROVE  m + 1 \in T
  <2>1. PICK f : Readers(f, i, m)
    BY <1>2
  <2> DEFINE g == [n \in 0 .. m + 1 |-> IF n = 0 THEN first ELSE SentOn(i, f[n - 1], n)]
  <2>2. ASSUME NEW n \in 0 .. m
        PROVE  g[n] = f[n]
    <3>1. n \in 0 .. m + 1
      OBVIOUS
    <3> QED
      BY <2>1, <3>1 DEF Readers
  <2>3. ASSUME NEW n \in 0 .. m + 1, n # 0
        PROVE  g[n - 1] = f[n - 1]
    <3>1. n - 1 \in 0 .. m
      BY <2>3
    <3> HIDE DEF g
    <3> QED
      BY <2>2, <3>1
  <2>4. g = [n \in 0 .. m + 1 |-> IF n = 0 THEN first ELSE SentOn(i, g[n - 1], n)]
    BY <2>3
  <2> HIDE DEF g
  <2>5. Readers(g, i, m + 1)
    BY <2>4 DEF Readers
  <2> QED
    BY <2>5
<1> HIDE DEF T
<1>3. most \in T
  BY <1>1, <1>2, SetInduction
<1> QED
  BY <1>3 DEF T

\* Another fill gives the frames that follow, if there was to be another.
LEMMA FillFollows ==
  ASSUME NEW i, Readable(i.project), i.room \in Nat \ {0}, NEW span, Stretch(span),
         NEW from \in Nat, NEW last, Given(i.project, span, from, last)
  PROVE  /\ Given(i.project, span, from, FilledOn(i, last))
         /\ \/ Through(span, FilledOn(i, last))
            \/ Len(FilledOn(i, last).given) > Len(last.given)
<1> DEFINE more == B!Fill(i.project, last.reader, i.room)
           fill == FilledOn(i, last)
<1>1. fill = IF last.ended # "no" THEN last ELSE [more EXCEPT !.given = last.given \o @]
  BY DEF FilledOn
<1> HIDE DEF fill
<1>2. CASE last.ended # "no"
  <2>1. fill = last /\ Through(span, fill)
    BY <1>1, <1>2 DEF Through
  <2> QED
    BY <2>1 DEF fill
<1>3. CASE last.ended = "no"
  <2>1. Reader(i.project, span, last.reader) /\ i.room \in Nat
    BY DEF Given
  <2>2. /\ Given(i.project, span, last.reader.cursor, more)
        /\ Stops(span, i.room, more)
    BY <2>1, FillGives
  <2> HIDE DEF more
  <2>3. fill = [more EXCEPT !.given = last.given \o @]
    BY <1>1, <1>3
  <2>4. Joined(last, more, fill) /\ fill.ended = more.ended
    <3>1. PICK r, g, e : more = [reader |-> r, given |-> g, ended |-> e]
      BY <2>2 DEF Given
    <3> QED
      BY <2>3, <3>1 DEF Joined
  <2>5. Given(i.project, span, from, fill) /\ Lengthened(last, more, fill)
    BY <2>2, <2>4, GivenJoins
  <2>6. CASE Through(span, more)
    <3>1. Through(span, fill)
      BY <2>4, <2>6 DEF Through, Joined
    <3> QED
      BY <2>5, <3>1 DEF fill
  <2>7. CASE Len(more.given) = i.room
    <3> DEFINE m == Len(last.given)
               n == Len(more.given)
               l == Len(fill.given)
    <3>1. m \in Nat /\ n \in Nat \ {0} /\ l = m + n
      BY <2>5, <2>7, GivenCounts DEF Lengthened
    <3>2. l > m
      <4> HIDE DEF l, m, n
      <4> QED
        BY <3>1
    <3> QED
      BY <2>5, <3>2 DEF fill
  <2> QED
    BY <2>2, <2>6, <2>7 DEF Stops
<1>4. last.ended = "no" \/ last.ended # "no"
  OBVIOUS
<1> QED
  BY <1>2, <1>3, <1>4

\* As many fills as there are frames give all there is to come.
LEMMA FillsGiveAll ==
  ASSUME NEW i, Readable(i.project), i.room \in Nat \ {0}, NEW span, Stretch(span),
         span.end <= i.project.frames, NEW reader, Reader(i.project, span, reader)
  PROVE  /\ Given(i.project, span, reader.cursor, PlayedFrom(i, reader))
         /\ Through(span, PlayedFrom(i, reader))
<1> DEFINE frames == i.project.frames
           from == reader.cursor
           fill == CHOOSE f : Fills(f, i, reader, frames)
<1>1. PlayedFrom(i, reader) = fill[frames]
  BY DEF PlayedFrom, Fills
<1>2. frames \in Nat /\ from \in Nat
  BY DEF Readable, Reader
<1>3. Fills(fill, i, reader, frames)
  BY <1>2, FillsExist
<1> HIDE DEF fill, frames
<1>4. fill[0] = B!Fill(i.project, reader, i.room)
  <2>1. 0 \in 0 .. frames
    BY <1>2
  <2> QED
    BY <1>3, <2>1 DEF Fills
<1>5. ASSUME NEW n \in Nat, n + 1 <= frames
      PROVE  fill[n + 1] = FilledOn(i, fill[n])
  <2>1. n + 1 \in 0 .. frames /\ n + 1 # 0 /\ (n + 1) - 1 = n
    BY <1>2, <1>5
  <2> QED
    BY <1>3, <2>1 DEF Fills
<1> DEFINE Good(n) == /\ Given(i.project, span, from, fill[n])
                      /\ Through(span, fill[n]) \/ Len(fill[n].given) > n
           T == {n \in Nat : n <= frames => Good(n)}
<1>6. 0 \in T
  <2>1. /\ Given(i.project, span, from, fill[0])
        /\ Stops(span, i.room, fill[0])
    BY <1>4, FillGives
  <2>2. Through(span, fill[0]) \/ Len(fill[0].given) > 0
    BY <2>1 DEF Stops
  <2> QED
    BY <2>1, <2>2
<1>7. ASSUME NEW n \in Nat, n \in T
      PROVE  n + 1 \in T
  <2> SUFFICES ASSUME n + 1 <= frames
               PROVE  Good(n + 1)
    OBVIOUS
  <2> DEFINE last == fill[n]
             next == fill[n + 1]
  <2>1. next = FilledOn(i, last)
    BY <1>5
  <2>2. /\ Given(i.project, span, from, last)
        /\ Through(span, last) \/ Len(last.given) > n
    BY <1>2, <1>7
  <2> HIDE DEF last, next
  <2>3. /\ Given(i.project, span, from, next)
        /\ Through(span, next) \/ Len(next.given) > Len(last.given)
    BY <1>2, <2>1, <2>2, FillFollows
  <2> DEFINE m == Len(last.given)
             l == Len(next.given)
  <2>4. m \in Nat /\ l \in Nat /\ last.reader.cursor = from + m /\ next.reader.cursor = from + l
    BY <2>2, <2>3, GivenCounts DEF Given
  <2>5. CASE Through(span, next)
    BY <2>3, <2>5 DEF next
  <2>6. CASE ~ Through(span, next)
    <3>1. l > m /\ next.ended = "no"
      BY <2>3, <2>6 DEF Through
    <3>2. ~ Through(span, last)
      <4>1. CASE last.ended # "no"
        BY <2>1, <2>6, <4>1 DEF FilledOn, Through
      <4>2. CASE last.reader.cursor >= span.end
        <5>1. span.end \in Nat /\ ~ (next.reader.cursor >= span.end)
          BY <2>6 DEF Through, Stretch
        <5> HIDE DEF l, m
        <5>2. from + l >= from + m
          BY <1>2, <2>4, <3>1
        <5> QED
          BY <1>2, <2>4, <4>2, <5>1, <5>2
      <4> QED
        BY <4>1, <4>2 DEF Through
    <3>3. m > n
      BY <2>2, <3>2
    <3>4. l > n + 1
      <4> HIDE DEF l, m
      <4> QED
        BY <2>4, <3>1, <3>3
    <3> QED
      BY <2>3, <3>4 DEF next
  <2> QED
    BY <2>5, <2>6
<1> HIDE DEF T
<1>8. frames \in T
  BY <1>2, <1>6, <1>7, SetInduction
<1> DEFINE all == fill[frames]
<1>9. /\ Given(i.project, span, from, all)
      /\ Through(span, all) \/ Len(all.given) > frames
  BY <1>2, <1>8 DEF T
<1> HIDE DEF all
<1>10. Through(span, all)
  <2> DEFINE l == Len(all.given)
  <2>1. l \in Nat /\ all.reader.cursor = from + l
    BY <1>9, GivenCounts DEF Given
  <2>2. span.end \in Nat /\ span.end <= frames
    BY DEF Stretch, frames
  <2>3. CASE l > frames
    <3>1. from + l >= span.end
      <4> HIDE DEF l
      <4> QED
        BY <1>2, <2>1, <2>2, <2>3
    <3> QED
      BY <2>1, <3>1 DEF Through
  <2> QED
    BY <1>9, <2>3
<1> QED
  BY <1>1, <1>9, <1>10 DEF all

(***************************************************************************)
(* Reading a capture of any shape, wherever it was sent to before and in   *)
(* fills of any size: what is given is every frame from where it was sent, *)
(* in order, to the end of the span or to the first frame that no whole    *)
(* block holds.  pcm.rs:203-437.                                           *)
(***************************************************************************)
LEMMA ReadingIsExact ==
  ASSUME NEW i, Readable(i.project), i.room \in Nat \ {0},
         i.span.start \in Nat, i.span.end \in Nat,
         i.seeks \in Seq(Int), i.seeks # <<>>
  PROVE  LET span == B!ClampTo(i.span, i.project.frames)
         IN  /\ Stretch(span)
             /\ Given(i.project, span, Played(i).from, Played(i).fill)
             /\ Through(span, Played(i).fill)
<1> DEFINE span == B!ClampTo(i.span, i.project.frames)
           last == Len(i.seeks)
           reader == CHOOSE f : Readers(f, i, last - 1)
           sent == B!Seek(reader[last - 1], i.seeks[last])
<1>1. Played(i) = [from |-> sent.cursor, fill |-> PlayedFrom(i, sent)]
  BY DEF Played, Readers
<1>2. last \in Nat \ {0} /\ last - 1 \in Nat /\ \A n \in 1 .. last : i.seeks[n] \in Int
  OBVIOUS
<1>3. /\ Stretch(span) /\ span.end <= i.project.frames
      /\ Reader(i.project, span, B!Open(i.project, i.span))
  BY OpenReads
<1>4. Readers(reader, i, last - 1)
  BY <1>2, ReadersExist
<1> HIDE DEF span, reader, last, sent
<1> DEFINE T == {n \in Nat : n <= last - 1 => Reader(i.project, span, reader[n])}
<1>5. 0 \in T
  <2>1. 0 \in 0 .. last - 1
    BY <1>2
  <2>2. reader[0] = B!Open(i.project, i.span)
    BY <1>4, <2>1 DEF Readers
  <2> QED
    BY <1>3, <2>2
<1>6. ASSUME NEW n \in Nat, n \in T
      PROVE  n + 1 \in T
  <2> SUFFICES ASSUME n + 1 <= last - 1
               PROVE  Reader(i.project, span, reader[n + 1])
    OBVIOUS
  <2>1. n + 1 \in 0 .. last - 1 /\ n + 1 # 0 /\ (n + 1) - 1 = n /\ n + 1 \in 1 .. last
    BY <1>2
  <2>2. reader[n + 1] = SentOn(i, reader[n], n + 1)
    BY <1>4, <2>1 DEF Readers
  <2>3. Reader(i.project, span, reader[n]) /\ i.seeks[n + 1] \in Int
    BY <1>2, <1>6, <2>1
  <2> DEFINE at == B!Seek(reader[n], i.seeks[n + 1])
  <2>4. Reader(i.project, span, at)
    BY <1>3, <2>3, SeekReads
  <2> HIDE DEF at
  <2>5. Given(i.project, span, at.cursor, B!Fill(i.project, at, 1))
    BY <1>3, <2>4, FillGives
  <2> QED
    BY <2>2, <2>5 DEF SentOn, Given, at
<1> HIDE DEF T
<1>7. last - 1 \in T
  BY <1>2, <1>5, <1>6, SetInduction
<1>8. Reader(i.project, span, reader[last - 1]) /\ i.seeks[last] \in Int
  BY <1>2, <1>7 DEF T
<1>9. Reader(i.project, span, sent)
  BY <1>3, <1>8, SeekReads DEF sent
<1>10. /\ Given(i.project, span, sent.cursor, PlayedFrom(i, sent))
       /\ Through(span, PlayedFrom(i, sent))
  BY <1>3, <1>9, FillsGiveAll
<1> QED
  BY <1>1, <1>3, <1>10 DEF span

\* A row of the run's captures.
IsRow(r, c, q, at, n, held) ==
  /\ r.channel = c /\ r.sequence = q /\ r.start = at /\ r.frames = n
  /\ Len(r.samples) = held
  /\ \A k \in 1 .. held : r.samples[k] = <<r.channel, r.start + k - 1>>

LEMMA RowTells ==
  ASSUME NEW c \in Nat, NEW q \in Nat, NEW at \in Nat, NEW n \in Nat, NEW held \in Nat
  PROVE  IsRow(BlockRow(c, q, at, n, held), c, q, at, n, held)
<1> DEFINE samples == [k \in 1 .. held |-> <<c, at + k - 1>>]
           r == BlockRow(c, q, at, n, held)
<1>1. Len(samples) = held
  <2>1. samples \in [1 .. held -> {<<c, at + k - 1>> : k \in 1 .. held}]
    OBVIOUS
  <2> HIDE DEF samples
  <2> QED
    BY <2>1
<1>2. \A k \in 1 .. held : samples[k] = <<c, at + k - 1>>
  OBVIOUS
<1> HIDE DEF samples
<1>3. r = [channel |-> c, sequence |-> q, start |-> at, frames |-> n, samples |-> samples]
  BY DEF BlockRow, samples
<1>4. /\ r.channel = c /\ r.sequence = q /\ r.start = at /\ r.frames = n
      /\ r.samples = samples
  BY <1>3
<1> HIDE DEF r
<1>5. IsRow(r, c, q, at, n, held)
  BY <1>1, <1>2, <1>4 DEF IsRow
<1> QED
  BY <1>5 DEF r

Blocks == {<<0, 0, 3>>, <<1, 3, 2>>, <<2, 5, 3>>}

\* What a row is, of a capture that may be damaged, next to the row it was.
RowAt(r, c, b, start) ==
  \E n, held \in Nat : r = BlockRow(c, b[1], start, n, held)

LEMMA WholeIsBlocks ==
  ASSUME NEW r \in Whole
  PROVE  \E c \in 0 .. 1, b \in Blocks : r = BlockRow(c, b[1], b[2], b[3], b[3])
BY DEF Whole, RowsOfBlock, Blocks

LEMMA DamagedIsNear ==
  ASSUME NEW c \in 0 .. 1, NEW b \in Blocks, NEW d \in Damaged(BlockRow(c, b[1], b[2], b[3], b[3])),
         NEW x \in d
  PROVE  /\ d = {x}
         /\ \E start \in {b[2], b[2] + 1, W!Later(b[2] - 1, 0)} : RowAt(x, c, b, start)
<1> DEFINE row == BlockRow(c, b[1], b[2], b[3], b[3])
<1>1. b[1] \in Nat /\ b[2] \in Nat /\ b[3] \in Nat /\ b[3] - 1 \in Nat
  BY DEF Blocks
<1>2. /\ row.channel = c /\ row.sequence = b[1] /\ row.start = b[2] /\ row.frames = b[3]
  <2>1. c \in Nat
    OBVIOUS
  <2>2. IsRow(row, c, b[1], b[2], b[3], b[3])
    BY <1>1, <2>1, RowTells
  <2> HIDE DEF row
  <2> QED
    BY <2>2 DEF IsRow
<1> HIDE DEF row
<1>3. /\ d = {x}
      /\ \/ x = BlockRow(c, b[1], b[2], b[3], b[3] - 1)
         \/ x = BlockRow(c, b[1], b[2], b[3] - 1, b[3] - 1)
         \/ x = BlockRow(c, b[1], b[2] + 1, b[3], b[3])
         \/ x = BlockRow(c, b[1], W!Later(b[2] - 1, 0), b[3], b[3])
  <2>1. d \in Damaged(row)
    BY DEF row
  <2> QED
    BY <1>2, <2>1 DEF Damaged
<1> QED
  BY <1>1, <1>3 DEF RowAt

\* Two rows of a capture: not two of a channel that have one number or one start.
Distinct(r, q) ==
  /\ r.channel = q.channel /\ r.sequence = q.sequence => r = q
  /\ r.channel = 0 /\ q.channel = 0 /\ r.start = q.start => r = q

LEMMA RowsAreReadable ==
  ASSUME NEW rows \in Projects
  PROVE  Readable([rows |-> rows, channels |-> 2, frames |-> 8])
<1>1. ASSUME NEW r, NEW c \in 0 .. 1, NEW b \in Blocks,
             NEW start \in {b[2], b[2] + 1, W!Later(b[2] - 1, 0)}, RowAt(r, c, b, start)
      PROVE  /\ r.channel = c /\ r.sequence = b[1] /\ r.start = start
             /\ r.channel \in Nat /\ r.sequence \in Nat /\ r.start \in Nat /\ r.frames \in Nat
             /\ Len(r.samples) \in Nat
             /\ \A k \in 1 .. Len(r.samples) : r.samples[k] = <<r.channel, r.start + k - 1>>
  <2>1. PICK n \in Nat, held \in Nat : r = BlockRow(c, b[1], start, n, held)
    BY <1>1 DEF RowAt
  <2>2. c \in Nat /\ b[1] \in Nat /\ start \in Nat
    BY DEF Blocks, W!Later
  <2>3. IsRow(BlockRow(c, b[1], start, n, held), c, b[1], start, n, held)
    BY <2>2, RowTells
  <2>4. IsRow(r, c, b[1], start, n, held)
    BY <2>1, <2>3
  <2> QED
    BY <2>2, <2>4 DEF IsRow
<1>2. ASSUME NEW r \in Whole
      PROVE  \E c \in 0 .. 1, b \in Blocks : /\ r = BlockRow(c, b[1], b[2], b[3], b[3])
                                             /\ RowAt(r, c, b, b[2])
  <2>1. PICK c \in 0 .. 1, b \in Blocks : r = BlockRow(c, b[1], b[2], b[3], b[3])
    BY WholeIsBlocks
  <2>2. b[3] \in Nat
    BY DEF Blocks
  <2> QED
    BY <2>1, <2>2 DEF RowAt
<1>3. ASSUME NEW r \in Whole, NEW q \in Whole
      PROVE  Distinct(r, q)
  <2>1. PICK c \in 0 .. 1, b \in Blocks : /\ r = BlockRow(c, b[1], b[2], b[3], b[3])
                                          /\ RowAt(r, c, b, b[2])
    BY <1>2
  <2>2. PICK e \in 0 .. 1, p \in Blocks : /\ q = BlockRow(e, p[1], p[2], p[3], p[3])
                                          /\ RowAt(q, e, p, p[2])
    BY <1>2
  <2>3. r.channel = c /\ r.sequence = b[1] /\ r.start = b[2]
    BY <1>1, <2>1
  <2>4. q.channel = e /\ q.sequence = p[1] /\ q.start = p[2]
    BY <1>1, <2>2
  <2>5. /\ b[1] = p[1] => b = p
        /\ b[2] = p[2] => b = p
    BY DEF Blocks
  <2>6. c = e /\ b = p => r = q
    BY <2>1, <2>2
  <2> QED
    BY <2>3, <2>4, <2>5, <2>6 DEF Distinct
<1>4. CASE rows = Whole
  <2>1. ASSUME NEW r \in rows
        PROVE  /\ r.channel \in Nat /\ r.sequence \in Nat /\ r.start \in Nat /\ r.frames \in Nat
               /\ Len(r.samples) \in Nat
               /\ \A k \in 1 .. Len(r.samples) : r.samples[k] = <<r.channel, r.start + k - 1>>
    BY <1>1, <1>2, <1>4
  <2>2. \A r, q \in rows : Distinct(r, q)
    BY <1>3, <1>4
  <2> QED
    BY <2>1, <2>2 DEF Readable, Distinct
<1>5. ASSUME NEW row \in Whole, NEW d \in Damaged(row), rows = (Whole \ {row}) \cup d
      PROVE  Readable([rows |-> rows, channels |-> 2, frames |-> 8])
  <2>1. PICK c \in 0 .. 1, b \in Blocks : /\ row = BlockRow(c, b[1], b[2], b[3], b[3])
                                          /\ RowAt(row, c, b, b[2])
    BY <1>2
  <2>2. ASSUME NEW x \in d
        PROVE  /\ d = {x}
               /\ \E start \in {b[2], b[2] + 1, W!Later(b[2] - 1, 0)} : RowAt(x, c, b, start)
    BY <1>5, <2>1, DamagedIsNear
  <2>3. ASSUME NEW r \in rows
        PROVE  /\ r.channel \in Nat /\ r.sequence \in Nat /\ r.start \in Nat /\ r.frames \in Nat
               /\ Len(r.samples) \in Nat
               /\ \A k \in 1 .. Len(r.samples) : r.samples[k] = <<r.channel, r.start + k - 1>>
    <3>1. CASE r \in Whole
      BY <1>1, <1>2, <3>1
    <3>2. CASE r \in d
      <4>1. PICK start \in {b[2], b[2] + 1, W!Later(b[2] - 1, 0)} : RowAt(r, c, b, start)
        BY <2>2, <3>2
      <4> QED
        BY <1>1, <4>1
    <3> QED
      BY <1>5, <3>1, <3>2
  <2>4. ASSUME NEW x \in d, NEW q \in Whole \ {row}
        PROVE  ~ (x.channel = q.channel /\ x.sequence = q.sequence)
               /\ ~ (x.channel = 0 /\ q.channel = 0 /\ x.start = q.start)
    <3>1. PICK start \in {b[2], b[2] + 1, W!Later(b[2] - 1, 0)} : RowAt(x, c, b, start)
      BY <2>2
    <3>2. PICK e \in 0 .. 1, p \in Blocks : /\ q = BlockRow(e, p[1], p[2], p[3], p[3])
                                            /\ RowAt(q, e, p, p[2])
      BY <1>2
    <3>3. x.channel = c /\ x.sequence = b[1] /\ x.start = start
      BY <1>1, <3>1
    <3>4. q.channel = e /\ q.sequence = p[1] /\ q.start = p[2]
      BY <1>1, <3>2
    <3>5. ~ (c = e /\ b = p)
      BY <2>1, <3>2
    <3>6. /\ b[1] = p[1] => b = p
          /\ start = p[2] => b = p
      BY DEF Blocks, W!Later
    <3> QED
      BY <3>3, <3>4, <3>5, <3>6
  <2>5. ASSUME NEW r \in rows, NEW q \in rows
        PROVE  Distinct(r, q)
    <3>1. r \in Whole /\ q \in Whole => Distinct(r, q)
      BY <1>3
    <3>2. r \in d /\ q \in d => Distinct(r, q)
      BY <2>2 DEF Distinct
    <3>3. r \in d /\ q \in Whole \ {row} => Distinct(r, q)
      BY <2>4 DEF Distinct
    <3>4. q \in d /\ r \in Whole \ {row} => Distinct(r, q)
      BY <2>4 DEF Distinct
    <3> QED
      BY <1>5, <3>1, <3>2, <3>3, <3>4
  <2> QED
    BY <2>3, <2>5 DEF Readable, Distinct
<1> QED
  BY <1>4, <1>5 DEF Projects

(***************************************************************************)
(* What is played is what was captured, to the end of the span or to the   *)
(* first frame that no whole block holds, wherever it was sent to.  The    *)
(* lemma says it of captures, spans and fills of any size.                 *)
(* pcm.rs:203-437.                                                         *)
(***************************************************************************)
THEOREM SpansAreExact == Spec => []SpanIsExact
<1>1. EvaluationInv => SpanIsExact
  <2> SUFFICES ASSUME EvaluationInv, Done("play")
               PROVE  SpanIsExact
    BY DEF SpanIsExact
  <2> DEFINE i == input[1]
             span == B!ClampTo(i.span, i.project.frames)
             from == output[1].from
             fill == output[1].fill
  <2>1. i \in PlayInputs /\ output[1] = Played(i)
    BY DoneIsEvaluated DEF Inputs, Evaluated
  <2> HIDE DEF i
  <2>2. /\ i.seeks \in {<<0>>, <<4, 3>>, <<7, 1>>, <<9, 2>>} /\ i.room \in {1, 2, 5}
        /\ i.span.start \in Nat /\ i.span.end \in Nat
        /\ \E rows \in Projects : i.project = [rows |-> rows, channels |-> 2, frames |-> 8]
    BY <2>1 DEF PlayInputs
  <2>3. Readable(i.project) /\ i.project.channels = 2
    <3>1. PICK rows \in Projects : i.project = [rows |-> rows, channels |-> 2, frames |-> 8]
      BY <2>2
    <3>2. Readable([rows |-> rows, channels |-> 2, frames |-> 8])
      BY RowsAreReadable
    <3>3. Readable(i.project)
      BY <3>1, <3>2
    <3> QED
      BY <3>1, <3>3
  <2>4. i.seeks \in Seq(Int) /\ i.seeks # <<>> /\ i.room \in Nat \ {0}
    <3>1. i.room \in Nat \ {0}
      BY <2>2
    <3>2. CASE i.seeks = <<0>>
      BY <3>1, <3>2
    <3>3. CASE i.seeks = <<4, 3>>
      BY <3>1, <3>3
    <3>4. CASE i.seeks = <<7, 1>>
      BY <3>1, <3>4
    <3>5. CASE i.seeks = <<9, 2>>
      BY <3>1, <3>5
    <3> QED
      BY <2>2, <3>2, <3>3, <3>4, <3>5
  <2>5. Stretch(span) /\ Given(i.project, span, from, fill) /\ Through(span, fill)
    BY <2>1, <2>2, <2>3, <2>4, ReadingIsExact
  <2> HIDE DEF span, from, fill
  <2>6. DOMAIN fill.given = 1 .. Len(fill.given)
    <3> DEFINE frames == {Told(i.project, f) : f \in Nat}
    <3>1. fill.given \in Seq(frames)
      BY <2>5 DEF Given
    <3> HIDE DEF frames
    <3> QED
      BY <3>1
  <2>7. \A k \in DOMAIN fill.given : fill.given[k] = [c \in 0 .. 1 |-> <<c, from + k - 1>>]
    BY <2>3, <2>5, <2>6 DEF Given, Told
  <2>8. fill.ended \in {"no", "refused"} /\ fill.reader.cursor = from + Len(fill.given)
    BY <2>5 DEF Given
  <2>9. fill.ended = "refused" => ~ Held(i.project, from + Len(fill.given))
    BY <2>5, <2>8 DEF Given
  <2>10. fill.ended # "refused" => from + Len(fill.given) = span.end
    <3> SUFFICES ASSUME fill.ended # "refused"
                 PROVE  from + Len(fill.given) = span.end
      OBVIOUS
    <3>1. fill.reader.cursor >= span.end
      BY <2>5, <2>8 DEF Through
    <3>2. fill.reader.cursor \in Nat /\ fill.reader.cursor <= span.end /\ span.end \in Nat
      BY <2>5 DEF Given, Reader, Stretch
    <3> QED
      BY <2>8, <3>1, <3>2
  <2> QED
    BY <2>3, <2>7, <2>8, <2>9, <2>10 DEF SpanIsExact, Held, i, span, from, fill
<1> QED
  BY <1>1, OutputsAreEvaluated, PTL

----------------------------------------------------------------------------
(* Drawing.                                                                *)

LEMMA TimesKeeps ==
  ASSUME NEW x \in Int, NEW y \in Int, NEW p \in Nat, x <= y
  PROVE  x * p <= y * p
<1>1. PICK d \in Nat : y = x + d
  <2>1. y - x \in Nat /\ y = x + (y - x)
    OBVIOUS
  <2> QED
    BY <2>1
<1>2. y * p = x * p + d * p /\ d * p \in Nat /\ x * p \in Int
  BY <1>1
<1> QED
  BY <1>2

LEMMA TimesTells ==
  ASSUME NEW x \in Int, NEW y \in Int, NEW p \in Nat, x * p < y * p
  PROVE  x < y
<1>1. y <= x => y * p <= x * p
  BY TimesKeeps
<1>2. x * p \in Int /\ y * p \in Int
  OBVIOUS
<1> QED
  BY <1>1, <1>2

LEMMA Divided ==
  ASSUME NEW a \in Nat, NEW b \in Nat \ {0}
  PROVE  /\ a \div b \in Nat
         /\ (a \div b) * b <= a /\ a < (a \div b + 1) * b
<1>1. a \div b \in Nat
  OBVIOUS
<1>2. (a \div b) * b <= a
  OBVIOUS
<1>3. a < (a \div b + 1) * b
  OBVIOUS
<1> QED
  BY <1>1, <1>2, <1>3

LEMMA TimesBetween ==
  ASSUME NEW x \in Int, NEW y \in Int, NEW u \in Int, NEW p \in Nat \ {0}, x * p <= u
  PROVE  /\ u < y * p => x < y
         /\ u <= y * p => x <= y
<1>1. x * p \in Int /\ y * p \in Int /\ (y + 1) * p = y * p + p /\ (y + 1) * p \in Int
  OBVIOUS
<1>2. u < y * p => x < y
  BY <1>1, TimesTells
<1>3. u <= y * p => x < y + 1
  <2>1. u <= y * p => x * p < (y + 1) * p
    BY <1>1
  <2>2. y + 1 \in Int
    OBVIOUS
  <2> QED
    BY <2>1, <2>2, TimesTells
<1> QED
  BY <1>2, <1>3

(***************************************************************************)
(* Columns and frames: a request is some frames wide and some pixels.      *)
(***************************************************************************)
Drawable(request) ==
  /\ request.start \in Nat /\ request.end \in Nat /\ request.start < request.end
  /\ request.pixels \in Nat \ {0}

LEMMA ColumnIs ==
  ASSUME NEW request, Drawable(request), NEW f \in Nat, request.start <= f, f < request.end
  PROVE  LET c == W!ColumnOf(request, f)
             wide == request.end - request.start
         IN  /\ W!Wide(request) = wide /\ wide \in Nat \ {0}
             /\ c \in 0 .. request.pixels - 1
             /\ c * wide <= (f - request.start) * request.pixels
             /\ (f - request.start) * request.pixels < (c + 1) * wide
<1> DEFINE c == W!ColumnOf(request, f)
           wide == request.end - request.start
           a == (f - request.start) * request.pixels
<1>1. W!Wide(request) = wide /\ wide \in Nat \ {0}
  BY DEF Drawable, W!Wide, W!Later
<1>2. request.start \in Nat /\ request.end \in Nat /\ request.pixels \in Nat \ {0}
  BY DEF Drawable
<1>3. f - request.start \in Nat /\ f - request.start < wide
  BY <1>2
<1>4. a \in Nat
  BY <1>2, <1>3
<1>5. c = a \div wide
  BY <1>1 DEF W!ColumnOf
<1>6. c \in Nat /\ c * wide <= a /\ a < (c + 1) * wide
  <2> HIDE DEF a, wide, c
  <2> QED
    BY <1>1, <1>4, <1>5, Divided
<1>7. a < wide * request.pixels
  <2> DEFINE x == f - request.start
             p == request.pixels
  <2>1. x \in Nat /\ x + 1 <= wide /\ p \in Nat \ {0} /\ x + 1 \in Int /\ wide \in Int
    BY <1>1, <1>2, <1>3
  <2>2. (x + 1) * p <= wide * p
    <3> HIDE DEF x, p, wide
    <3> QED
      BY <2>1, TimesKeeps
  <2>3. (x + 1) * p = x * p + p /\ x * p \in Int
    <3> HIDE DEF x, p, wide
    <3> QED
      BY <2>1
  <2>4. a = x * p
    OBVIOUS
  <2> QED
    BY <2>1, <2>2, <2>3, <2>4
<1>8. c < request.pixels
  <2> DEFINE p == request.pixels
  <2>1. c * wide < p * wide
    <3>1. c * wide <= a /\ a < wide * p /\ a \in Int
      BY <1>4, <1>6, <1>7
    <3>2. p \in Int /\ wide \in Int /\ c \in Int
      BY <1>1, <1>2, <1>6
    <3> HIDE DEF a, wide, c, p
    <3>3. wide * p = p * wide /\ c * wide \in Int /\ p * wide \in Int
      BY <3>2
    <3> QED
      BY <3>1, <3>3
  <2> HIDE DEF c, wide, p
  <2>2. p \in Int /\ wide \in Nat /\ c \in Int
    BY <1>1, <1>2, <1>6 DEF p
  <2>3. c < p
    BY <2>1, <2>2, TimesTells
  <2> QED
    BY <2>3 DEF p
<1>9. c \in 0 .. request.pixels - 1
  <2> HIDE DEF c
  <2> QED
    BY <1>2, <1>6, <1>8
<1> QED
  BY <1>1, <1>6, <1>9

LEMMA FrameIs ==
  ASSUME NEW request, Drawable(request), NEW c \in Nat
  PROVE  LET f == W!FrameOf(request, c)
             wide == request.end - request.start
         IN  /\ f \in Nat /\ request.start <= f
             /\ (f - request.start) * request.pixels <= c * wide
             /\ c * wide < (f - request.start + 1) * request.pixels
<1> DEFINE wide == request.end - request.start
           a == c * wide
           q == a \div request.pixels
           f == W!FrameOf(request, c)
<1>1. W!Wide(request) = wide /\ wide \in Nat \ {0}
  BY DEF Drawable, W!Wide, W!Later
<1>2. request.start \in Nat /\ request.pixels \in Nat \ {0}
  BY DEF Drawable
<1>3. f = request.start + q
  BY <1>1 DEF W!FrameOf
<1>4. a \in Nat
  BY <1>1
<1>5. q \in Nat /\ q * request.pixels <= a /\ a < (q + 1) * request.pixels
  <2> HIDE DEF a
  <2> QED
    BY <1>2, <1>4, Divided
<1> HIDE DEF q, f
<1>6. f - request.start = q /\ f \in Nat /\ request.start <= f
  BY <1>2, <1>3, <1>5
<1> HIDE DEF a
<1>7. /\ f \in Nat /\ request.start <= f
      /\ (f - request.start) * request.pixels <= a
      /\ a < (f - request.start + 1) * request.pixels
  BY <1>5, <1>6
<1> QED
  BY <1>7 DEF a, f

\* A frame lies between where its column and the next one start.
LEMMA ColumnAround ==
  ASSUME NEW request, Drawable(request), NEW f \in Nat, request.start <= f, f < request.end
  PROVE  LET c == W!ColumnOf(request, f)
         IN  /\ c \in 0 .. request.pixels - 1
             /\ W!FrameOf(request, c) <= f /\ f <= W!FrameOf(request, c + 1)
<1> DEFINE c == W!ColumnOf(request, f)
           wide == request.end - request.start
           start == request.start
           p == request.pixels
           low == W!FrameOf(request, c)
           high == W!FrameOf(request, c + 1)
<1>1. start \in Nat /\ p \in Nat \ {0}
  BY DEF Drawable
<1>2. wide \in Nat \ {0} /\ c \in 0 .. p - 1 /\ c * wide <= (f - start) * p
      /\ (f - start) * p < (c + 1) * wide
  BY ColumnIs
<1> HIDE DEF c, wide, p
<1>3. c \in Nat /\ c + 1 \in Nat
  BY <1>1, <1>2
<1>4. low \in Nat /\ (low - start) * p <= c * wide
  BY <1>3, FrameIs DEF p, wide
<1>5. high \in Nat /\ (c + 1) * wide < (high - start + 1) * p
  BY <1>3, FrameIs DEF p, wide
<1> HIDE DEF low, high, start
<1>6. low - start \in Int /\ f - start \in Int /\ high - start + 1 \in Int
  BY <1>1, <1>4, <1>5
<1>7. c * wide \in Int /\ (c + 1) * wide \in Int /\ (f - start) * p \in Int
  BY <1>1, <1>2, <1>3, <1>6
<1>8. low - start <= f - start
  BY <1>1, <1>2, <1>4, <1>6, <1>7, TimesBetween
<1>9. f - start < high - start + 1
  <2> DEFINE x == f - start
             y == high - start + 1
             u == (c + 1) * wide
  <2>1. x * p <= u /\ u < y * p /\ x \in Int /\ y \in Int /\ u \in Int
    BY <1>2, <1>5, <1>6, <1>7
  <2> HIDE DEF x, y, u
  <2>2. x < y
    BY <1>1, <2>1, TimesBetween
  <2> QED
    BY <2>2 DEF x, y
<1>10. low <= f /\ f <= high
  BY <1>1, <1>4, <1>5, <1>8, <1>9
<1> QED
  BY <1>2, <1>10 DEF c, p, low, high

\* A later frame is in no earlier column.
LEMMA ColumnsGrow ==
  ASSUME NEW request, Drawable(request), NEW f \in Nat, NEW g \in Nat,
         request.start <= f, f <= g, g < request.end
  PROVE  W!ColumnOf(request, f) <= W!ColumnOf(request, g)
<1> DEFINE c == W!ColumnOf(request, f)
           d == W!ColumnOf(request, g)
           wide == request.end - request.start
           start == request.start
           p == request.pixels
<1>1. start \in Nat /\ p \in Nat \ {0} /\ request.end \in Nat
  BY DEF Drawable
<1>2. f < request.end /\ start <= g
  BY <1>1
<1>3. wide \in Nat \ {0} /\ c \in Int /\ c * wide <= (f - start) * p
  BY <1>2, ColumnIs
<1>4. d \in Int /\ (g - start) * p < (d + 1) * wide
  BY <1>2, ColumnIs
<1> HIDE DEF c, d, wide, p
<1>5. (f - start) * p <= (g - start) * p
  <2>1. f - start \in Int /\ g - start \in Int /\ f - start <= g - start /\ p \in Nat
    BY <1>1
  <2> QED
    BY <2>1, TimesKeeps
<1> DEFINE u == (f - start) * p
           v == (g - start) * p
<1>6. u \in Int /\ v \in Int /\ c * wide <= u /\ u <= v /\ v < (d + 1) * wide
  BY <1>1, <1>3, <1>4, <1>5
<1> HIDE DEF u, v
<1>7. d + 1 \in Int /\ (d + 1) * wide \in Int /\ c * wide \in Int
  BY <1>3, <1>4
<1>8. c < d + 1
  <2>1. u < (d + 1) * wide
    BY <1>6, <1>7
  <2> QED
    BY <1>3, <1>6, <1>7, <2>1, TimesBetween
<1>9. c <= d
  BY <1>3, <1>4, <1>8
<1> QED
  BY <1>9 DEF c, d

\* Past the last column the request ends.
LEMMA FramesEnd ==
  ASSUME NEW request, Drawable(request)
  PROVE  W!FrameOf(request, request.pixels) = request.end
<1> DEFINE wide == request.end - request.start
           start == request.start
           p == request.pixels
           f == W!FrameOf(request, p)
<1>1. start \in Nat /\ p \in Nat \ {0} /\ request.end \in Nat /\ wide \in Nat \ {0}
      /\ request.end = start + wide
  BY DEF Drawable
<1>2. f \in Nat /\ (f - start) * p <= p * wide /\ p * wide < (f - start + 1) * p
  BY <1>1, FrameIs
<1> HIDE DEF f, p, wide, start
<1>3. f - start \in Int /\ f - start + 1 \in Int /\ p * wide = wide * p /\ wide * p \in Int
  BY <1>1, <1>2
<1> DEFINE x == f - start
<1>4. x \in Int /\ x + 1 \in Int /\ x * p <= wide * p /\ wide * p < (x + 1) * p
  BY <1>2, <1>3
<1> HIDE DEF x
<1>5. x <= wide /\ wide < x + 1
  <2>1. x <= wide
    BY <1>1, <1>3, <1>4, TimesBetween
  <2>2. wide < x + 1
    BY <1>1, <1>4, TimesTells
  <2> QED
    BY <2>1, <2>2
<1>6. f = request.end
  BY <1>1, <1>2, <1>4, <1>5 DEF x
<1> QED
  BY <1>6 DEF f, p

\* Where there are no more pixels than frames every column has a frame.
LEMMA FramesGrow ==
  ASSUME NEW request, Drawable(request), NEW c \in Nat,
         request.pixels <= request.end - request.start
  PROVE  W!FrameOf(request, c) < W!FrameOf(request, c + 1)
<1> DEFINE wide == request.end - request.start
           start == request.start
           p == request.pixels
           low == W!FrameOf(request, c)
           high == W!FrameOf(request, c + 1)
<1>1. start \in Nat /\ p \in Nat \ {0} /\ wide \in Nat \ {0} /\ p <= wide
  BY DEF Drawable
<1>2. low \in Nat /\ (low - start) * p <= c * wide
  BY FrameIs
<1>3. high \in Nat /\ (c + 1) * wide < (high - start + 1) * p
  BY FrameIs
<1> HIDE DEF wide, p, low, high, start
<1> DEFINE x == low - start
           y == high - start + 1
<1>4. x \in Int /\ y \in Int /\ x * p <= c * wide /\ (c + 1) * wide < y * p
  BY <1>1, <1>2, <1>3
<1> HIDE DEF x, y
<1>5. (x + 1) * p <= (c + 1) * wide
  <2>1. (x + 1) * p = x * p + p /\ (c + 1) * wide = c * wide + wide
        /\ x * p \in Int /\ c * wide \in Int
    BY <1>1, <1>4
  <2> QED
    BY <1>1, <1>4, <2>1
<1>6. x + 1 < y
  <2>1. x + 1 \in Int /\ (c + 1) * wide \in Int
    BY <1>1, <1>4
  <2> QED
    BY <1>1, <1>4, <1>5, <2>1, TimesBetween
<1>7. low < high
  BY <1>1, <1>2, <1>3, <1>6 DEF x, y
<1> QED
  BY <1>7 DEF low, high

\* A run, as far as it is asked for.
Clipped(request, lo, hi) ==
  /\ lo \in Nat /\ hi \in Nat /\ request.start <= lo /\ lo < hi /\ hi <= request.end

LEMMA ShareIs ==
  ASSUME NEW request, Drawable(request), NEW lo, NEW hi, Clipped(request, lo, hi),
         NEW c \in 0 .. request.pixels - 1
  PROVE  LET first == W!ColumnOf(request, lo)
             last  == W!ColumnOf(request, hi - 1)
             share == W!Share(request, c, lo, hi)
         IN  /\ first \in 0 .. request.pixels - 1 /\ last \in 0 .. request.pixels - 1
             /\ share \in Nat
             /\ first = last => share = IF c = first THEN hi - lo ELSE 0
             /\ first # last => share =
                  IF c \in first .. last
                  THEN W!Later((IF c + 1 < request.pixels
                                THEN W!Earlier(W!FrameOf(request, c + 1), hi) ELSE hi)
                               - W!Later(W!FrameOf(request, c), lo), 0)
                  ELSE 0
<1> DEFINE first == W!ColumnOf(request, lo)
           last  == W!ColumnOf(request, hi - 1)
           share == W!Share(request, c, lo, hi)
           from  == W!Later(W!FrameOf(request, c), lo)
           to    == IF c + 1 < request.pixels
                    THEN W!Earlier(W!FrameOf(request, c + 1), hi) ELSE hi
<1>1. /\ lo \in Nat /\ hi \in Nat /\ hi - 1 \in Nat /\ lo < hi
      /\ request.start <= lo /\ lo < request.end
      /\ request.start <= hi - 1 /\ hi - 1 < request.end
      /\ request.pixels \in Nat \ {0} /\ c \in Nat /\ c + 1 \in Nat
  BY DEF Clipped, Drawable
<1>2. first \in 0 .. request.pixels - 1 /\ last \in 0 .. request.pixels - 1
  BY <1>1, ColumnIs
<1>3. share = IF first = last THEN (IF c = first THEN hi - lo ELSE 0)
              ELSE IF c \in first .. last THEN W!Later(to - from, 0) ELSE 0
  BY DEF W!Share
<1> HIDE DEF first, last, share
<1>4. W!FrameOf(request, c) \in Nat /\ W!FrameOf(request, c + 1) \in Nat
  BY <1>1, FrameIs
<1>5. from \in Nat /\ to \in Nat
  BY <1>1, <1>4 DEF W!Later, W!Earlier
<1>6. share \in Nat
  <2> HIDE DEF from, to
  <2>1. W!Later(to - from, 0) \in Nat /\ hi - lo \in Nat
    BY <1>1, <1>5 DEF W!Later
  <2> QED
    BY <1>3, <2>1
<1> QED
  BY <1>2, <1>3, <1>6 DEF first, last, share

\* A column that gets some of a run is no further from it than the run is long.
LEMMA ShareReaches ==
  ASSUME NEW request, Drawable(request), NEW lo, NEW hi, Clipped(request, lo, hi),
         NEW c \in 0 .. request.pixels - 1, W!Share(request, c, lo, hi) > 0
  PROVE  W!FrameOf(request, c) < hi /\ lo <= W!FrameOf(request, c + 1)
<1> DEFINE first == W!ColumnOf(request, lo)
           last  == W!ColumnOf(request, hi - 1)
           low   == W!FrameOf(request, c)
           high  == W!FrameOf(request, c + 1)
<1>1. /\ lo \in Nat /\ hi \in Nat /\ hi - 1 \in Nat /\ lo < hi
      /\ request.start <= lo /\ lo < request.end /\ hi <= request.end /\ request.end \in Nat
      /\ request.start <= hi - 1 /\ hi - 1 < request.end
      /\ request.pixels \in Nat \ {0} /\ c \in Nat /\ c + 1 \in Nat
  BY DEF Clipped, Drawable
<1>2. low \in Nat /\ high \in Nat
  BY <1>1, FrameIs
<1>3. CASE first = last
  <2>1. c = first
    BY <1>3, ShareIs
  <2>2. low <= lo
    BY <1>1, <2>1, ColumnAround
  <2>3. hi - 1 <= high
    BY <1>1, <1>3, <2>1, ColumnAround
  <2> HIDE DEF low, high
  <2>4. low < hi /\ lo <= high
    BY <1>1, <1>2, <2>2, <2>3
  <2> QED
    BY <2>4 DEF low, high
<1>4. CASE first # last
  <2> DEFINE to == IF c + 1 < request.pixels THEN W!Earlier(high, hi) ELSE hi
             from == W!Later(low, lo)
  <2>1. W!Later(to - from, 0) > 0
    BY <1>4, ShareIs
  <2> HIDE DEF low, high
  <2>2. from \in Nat /\ to \in Nat /\ low <= from /\ lo <= from /\ to <= hi
    BY <1>1, <1>2 DEF W!Later, W!Earlier
  <2>3. from < to
    <3> HIDE DEF from, to
    <3> QED
      BY <2>1, <2>2 DEF W!Later
  <2>4. low < hi
    <3> HIDE DEF from, to
    <3> QED
      BY <1>1, <1>2, <2>2, <2>3
  <2>5. lo <= high
    <3>1. CASE c + 1 < request.pixels
      <4>1. to <= high
        BY <1>1, <1>2, <3>1 DEF W!Earlier
      <4> HIDE DEF from, to
      <4> QED
        BY <1>1, <1>2, <2>2, <2>3, <4>1
    <3>2. CASE ~ (c + 1 < request.pixels)
      <4>1. c + 1 = request.pixels
        BY <1>1, <3>2
      <4>2. high = request.end
        BY <4>1, FramesEnd DEF high
      <4> QED
        BY <1>1, <4>2
    <3> QED
      BY <3>1, <3>2
  <2> QED
    BY <2>4, <2>5 DEF low, high
<1> QED
  BY <1>3, <1>4

(***************************************************************************)
(* Of a run a frame is in, the column of the frame or the next one gets    *)
(* some: runs are single frames, or every column has a frame.              *)
(***************************************************************************)
LEMMA ShareShows ==
  ASSUME NEW request, Drawable(request), NEW lo, NEW hi, Clipped(request, lo, hi),
         NEW f \in Nat, lo <= f, f < hi,
         hi = lo + 1 \/ request.pixels <= request.end - request.start
  PROVE  LET c == W!ColumnOf(request, f)
         IN  \E d \in {c, c + 1} \cap (0 .. request.pixels - 1) :
               W!Share(request, d, lo, hi) > 0
<1> DEFINE c == W!ColumnOf(request, f)
           first == W!ColumnOf(request, lo)
           last  == W!ColumnOf(request, hi - 1)
           low   == W!FrameOf(request, c)
           high  == W!FrameOf(request, c + 1)
           p     == request.pixels
<1>1. /\ lo \in Nat /\ hi \in Nat /\ hi - 1 \in Nat /\ lo < hi
      /\ request.start <= lo /\ lo < request.end /\ hi <= request.end /\ request.end \in Nat
      /\ request.start <= hi - 1 /\ hi - 1 < request.end
      /\ request.start <= f /\ f < request.end /\ f <= hi - 1
      /\ p \in Nat \ {0} /\ request.start \in Nat
  BY DEF Clipped, Drawable
<1>2. c \in 0 .. p - 1 /\ low <= f /\ f <= high
  BY <1>1, ColumnAround
<1>3. first <= c /\ c <= last
  BY <1>1, ColumnsGrow
<1>4. first \in 0 .. p - 1 /\ last \in 0 .. p - 1
  BY <1>1, ColumnIs
<1>5. low \in Nat /\ high \in Nat /\ c \in Nat /\ c + 1 \in Nat
  <2>1. c \in Nat /\ c + 1 \in Nat
    BY <1>1, <1>2
  <2> QED
    BY <2>1, FrameIs
<1>6. CASE first = last
  <2>1. c = first
    <3> HIDE DEF c, first, last
    <3> QED
      BY <1>3, <1>4, <1>5, <1>6
  <2>2. W!Share(request, c, lo, hi) = hi - lo
    BY <1>2, <1>6, <2>1, ShareIs
  <2>3. hi - lo > 0
    BY <1>1
  <2> QED
    BY <1>2, <2>2, <2>3
<1>7. CASE first # last
  <2>1. request.pixels <= request.end - request.start
    <3>1. hi = lo + 1 => hi - 1 = lo
      BY <1>1
    <3> QED
      BY <1>7, <3>1
  <2>2. low < high
    BY <1>5, <2>1, FramesGrow
  <2> DEFINE share(d) == W!Share(request, d, lo, hi)
             to(d) == IF d + 1 < p THEN W!Earlier(W!FrameOf(request, d + 1), hi) ELSE hi
             from(d) == W!Later(W!FrameOf(request, d), lo)
  <2>3. ASSUME NEW d \in first .. last, d \in 0 .. p - 1
        PROVE  share(d) = W!Later(to(d) - from(d), 0)
    BY <1>7, <2>3, ShareIs
  <2>4. c \in first .. last
    <3> HIDE DEF c, first, last, p
    <3> QED
      BY <1>2, <1>3, <1>4
  <2>5. share(c) = W!Later(to(c) - from(c), 0)
    BY <1>2, <2>3, <2>4
  <2>6. CASE from(c) < to(c)
    <3>1. from(c) \in Nat /\ to(c) \in Nat
      <4> HIDE DEF c
      <4> QED
        BY <1>1, <1>5 DEF low, high, W!Later, W!Earlier
    <3>2. share(c) > 0
      <4> HIDE DEF c, from, to, share
      <4> QED
        BY <2>5, <2>6, <3>1 DEF W!Later
    <3> QED
      BY <1>2, <3>2
  <2>7. CASE ~ (from(c) < to(c))
    <3> HIDE DEF c, first, last, p, share
    <3>1. c + 1 < p /\ high = f /\ lo = f
      BY <1>1, <1>2, <1>5, <2>2, <2>7 DEF low, high, W!Later, W!Earlier
    <3>2. c = first
      BY <3>1 DEF c, first
    <3>3. c + 1 \in first .. last /\ c + 1 \in 0 .. p - 1
      BY <1>1, <1>3, <1>4, <1>5, <1>7, <3>1, <3>2
    <3>4. share(c + 1) = W!Later(to(c + 1) - from(c + 1), 0)
      BY <2>3, <3>3
    <3> DEFINE next == W!FrameOf(request, c + 1 + 1)
    <3>5. high < next /\ next \in Nat
      <4>1. c + 1 + 1 \in Nat
        BY <1>5
      <4> QED
        BY <1>5, <2>1, <4>1, FramesGrow, FrameIs DEF high
    <3> HIDE DEF next
    <3>6. from(c + 1) = f /\ to(c + 1) \in Nat /\ f < to(c + 1)
      BY <1>1, <1>5, <3>1, <3>5 DEF high, next, W!Later, W!Earlier
    <3>7. share(c + 1) > 0
      <4> HIDE DEF to, from
      <4> QED
        BY <3>4, <3>6 DEF W!Later
    <3>8. c + 1 \in {c, c + 1} \cap (0 .. p - 1)
      BY <3>3
    <3> QED
      BY <3>7, <3>8 DEF c, p, share
  <2> QED
    BY <2>6, <2>7
<1> QED
  BY <1>6, <1>7

(***************************************************************************)
(* What a column shows, of audio that is silent but for clicks one way.    *)
(***************************************************************************)
Mark(x, way) == IF way = 1 THEN x.max ELSE x.min

Marked(x, way) == Mark(x, way) = way

\* A summary of such audio, and a column drawn of such summaries.
Sounds(x, way) == x.min \in Int /\ x.max \in Int /\ Mark(x, way) \in {0, way}

Column(x, way) == Sounds(x, way) /\ x.frames \in Nat /\ (x.frames = 0 => ~ Marked(x, way))

LEMMA AddToMarks ==
  ASSUME NEW way \in {-1, 1}, NEW x, Column(x, way), NEW s, Sounds(s, way), NEW n \in Nat
  PROVE  /\ Column(W!AddTo(x, s, n), way)
         /\ Marked(W!AddTo(x, s, n), way) <=> Marked(x, way) \/ (n > 0 /\ Marked(s, way))
<1> DEFINE y == W!AddTo(x, s, n)
<1>1. /\ x.min \in Int /\ x.max \in Int /\ x.frames \in Nat
      /\ s.min \in Int /\ s.max \in Int
  BY DEF Column, Sounds
<1>2. CASE n = 0
  <2>1. y = x
    BY <1>2 DEF W!AddTo
  <2> HIDE DEF y
  <2>2. ~ (n > 0)
    BY <1>2
  <2> QED
    BY <2>1, <2>2 DEF y
<1>3. CASE n # 0 /\ x.frames = 0
  <2>1. y.min = s.min /\ y.max = s.max /\ y.frames = n
    BY <1>3 DEF W!AddTo
  <2> HIDE DEF y
  <2>2. Mark(y, way) = Mark(s, way) /\ n > 0
    BY <1>3, <2>1 DEF Mark
  <2>3. ~ Marked(x, way)
    BY <1>3 DEF Column
  <2>4. Column(y, way)
    BY <1>1, <1>3, <2>1, <2>2 DEF Column, Sounds
  <2> QED
    BY <2>2, <2>3, <2>4 DEF Marked, y
<1>4. CASE n # 0 /\ x.frames # 0
  <2>1. /\ y.min = W!Earlier(x.min, s.min) /\ y.max = W!Later(x.max, s.max)
        /\ y.frames = x.frames + n
    BY <1>4 DEF W!AddTo
  <2> HIDE DEF y
  <2>2. y.min \in Int /\ y.max \in Int /\ y.frames \in Nat /\ y.frames # 0
    BY <1>1, <1>4, <2>1 DEF W!Earlier, W!Later
  <2>3. Mark(x, way) \in {0, way} /\ Mark(s, way) \in {0, way}
    BY DEF Column, Sounds
  <2>4. Mark(y, way) \in {0, way}
        /\ (Mark(y, way) = way <=> Mark(x, way) = way \/ Mark(s, way) = way)
    <3>1. CASE way = 1
      BY <1>1, <2>1, <2>3, <3>1 DEF Mark, W!Later
    <3>2. CASE way = -1
      BY <1>1, <2>1, <2>3, <3>2 DEF Mark, W!Earlier
    <3> QED
      BY <3>1, <3>2
  <2>5. n > 0
    BY <1>4
  <2> QED
    BY <2>2, <2>4, <2>5 DEF Column, Sounds, Marked, y
<1> QED
  BY <1>2, <1>3, <1>4

\* A run, what a request asks of it, and whether a column gets some of it.
Run(r, way) == r.at \in Nat /\ r.frames \in Nat /\ Sounds(r.summary, way)

Opens(request, r) == W!Later(r.at, request.start)
Closes(request, r) == W!Earlier(r.at + r.frames, request.end)

Gives(request, c, r) ==
  /\ Opens(request, r) < Closes(request, r)
  /\ W!Share(request, c, Opens(request, r), Closes(request, r)) > 0

\* The columns after the runs of a set were added.
Painted(p, request, way, runs) ==
  /\ p.request = request
  /\ p.columns = [c \in 0 .. request.pixels - 1 |-> p.columns[c]]
  /\ \A c \in 0 .. request.pixels - 1 :
       /\ Column(p.columns[c], way)
       /\ Marked(p.columns[c], way) <=>
            \E r \in runs : Gives(request, c, r) /\ Marked(r.summary, way)

LEMMA OpensCloses ==
  ASSUME NEW request, Drawable(request), NEW r, r.at \in Nat, r.frames \in Nat
  PROVE  /\ Opens(request, r) \in Nat /\ Closes(request, r) \in Nat
         /\ request.start <= Opens(request, r) /\ Closes(request, r) <= request.end
         /\ r.at <= Opens(request, r) /\ Closes(request, r) <= r.at + r.frames
<1> DEFINE at   == r.at
           end  == r.at + r.frames
           from == request.start
           to   == request.end
           lo   == Opens(request, r)
           hi   == Closes(request, r)
<1>1. at \in Nat /\ end \in Nat /\ from \in Nat /\ to \in Nat
  BY DEF Drawable
<1>2. lo = W!Later(at, from) /\ hi = W!Earlier(end, to)
  BY DEF Opens, Closes
<1> HIDE DEF at, end, from, to, lo, hi
<1>3. lo \in Nat /\ hi \in Nat /\ from <= lo /\ hi <= to /\ at <= lo /\ hi <= end
  BY <1>1, <1>2 DEF W!Later, W!Earlier
<1> QED
  BY <1>3 DEF at, end, from, to, lo, hi

LEMMA ClosesClips ==
  ASSUME NEW request, Drawable(request), NEW way, NEW r, Run(r, way),
         Opens(request, r) < Closes(request, r)
  PROVE  Clipped(request, Opens(request, r), Closes(request, r))
<1>1. r.at \in Nat /\ r.frames \in Nat
  BY DEF Run
<1> QED
  BY <1>1, OpensCloses DEF Clipped

LEMMA AddPaints ==
  ASSUME NEW request, Drawable(request), NEW way \in {-1, 1}, NEW runs,
         NEW p, Painted(p, request, way, runs), NEW r, Run(r, way)
  PROVE  Painted(W!Add(p, r.at, r.frames, r.summary), request, way, runs \cup {r})
<1> DEFINE q == W!Add(p, r.at, r.frames, r.summary)
           lo == Opens(request, r)
           hi == Closes(request, r)
<1>1. p.request = request
  BY DEF Painted
<1>2. CASE lo >= hi
  <2>1. q = p
    BY <1>1, <1>2 DEF W!Add, Opens, Closes
  <2>2. \A c : ~ Gives(request, c, r)
    <3>1. lo \in Nat /\ hi \in Nat
      BY OpensCloses DEF Run
    <3> QED
      BY <1>2, <3>1 DEF Gives
  <2> HIDE DEF q
  <2>3. Painted(p, request, way, runs \cup {r})
    BY <2>2 DEF Painted
  <2> QED
    BY <2>1, <2>3 DEF q
<1>3. CASE ~ (lo >= hi)
  <2> DEFINE share(c) == W!Share(request, c, lo, hi)
  <2>1. lo < hi
    <3>1. lo \in Nat /\ hi \in Nat
      BY OpensCloses DEF Run
    <3> QED
      BY <1>3, <3>1
  <2>2. Clipped(request, lo, hi)
    BY <2>1, ClosesClips
  <2>3. /\ q.request = request
        /\ q.columns = [c \in 0 .. request.pixels - 1 |->
                          W!AddTo(p.columns[c], r.summary, share(c))]
    <3>1. DOMAIN p.columns = 0 .. request.pixels - 1
      BY DEF Painted
    <3>2. q = [p EXCEPT
                 !.covered = @ + (hi - lo),
                 !.columns = [c \in DOMAIN @ |-> W!AddTo(@[c], r.summary, share(c))]]
      BY <1>1, <1>3 DEF W!Add, Opens, Closes
    <3> QED
      BY <1>1, <3>1, <3>2
  <2>4. ASSUME NEW c \in 0 .. request.pixels - 1
        PROVE  /\ Column(q.columns[c], way)
               /\ Marked(q.columns[c], way) <=>
                    Marked(p.columns[c], way)
                    \/ (Gives(request, c, r) /\ Marked(r.summary, way))
    <3>1. share(c) \in Nat
      BY <2>2, ShareIs
    <3>2. Column(p.columns[c], way) /\ Sounds(r.summary, way)
      BY DEF Painted, Run
    <3>3. q.columns[c] = W!AddTo(p.columns[c], r.summary, share(c))
      BY <2>3
    <3>4. Gives(request, c, r) <=> share(c) > 0
      BY <2>1 DEF Gives
    <3> HIDE DEF q, share
    <3> QED
      BY <3>1, <3>2, <3>3, <3>4, AddToMarks
  <2>5. \A c \in 0 .. request.pixels - 1 :
          Marked(p.columns[c], way) <=>
            \E s \in runs : Gives(request, c, s) /\ Marked(s.summary, way)
    BY DEF Painted
  <2> HIDE DEF q
  <2>6. q.columns = [c \in 0 .. request.pixels - 1 |-> q.columns[c]]
    BY <2>3
  <2> QED
    BY <2>3, <2>4, <2>5, <2>6 DEF Painted, q
<1> QED
  BY <1>2, <1>3

\* The painter after each of the runs, and after each of the blocks.
Adds(f, painter, runs, m) ==
  f = [n \in 0 .. m |->
         IF n = 0 THEN painter
         ELSE W!Add(f[n - 1], runs[n].at, runs[n].frames, runs[n].summary)]

Reads(f, levels, blocks, request, level, m) ==
  f = [n \in 0 .. m |->
         IF n = 0 THEN W!Painter(request)
         ELSE IF W!Asked(request, blocks[n])
         THEN W!AddAll(f[n - 1], W!RunsOf(levels, level, blocks[n])) ELSE f[n - 1]]

LEMMA AddsExist ==
  ASSUME NEW painter, NEW runs, NEW most \in Nat
  PROVE  \E f : Adds(f, painter, runs, most)
<1> DEFINE T == {m \in Nat : \E f : Adds(f, painter, runs, m)}
           then(x, n) == W!Add(x, runs[n].at, runs[n].frames, runs[n].summary)
<1>1. 0 \in T
  <2> DEFINE f == [n \in 0 .. 0 |-> painter]
  <2>1. f = [n \in 0 .. 0 |-> IF n = 0 THEN painter ELSE then(f[n - 1], n)]
    OBVIOUS
  <2> HIDE DEF f
  <2>2. Adds(f, painter, runs, 0)
    BY <2>1 DEF Adds
  <2> QED
    BY <2>2
<1>2. ASSUME NEW m \in Nat, m \in T
      PROVE  m + 1 \in T
  <2>1. PICK f : Adds(f, painter, runs, m)
    BY <1>2
  <2> DEFINE g == [n \in 0 .. m + 1 |-> IF n = 0 THEN painter ELSE then(f[n - 1], n)]
  <2>2. ASSUME NEW n \in 0 .. m
        PROVE  g[n] = f[n]
    <3>1. n \in 0 .. m + 1
      OBVIOUS
    <3> QED
      BY <2>1, <3>1 DEF Adds
  <2>3. ASSUME NEW n \in 0 .. m + 1, n # 0
        PROVE  g[n - 1] = f[n - 1]
    <3>1. n - 1 \in 0 .. m
      BY <2>3
    <3> HIDE DEF g
    <3> QED
      BY <2>2, <3>1
  <2>4. g = [n \in 0 .. m + 1 |-> IF n = 0 THEN painter ELSE then(g[n - 1], n)]
    BY <2>3
  <2> HIDE DEF g
  <2>5. Adds(g, painter, runs, m + 1)
    BY <2>4 DEF Adds
  <2> QED
    BY <2>5
<1> HIDE DEF T
<1>3. most \in T
  BY <1>1, <1>2, SetInduction
<1> QED
  BY <1>3 DEF T

LEMMA ReadsExist ==
  ASSUME NEW levels, NEW blocks, NEW request, NEW level, NEW most \in Nat
  PROVE  \E f : Reads(f, levels, blocks, request, level, most)
<1> DEFINE T == {m \in Nat : \E f : Reads(f, levels, blocks, request, level, m)}
           first == W!Painter(request)
           then(x, n) == IF W!Asked(request, blocks[n])
                         THEN W!AddAll(x, W!RunsOf(levels, level, blocks[n])) ELSE x
<1>1. 0 \in T
  <2> DEFINE f == [n \in 0 .. 0 |-> first]
  <2>1. f = [n \in 0 .. 0 |-> IF n = 0 THEN first ELSE then(f[n - 1], n)]
    OBVIOUS
  <2> HIDE DEF f
  <2>2. Reads(f, levels, blocks, request, level, 0)
    BY <2>1 DEF Reads
  <2> QED
    BY <2>2
<1>2. ASSUME NEW m \in Nat, m \in T
      PROVE  m + 1 \in T
  <2>1. PICK f : Reads(f, levels, blocks, request, level, m)
    BY <1>2
  <2> DEFINE g == [n \in 0 .. m + 1 |-> IF n = 0 THEN first ELSE then(f[n - 1], n)]
  <2>2. ASSUME NEW n \in 0 .. m
        PROVE  g[n] = f[n]
    <3>1. n \in 0 .. m + 1
      OBVIOUS
    <3> QED
      BY <2>1, <3>1 DEF Reads
  <2>3. ASSUME NEW n \in 0 .. m + 1, n # 0
        PROVE  g[n - 1] = f[n - 1]
    <3>1. n - 1 \in 0 .. m
      BY <2>3
    <3> HIDE DEF g
    <3> QED
      BY <2>2, <3>1
  <2>4. g = [n \in 0 .. m + 1 |-> IF n = 0 THEN first ELSE then(g[n - 1], n)]
    BY <2>3
  <2> HIDE DEF g
  <2>5. Reads(g, levels, blocks, request, level, m + 1)
    BY <2>4 DEF Reads
  <2> QED
    BY <2>5
<1> HIDE DEF T
<1>3. most \in T
  BY <1>1, <1>2, SetInduction
<1> QED
  BY <1>3 DEF T

\* Every run that is added is painted.
LEMMA AddAllPaints ==
  ASSUME NEW request, Drawable(request), NEW way \in {-1, 1}, NEW done,
         NEW p, Painted(p, request, way, done), NEW runs, Len(runs) \in Nat,
         \A k \in 1 .. Len(runs) : Run(runs[k], way)
  PROVE  Painted(W!AddAll(p, runs), request, way, done \cup {runs[k] : k \in 1 .. Len(runs)})
<1> DEFINE after == CHOOSE f : Adds(f, p, runs, Len(runs))
           to(n) == done \cup {runs[k] : k \in 1 .. n}
           T == {n \in Nat : n <= Len(runs) => Painted(after[n], request, way, to(n))}
<1>1. W!AddAll(p, runs) = after[Len(runs)]
  BY DEF W!AddAll, Adds
<1>2. Adds(after, p, runs, Len(runs))
  BY AddsExist
<1> HIDE DEF after
<1>3. 0 \in T
  <2>1. 0 \in 0 .. Len(runs)
    OBVIOUS
  <2>2. after[0] = p
    BY <1>2, <2>1 DEF Adds
  <2>3. to(0) = done
    OBVIOUS
  <2> HIDE DEF to
  <2> QED
    BY <2>2, <2>3
<1>4. ASSUME NEW n \in Nat, n \in T
      PROVE  n + 1 \in T
  <2> SUFFICES ASSUME n + 1 <= Len(runs)
               PROVE  Painted(after[n + 1], request, way, to(n + 1))
    OBVIOUS
  <2>1. n + 1 \in 0 .. Len(runs) /\ n + 1 \in 1 .. Len(runs) /\ (n + 1) - 1 = n /\ n <= Len(runs)
        /\ n + 1 # 0
    OBVIOUS
  <2> DEFINE r == runs[n + 1]
  <2>2. after[n + 1] = W!Add(after[n], r.at, r.frames, r.summary)
    BY <1>2, <2>1 DEF Adds
  <2>3. Painted(after[n], request, way, to(n)) /\ Run(r, way)
    BY <1>4, <2>1
  <2>4. to(n + 1) = to(n) \cup {r}
    <3>1. 1 .. n + 1 = (1 .. n) \cup {n + 1}
      OBVIOUS
    <3> QED
      BY <3>1
  <2> HIDE DEF r
  <2> DEFINE before == after[n]
             painted == to(n)
  <2>5. Painted(before, request, way, painted)
    BY <2>3
  <2> HIDE DEF before, painted
  <2>6. Painted(W!Add(before, r.at, r.frames, r.summary), request, way, painted \cup {r})
    BY <2>3, <2>5, AddPaints
  <2> HIDE DEF to
  <2> QED
    BY <2>2, <2>4, <2>6 DEF before, painted
<1> HIDE DEF T
<1>5. Len(runs) \in T
  BY <1>3, <1>4, SetInduction
<1> QED
  BY <1>1, <1>5 DEF T

\* The runs of the blocks that were asked for among the first.
RunsIn(levels, level, blocks, request, n) ==
  {W!RunsOf(levels, level, blocks[x[1]])[x[2]] :
     x \in {y \in (1 .. n) \X Nat :
              /\ W!Asked(request, blocks[y[1]])
              /\ y[2] \in 1 .. Len(W!RunsOf(levels, level, blocks[y[1]]))}}

LEMMA ReadPaints ==
  ASSUME NEW request, Drawable(request), NEW way \in {-1, 1}, NEW levels, NEW level, NEW blocks,
         Len(blocks) \in Nat,
         \A b \in 1 .. Len(blocks) :
           LET runs == W!RunsOf(levels, level, blocks[b])
           IN  Len(runs) \in Nat /\ \A k \in 1 .. Len(runs) : Run(runs[k], way)
  PROVE  Painted(W!ReadAt(levels, blocks, request, level), request, way,
                 RunsIn(levels, level, blocks, request, Len(blocks)))
<1> DEFINE after == CHOOSE f : Reads(f, levels, blocks, request, level, Len(blocks))
           to(n) == RunsIn(levels, level, blocks, request, n)
           of(b) == W!RunsOf(levels, level, blocks[b])
           T == {n \in Nat : n <= Len(blocks) => Painted(after[n], request, way, to(n))}
<1>1. W!ReadAt(levels, blocks, request, level) = after[Len(blocks)]
  <2>1. request.pixels # 0 /\ W!Wide(request) # 0
    BY DEF Drawable, W!Wide, W!Later
  <2> QED
    BY <2>1 DEF W!ReadAt, Reads
<1>2. Reads(after, levels, blocks, request, level, Len(blocks))
  BY ReadsExist
<1> HIDE DEF after
<1>3. 0 \in T
  <2>1. 0 \in 0 .. Len(blocks)
    OBVIOUS
  <2>2. after[0] = W!Painter(request)
    BY <1>2, <2>1 DEF Reads
  <2>3. to(0) = {}
    BY DEF RunsIn
  <2>4. Column(W!EmptyColumn, way) /\ ~ Marked(W!EmptyColumn, way)
    BY DEF Column, Sounds, Marked, Mark, W!EmptyColumn
  <2>5. Painted(W!Painter(request), request, way, {})
    BY <2>4 DEF Painted, W!Painter
  <2> HIDE DEF to
  <2> QED
    BY <2>2, <2>3, <2>5
<1>4. ASSUME NEW n \in Nat, n \in T
      PROVE  n + 1 \in T
  <2> SUFFICES ASSUME n + 1 <= Len(blocks)
               PROVE  Painted(after[n + 1], request, way, to(n + 1))
    OBVIOUS
  <2>1. n + 1 \in 0 .. Len(blocks) /\ n + 1 \in 1 .. Len(blocks) /\ (n + 1) - 1 = n
        /\ n <= Len(blocks) /\ n + 1 # 0
    OBVIOUS
  <2> DEFINE runs == of(n + 1)
  <2>2. Painted(after[n], request, way, to(n))
    BY <1>4, <2>1
  <2>3. (1 .. n + 1) = (1 .. n) \cup {n + 1}
    OBVIOUS
  <2>4. CASE W!Asked(request, blocks[n + 1])
    <3>1. after[n + 1] = W!AddAll(after[n], runs)
      BY <1>2, <2>1, <2>4 DEF Reads
    <3>2. to(n + 1) = to(n) \cup {runs[k] : k \in 1 .. Len(runs)}
      <4>1. Len(runs) \in Nat
        BY <2>1
      <4>2. ASSUME NEW r \in to(n + 1)
            PROVE  r \in to(n) \cup {runs[k] : k \in 1 .. Len(runs)}
        <5>1. PICK b \in 1 .. n + 1, k \in Nat :
                /\ W!Asked(request, blocks[b]) /\ k \in 1 .. Len(of(b)) /\ r = of(b)[k]
          BY DEF RunsIn
        <5>2. CASE b = n + 1
          BY <5>1, <5>2
        <5>3. CASE b \in 1 .. n
          <6> DEFINE x == <<b, k>>
          <6>1. x \in (1 .. n) \X Nat /\ x[1] = b /\ x[2] = k
            BY <5>1, <5>3
          <6> HIDE DEF x
          <6>2. r \in to(n)
            BY <5>1, <6>1 DEF RunsIn
          <6> QED
            BY <6>2
        <5> QED
          BY <2>3, <5>2, <5>3
      <4>3. ASSUME NEW r \in to(n)
            PROVE  r \in to(n + 1)
        <5>1. PICK b \in 1 .. n, k \in Nat :
                /\ W!Asked(request, blocks[b]) /\ k \in 1 .. Len(of(b)) /\ r = of(b)[k]
          BY DEF RunsIn
        <5>2. <<b, k>> \in (1 .. n + 1) \X Nat
          BY <2>3
        <5> QED
          BY <5>1, <5>2 DEF RunsIn
      <4>4. ASSUME NEW k \in 1 .. Len(runs)
            PROVE  runs[k] \in to(n + 1)
        <5>1. <<n + 1, k>> \in (1 .. n + 1) \X Nat
          BY <4>1
        <5> QED
          BY <2>4, <5>1 DEF RunsIn
      <4> HIDE DEF to, runs
      <4> QED
        BY <4>2, <4>3, <4>4
    <3>3. Len(runs) \in Nat /\ \A k \in 1 .. Len(runs) : Run(runs[k], way)
      BY <2>1
    <3> HIDE DEF runs
    <3> DEFINE before == after[n]
               painted == to(n)
    <3>4. Painted(before, request, way, painted)
      BY <2>2
    <3> HIDE DEF before, painted
    <3>5. Painted(W!AddAll(before, runs), request, way,
                  painted \cup {runs[k] : k \in 1 .. Len(runs)})
      BY <3>3, <3>4, AddAllPaints
    <3> HIDE DEF to
    <3> QED
      BY <3>1, <3>2, <3>5 DEF before, painted
  <2>5. CASE ~ W!Asked(request, blocks[n + 1])
    <3>1. after[n + 1] = after[n]
      BY <1>2, <2>1, <2>5 DEF Reads
    <3>2. to(n + 1) = to(n)
      <4>1. \A y : (y \in (1 .. n + 1) \X Nat /\ W!Asked(request, blocks[y[1]]))
                   <=> (y \in (1 .. n) \X Nat /\ W!Asked(request, blocks[y[1]]))
        BY <2>3, <2>5
      <4> QED
        BY <4>1 DEF RunsIn
    <3> HIDE DEF to
    <3> QED
      BY <2>2, <3>1, <3>2
  <2> QED
    BY <2>4, <2>5
<1> HIDE DEF T
<1>5. Len(blocks) \in T
  BY <1>3, <1>4, SetInduction
<1> QED
  BY <1>1, <1>5 DEF T

\* A summary of some samples is marked when one of them is a click.
LEMMA SummaryMarks ==
  ASSUME NEW way \in {-1, 1}, NEW samples \in Seq({0, way}), samples # <<>>
  PROVE  /\ Sounds(W!Summarised(samples), way)
         /\ Marked(W!Summarised(samples), way) <=> \E k \in 1 .. Len(samples) : samples[k] = way
<1> DEFINE heard == {samples[k] : k \in DOMAIN samples}
           low == CHOOSE x \in heard : \A y \in heard : x <= y
           high == CHOOSE x \in heard : \A y \in heard : x >= y
           s == W!Summarised(samples)
<1>1. DOMAIN samples = 1 .. Len(samples) /\ Len(samples) \in Nat /\ Len(samples) # 0
  BY EmptySeq
<1>2. heard \subseteq {0, way} /\ heard # {}
  <2>1. 1 \in DOMAIN samples
    BY <1>1
  <2>2. samples[1] \in heard
    BY <2>1
  <2>3. \A k \in DOMAIN samples : samples[k] \in {0, way}
    BY <1>1
  <2> QED
    BY <2>2, <2>3
<1>3. way \in heard <=> \E k \in 1 .. Len(samples) : samples[k] = way
  BY <1>1
<1>4. s.min = low /\ s.max = high
  BY DEF W!Summarised
<1> HIDE DEF s, heard
<1>5. /\ \E x \in heard : \A y \in heard : x <= y
      /\ \E x \in heard : \A y \in heard : x >= y
  <2>1. CASE heard = {0}
    BY <2>1
  <2>2. CASE heard = {way}
    BY <2>2
  <2>3. CASE heard = {0, way}
    <3>1. CASE way = 1
      BY <2>3, <3>1
    <3>2. CASE way = -1
      BY <2>3, <3>2
    <3> QED
      BY <3>1, <3>2
  <2> QED
    BY <1>2, <2>1, <2>2, <2>3
<1>6. /\ low \in heard /\ \A y \in heard : low <= y
      /\ high \in heard /\ \A y \in heard : high >= y
  BY <1>5
<1> HIDE DEF low, high
<1>7. low \in {0, way} /\ high \in {0, way} /\ low \in Int /\ high \in Int
  BY <1>2, <1>6
<1>8. CASE way = 1
  <2>1. Mark(s, way) = high
    BY <1>4, <1>8 DEF Mark
  <2>2. high = way <=> way \in heard
    BY <1>6, <1>7, <1>8
  <2> QED
    BY <1>3, <1>4, <1>7, <2>1, <2>2 DEF Sounds, Marked, s
<1>9. CASE way = -1
  <2>1. Mark(s, way) = low
    BY <1>4, <1>9 DEF Mark
  <2>2. low = way <=> way \in heard
    BY <1>6, <1>7, <1>9
  <2> QED
    BY <1>3, <1>4, <1>7, <2>1, <2>2 DEF Sounds, Marked, s
<1> QED
  BY <1>8, <1>9

\* The pieces of some samples, one for every stride.
Pieces(n, stride) == (n + stride - 1) \div stride

PieceFrom(stride, g) == (g - 1) * stride

PieceSize(n, stride, g) == W!Earlier(stride, n - PieceFrom(stride, g))

LEMMA PieceIsInside ==
  ASSUME NEW n \in Nat, NEW stride \in Nat \ {0}, NEW g \in 1 .. Pieces(n, stride)
  PROVE  LET from == PieceFrom(stride, g)
             size == PieceSize(n, stride, g)
         IN  /\ from \in Nat /\ size \in Nat \ {0} /\ size <= stride /\ from + size <= n
             /\ W!Earlier(g * stride, n) = from + size
<1> DEFINE q == Pieces(n, stride)
           from == PieceFrom(stride, g)
<1>1. q \in Nat /\ q * stride <= n + stride - 1
  <2> DEFINE a == n + stride - 1
  <2>1. a \in Nat
    OBVIOUS
  <2>2. q = a \div stride
    BY DEF Pieces
  <2> HIDE DEF a, q
  <2>3. q \in Nat /\ q * stride <= a
    BY <2>1, <2>2, Divided
  <2> QED
    BY <2>3 DEF a
<1> HIDE DEF q
<1>2. g \in Nat \ {0} /\ g <= q /\ g - 1 \in Nat
  BY <1>1 DEF q
<1>3. g * stride <= q * stride
  BY <1>1, <1>2, TimesKeeps
<1>4. g * stride = from + stride /\ from \in Nat
  <2>1. from = (g - 1) * stride
    BY DEF PieceFrom
  <2>2. (g - 1) * stride = g * stride - stride /\ g * stride \in Nat
    BY <1>2
  <2>3. (g - 1) * stride \in Nat
    BY <1>2
  <2> QED
    BY <2>1, <2>2, <2>3
<1> HIDE DEF from
<1>5. from < n
  <2> DEFINE u == g * stride
             v == q * stride
  <2>1. u \in Int /\ v \in Int /\ u = from + stride /\ u <= v /\ v <= n + stride - 1
    BY <1>1, <1>2, <1>3, <1>4
  <2> HIDE DEF u, v
  <2> QED
    BY <1>4, <2>1
<1>6. PieceSize(n, stride, g) = W!Earlier(stride, n - from)
  BY DEF PieceSize, from
<1>7. W!Earlier(from + stride, n) = from + W!Earlier(stride, n - from)
  BY <1>4, <1>5 DEF W!Earlier
<1>8. /\ W!Earlier(stride, n - from) \in Nat \ {0}
      /\ W!Earlier(stride, n - from) <= stride
      /\ from + W!Earlier(stride, n - from) <= n
  BY <1>4, <1>5 DEF W!Earlier
<1> QED
  BY <1>4, <1>6, <1>7, <1>8 DEF from

\* Every sample is in a piece.
LEMMA PieceHolds ==
  ASSUME NEW n \in Nat, NEW stride \in Nat \ {0}, NEW k \in 1 .. n
  PROVE  \E g \in 1 .. Pieces(n, stride) :
           PieceFrom(stride, g) < k /\ k <= PieceFrom(stride, g) + PieceSize(n, stride, g)
<1> DEFINE q == Pieces(n, stride)
           d == (k - 1) \div stride
           from == d * stride
<1>1. k - 1 \in Nat /\ k \in Nat /\ k <= n
  OBVIOUS
<1>2. d \in Nat /\ d * stride <= k - 1 /\ k - 1 < (d + 1) * stride
  BY <1>1, Divided
<1>3. q \in Nat /\ n + stride - 1 < (q + 1) * stride
  <2> DEFINE a == n + stride - 1
  <2>1. a \in Nat
    OBVIOUS
  <2>2. q = a \div stride
    BY DEF Pieces
  <2> HIDE DEF a, q
  <2>3. q \in Nat /\ a < (q + 1) * stride
    BY <2>1, <2>2, Divided
  <2> QED
    BY <2>3 DEF a
<1> HIDE DEF q, d
<1>4. (d + 1) * stride = from + stride /\ from \in Nat
  BY <1>2
<1> DEFINE u == (d + 1) * stride
           v == (q + 1) * stride
<1>5. u \in Int /\ v \in Int /\ u = from + stride /\ from <= k - 1 /\ k - 1 < u
      /\ n + stride - 1 < v
  BY <1>2, <1>3, <1>4
<1>6. u < v
  <2> HIDE DEF u, v, from
  <2> QED
    BY <1>1, <1>4, <1>5
<1>7. d + 1 \in Int /\ q + 1 \in Int
  BY <1>2, <1>3
<1>8. d + 1 < q + 1
  BY <1>6, <1>7, TimesTells
<1> HIDE DEF u, v, from
<1>9. d + 1 \in 1 .. q
  BY <1>2, <1>3, <1>8
<1>10. PieceFrom(stride, d + 1) = from
  <2>1. (d + 1) - 1 = d
    BY <1>2
  <2> QED
    BY <2>1 DEF PieceFrom, from
<1>11. PieceSize(n, stride, d + 1) = W!Earlier(stride, n - from)
  BY <1>10 DEF PieceSize
<1>12. from < k /\ k <= from + W!Earlier(stride, n - from)
  BY <1>1, <1>4, <1>5 DEF W!Earlier
<1> QED
  BY <1>9, <1>10, <1>11, <1>12 DEF q

\* A block of such audio, and the clicks in it.
Block(b, way) == b.start \in Nat /\ b.samples \in Seq({0, way}) /\ b.samples # <<>>

Clicked(b, f, way) ==
  f - b.start + 1 \in 1 .. Len(b.samples) /\ b.samples[f - b.start + 1] = way

\* A run tells of a stretch of a block whether there is a click in it.
Tells(r, b, way, most) ==
  /\ Run(r, way) /\ r.frames # 0 /\ r.frames <= most
  /\ b.start <= r.at /\ r.at + r.frames <= b.start + Len(b.samples)
  /\ Marked(r.summary, way) <=> \E f \in r.at .. r.at + r.frames - 1 : Clicked(b, f, way)

\* The samples from one to another, by the frames they are of.
LEMMA StretchTells ==
  ASSUME NEW way \in {-1, 1}, NEW b, Block(b, way), NEW from \in Nat, NEW size \in Nat \ {0},
         from + size <= Len(b.samples), NEW part, part \in Seq({0, way}), Len(part) = size,
         \A k \in 1 .. size : part[k] = b.samples[from + k],
         NEW r, r.at = b.start + from, r.frames = size, r.summary = W!Summarised(part)
  PROVE  Tells(r, b, way, size)
<1> DEFINE last == r.at + r.frames - 1
<1>1. b.start \in Nat /\ b.samples \in Seq({0, way}) /\ Len(b.samples) \in Nat
  BY DEF Block
<1>2. part # <<>>
  BY EmptySeq
<1>3. Sounds(r.summary, way)
      /\ (Marked(r.summary, way) <=> \E k \in 1 .. size : part[k] = way)
  BY <1>2, SummaryMarks
<1>4. r.at \in Nat /\ r.frames \in Nat /\ last = b.start + from + size - 1 /\ last \in Nat
  BY <1>1
<1>5. ASSUME NEW k \in 1 .. size, part[k] = way
      PROVE  \E f \in r.at .. last : Clicked(b, f, way)
  <2> DEFINE f == b.start + from + k - 1
  <2>1. f \in r.at .. last /\ f - b.start + 1 = from + k /\ from + k \in 1 .. Len(b.samples)
    <3> DEFINE s == b.start
               n == Len(b.samples)
               at == r.at
    <3>1. s \in Nat /\ n \in Nat /\ at = s + from /\ last = s + from + size - 1 /\ from + size <= n
      BY <1>1, <1>4
    <3>2. f = s + from + k - 1
      OBVIOUS
    <3> HIDE DEF s, n, at, f, last
    <3>3. f \in at .. last /\ f - s + 1 = from + k /\ from + k \in 1 .. n
      BY <3>1, <3>2
    <3> QED
      BY <3>3 DEF s, n, at
  <2> HIDE DEF f, last
  <2>2. Clicked(b, f, way)
    BY <1>5, <2>1 DEF Clicked
  <2> QED
    BY <2>1, <2>2
<1>6. ASSUME NEW f \in r.at .. last, Clicked(b, f, way)
      PROVE  \E k \in 1 .. size : part[k] = way
  <2> DEFINE k == f - b.start - from + 1
  <2>1. k \in 1 .. size /\ from + k = f - b.start + 1
    <3> DEFINE s == b.start
               at == r.at
    <3>1. s \in Nat /\ at = s + from /\ last = s + from + size - 1 /\ f \in at .. last
      BY <1>1, <1>4
    <3>2. k = f - s - from + 1
      OBVIOUS
    <3> HIDE DEF s, at, k, last
    <3>3. k \in 1 .. size /\ from + k = f - s + 1
      BY <3>1, <3>2
    <3> QED
      BY <3>3 DEF s
  <2> HIDE DEF k
  <2>2. part[k] = b.samples[f - b.start + 1]
    BY <2>1
  <2> QED
    BY <1>6, <2>1, <2>2 DEF Clicked
<1>7. Run(r, way)
  BY <1>3, <1>4 DEF Run
<1>8. r.frames # 0 /\ r.frames <= size /\ b.start <= r.at
      /\ r.at + r.frames <= b.start + Len(b.samples)
  BY <1>1, <1>4
<1> QED
  BY <1>3, <1>5, <1>6, <1>7, <1>8 DEF Tells, last

\* The longest run a block is read in.
Coarse(levels, level, b) ==
  IF level = "block" \/ (level \in {"summary256", "summary64k"} /\ ~ b.stored)
  THEN Len(b.samples) ELSE W!Stride(levels, level)

LEMMA WholeTells ==
  ASSUME NEW way \in {-1, 1}, NEW b, Block(b, way)
  PROVE  Tells([at |-> b.start, frames |-> Len(b.samples), summary |-> W!Summarised(b.samples)],
               b, way, Len(b.samples))
<1> DEFINE r == [at |-> b.start, frames |-> Len(b.samples), summary |-> W!Summarised(b.samples)]
           n == Len(b.samples)
<1>1. b.samples \in Seq({0, way}) /\ n \in Nat \ {0} /\ b.start \in Nat
  BY EmptySeq DEF Block
<1>2. r.at = b.start + 0 /\ r.frames = n /\ r.summary = W!Summarised(b.samples)
  BY <1>1
<1>3. \A k \in 1 .. n : b.samples[k] = b.samples[0 + k]
  OBVIOUS
<1>4. 0 \in Nat /\ 0 + n <= n
  BY <1>1
<1> HIDE DEF r, n
<1>5. Len(b.samples) = n
  BY DEF n
<1>6. Tells(r, b, way, n)
  BY <1>1, <1>2, <1>3, <1>4, <1>5, StretchTells
<1> QED
  BY <1>6 DEF r, n

LEMMA PieceTells ==
  ASSUME NEW way \in {-1, 1}, NEW b, Block(b, way), NEW stride \in Nat \ {0},
         NEW g \in 1 .. Pieces(Len(b.samples), stride)
  PROVE  Tells([at      |-> b.start + (g - 1) * stride,
                frames  |-> W!Earlier(stride, Len(b.samples) - (g - 1) * stride),
                summary |-> W!Pyramid(b.samples, stride)[g]],
               b, way, PieceSize(Len(b.samples), stride, g))
<1> DEFINE n == Len(b.samples)
           from == PieceFrom(stride, g)
           size == PieceSize(n, stride, g)
           part == SubSeq(b.samples, from + 1, from + size)
           r == [at      |-> b.start + (g - 1) * stride,
                 frames  |-> W!Earlier(stride, Len(b.samples) - (g - 1) * stride),
                 summary |-> W!Pyramid(b.samples, stride)[g]]
<1>1. b.samples \in Seq({0, way}) /\ n \in Nat
  BY DEF Block
<1>2. /\ from \in Nat /\ size \in Nat \ {0} /\ size <= stride /\ from + size <= n
      /\ W!Earlier(g * stride, n) = from + size
  BY <1>1, PieceIsInside
<1>3. W!Pyramid(b.samples, stride)[g] = W!Summarised(part)
  <2>1. g \in 1 .. (Len(b.samples) + stride - 1) \div stride
    BY DEF Pieces
  <2>2. (g - 1) * stride + 1 = from + 1
    BY DEF PieceFrom
  <2>3. W!Earlier(g * stride, Len(b.samples)) = from + size
    BY <1>2
  <2> HIDE DEF from, size
  <2> QED
    BY <2>1, <2>2, <2>3 DEF W!Pyramid
<1>4. r.at = b.start + from /\ r.frames = size /\ r.summary = W!Summarised(part)
  BY <1>3 DEF PieceFrom, PieceSize
<1> HIDE DEF from, size, r
<1>5. /\ part \in Seq({0, way}) /\ Len(part) = size
      /\ \A k \in 1 .. size : part[k] = b.samples[from + k]
  <2> DEFINE lo == from + 1
             hi == from + size
  <2>1. lo \in Int /\ hi \in Int /\ lo <= hi /\ hi - lo + 1 = size
    BY <1>2
  <2>2. \A k \in lo .. hi : b.samples[k] \in {0, way}
    BY <1>1, <1>2
  <2>3. \A k \in 1 .. size : lo + k - 1 = from + k
    BY <1>2
  <2> HIDE DEF lo, hi
  <2>4. /\ SubSeq(b.samples, lo, hi) \in Seq({0, way})
        /\ Len(SubSeq(b.samples, lo, hi)) = size
        /\ \A k \in 1 .. size : SubSeq(b.samples, lo, hi)[k] = b.samples[lo + k - 1]
    BY <2>1, <2>2, SubSeqProperties
  <2> QED
    BY <2>3, <2>4 DEF lo, hi
<1> HIDE DEF part, n
<1>6. from + size <= Len(b.samples)
  BY <1>2 DEF n
<1>7. Tells(r, b, way, size)
  BY <1>2, <1>4, <1>5, <1>6, StretchTells
<1> QED
  BY <1>7 DEF r, size, n

\* Every run of a block tells of it, and every frame of the block is in one.
LEMMA RunsTell ==
  ASSUME NEW way \in {-1, 1}, NEW b, Block(b, way), NEW levels, NEW level,
         Coarse(levels, level, b) \in Nat \ {0}
  PROVE  LET runs == W!RunsOf(levels, level, b)
         IN  /\ Len(runs) \in Nat
             /\ \A k \in 1 .. Len(runs) : Tells(runs[k], b, way, Coarse(levels, level, b))
             /\ \A f \in b.start .. b.start + Len(b.samples) - 1 :
                  \E k \in 1 .. Len(runs) :
                    runs[k].at <= f /\ f < runs[k].at + runs[k].frames
<1> DEFINE runs == W!RunsOf(levels, level, b)
           n == Len(b.samples)
           whole == [at |-> b.start, frames |-> n, summary |-> W!Summarised(b.samples)]
           stride == W!Stride(levels, level)
           q == Pieces(n, stride)
           piece(i) == [at      |-> b.start + (i - 1) * stride,
                        frames  |-> W!Earlier(stride, n - (i - 1) * stride),
                        summary |-> W!Pyramid(b.samples, stride)[i]]
<1>1. b.start \in Nat /\ n \in Nat \ {0}
  BY EmptySeq DEF Block
<1>2. CASE level = "block" \/ (level \in {"summary256", "summary64k"} /\ ~ b.stored)
  <2>1. runs = <<whole>> /\ Coarse(levels, level, b) = n
    BY <1>2 DEF W!RunsOf, Coarse
  <2>2. Tells(whole, b, way, n)
    BY WholeTells
  <2>3. whole.at = b.start /\ whole.frames = n
    OBVIOUS
  <2> HIDE DEF runs, whole, n
  <2>4. Len(runs) = 1 /\ runs[1] = whole
    BY <2>1
  <2>5. \A f \in b.start .. b.start + n - 1 : whole.at <= f /\ f < whole.at + whole.frames
    BY <1>1, <2>3
  <2>6. 1 .. Len(runs) = {1}
    BY <2>4
  <2>7. Len(runs) \in Nat
    BY <2>4
  <2>8. \A k \in 1 .. Len(runs) : Tells(runs[k], b, way, Coarse(levels, level, b))
    BY <2>1, <2>2, <2>4, <2>6
  <2>9. \A f \in b.start .. b.start + n - 1 :
          \E k \in 1 .. Len(runs) : runs[k].at <= f /\ f < runs[k].at + runs[k].frames
    BY <2>4, <2>5, <2>6
  <2> QED
    BY <2>7, <2>8, <2>9 DEF runs, n
<1>3. CASE ~ (level = "block" \/ (level \in {"summary256", "summary64k"} /\ ~ b.stored))
  <2>1. Coarse(levels, level, b) = stride
    BY <1>3 DEF Coarse
  <2>2. stride \in Nat \ {0} /\ q \in Nat
    <3>1. stride \in Nat \ {0}
      BY <2>1
    <3>2. n + stride - 1 \in Nat
      BY <1>1, <3>1
    <3> HIDE DEF n, stride
    <3> QED
      BY <3>1, <3>2 DEF Pieces
  <2>3. runs = [i \in 1 .. q |-> piece(i)]
    <3>1. DOMAIN W!Pyramid(b.samples, stride) = 1 .. q
      BY DEF W!Pyramid, Pieces
    <3> QED
      BY <1>3, <3>1 DEF W!RunsOf
  <2>4. Len(runs) = q
    <3> HIDE DEF q, piece
    <3> QED
      BY <2>2, <2>3
  <2>5. ASSUME NEW k \in 1 .. q
        PROVE  /\ Tells(runs[k], b, way, stride)
               /\ runs[k].at = b.start + PieceFrom(stride, k)
               /\ runs[k].frames = PieceSize(n, stride, k)
    <3>1. Tells(piece(k), b, way, PieceSize(n, stride, k))
      BY <2>2, PieceTells
    <3>2. PieceSize(n, stride, k) \in Nat /\ PieceSize(n, stride, k) <= stride
      BY <1>1, <2>2, PieceIsInside
    <3>3. piece(k).at = b.start + PieceFrom(stride, k) /\ piece(k).frames = PieceSize(n, stride, k)
      BY DEF PieceFrom, PieceSize
    <3>4. runs[k] = piece(k)
      BY <2>3
    <3> HIDE DEF runs, piece, stride, n, q
    <3>5. Tells(piece(k), b, way, stride)
      BY <2>2, <3>1, <3>2 DEF Tells, Run
    <3> QED
      BY <3>3, <3>4, <3>5
  <2> HIDE DEF runs, piece, stride
  <2>6. ASSUME NEW f \in b.start .. b.start + n - 1
        PROVE  \E k \in 1 .. q : runs[k].at <= f /\ f < runs[k].at + runs[k].frames
    <3>1. f - b.start + 1 \in 1 .. n
      <4> HIDE DEF n
      <4> QED
        BY <1>1
    <3>2. PICK k \in 1 .. q :
            /\ PieceFrom(stride, k) < f - b.start + 1
            /\ f - b.start + 1 <= PieceFrom(stride, k) + PieceSize(n, stride, k)
      BY <1>1, <2>2, <3>1, PieceHolds
    <3>3. PieceFrom(stride, k) \in Nat /\ PieceSize(n, stride, k) \in Nat
      BY <1>1, <2>2, PieceIsInside
    <3> HIDE DEF n, q
    <3>4. runs[k].at <= f /\ f < runs[k].at + runs[k].frames
      BY <1>1, <2>5, <3>2, <3>3
    <3> QED
      BY <3>4
  <2>7. Len(runs) \in Nat
    BY <2>2, <2>4
  <2>8. \A k \in 1 .. Len(runs) : Tells(runs[k], b, way, Coarse(levels, level, b))
    BY <2>1, <2>4, <2>5
  <2>9. \A f \in b.start .. b.start + n - 1 :
          \E k \in 1 .. Len(runs) : runs[k].at <= f /\ f < runs[k].at + runs[k].frames
    BY <2>4, <2>6
  <2> QED
    BY <2>7, <2>8, <2>9 DEF runs
<1> QED
  BY <1>2, <1>3

(***************************************************************************)
(* A reading shows every click that was asked for, in the column of its    *)
(* frame or the next one, and shows none from further away than the        *)
(* longest run, of any blocks and any number of clicks.                    *)
(***************************************************************************)
LEMMA ReadingShows ==
  ASSUME NEW request, Drawable(request), NEW way \in {-1, 1}, NEW levels, NEW level,
         NEW blocks, Len(blocks) \in Nat, NEW most \in Nat,
         \A b \in 1 .. Len(blocks) :
           /\ Block(blocks[b], way)
           /\ Coarse(levels, level, blocks[b]) \in Nat \ {0}
           /\ Coarse(levels, level, blocks[b]) <= most,
         most = 1 \/ request.pixels <= request.end - request.start
  PROVE  LET columns == W!ReadAt(levels, blocks, request, level).columns
         IN  /\ columns = [c \in 0 .. request.pixels - 1 |-> columns[c]]
             /\ \A b \in 1 .. Len(blocks), f \in request.start .. request.end - 1 :
                  Clicked(blocks[b], f, way) =>
                    \E d \in {W!ColumnOf(request, f), W!ColumnOf(request, f) + 1}
                               \cap (0 .. request.pixels - 1) : Marked(columns[d], way)
             /\ \A c \in 0 .. request.pixels - 1 :
                  Marked(columns[c], way) =>
                    \E b \in 1 .. Len(blocks), f \in Nat :
                      /\ Clicked(blocks[b], f, way)
                      /\ W!FrameOf(request, c) - f < most
                      /\ f - W!FrameOf(request, c + 1) < most
<1> DEFINE painter == W!ReadAt(levels, blocks, request, level)
           runs == RunsIn(levels, level, blocks, request, Len(blocks))
           of(b) == W!RunsOf(levels, level, blocks[b])
           p == request.pixels
<1>1. ASSUME NEW b \in 1 .. Len(blocks)
      PROVE  /\ Len(of(b)) \in Nat
             /\ \A k \in 1 .. Len(of(b)) : Tells(of(b)[k], blocks[b], way, most)
             /\ \A f \in blocks[b].start .. blocks[b].start + Len(blocks[b].samples) - 1 :
                  \E k \in 1 .. Len(of(b)) :
                    of(b)[k].at <= f /\ f < of(b)[k].at + of(b)[k].frames
  <2> DEFINE coarse == Coarse(levels, level, blocks[b])
             these == of(b)
  <2>1. Block(blocks[b], way) /\ coarse \in Nat \ {0} /\ coarse <= most
    OBVIOUS
  <2>2. /\ Len(these) \in Nat
        /\ \A k \in 1 .. Len(these) : Tells(these[k], blocks[b], way, coarse)
        /\ \A f \in blocks[b].start .. blocks[b].start + Len(blocks[b].samples) - 1 :
             \E k \in 1 .. Len(these) : these[k].at <= f /\ f < these[k].at + these[k].frames
    BY <2>1, RunsTell
  <2> HIDE DEF coarse, these
  <2>3. \A k \in 1 .. Len(these) : Tells(these[k], blocks[b], way, most)
    BY <2>1, <2>2 DEF Tells, Run
  <2> QED
    BY <2>2, <2>3 DEF these
<1>2. Painted(painter, request, way, runs)
  <2>1. \A b \in 1 .. Len(blocks) :
          Len(of(b)) \in Nat /\ \A k \in 1 .. Len(of(b)) : Run(of(b)[k], way)
    BY <1>1 DEF Tells
  <2> QED
    BY <2>1, ReadPaints
<1> HIDE DEF painter
<1>3. ASSUME NEW b \in 1 .. Len(blocks), NEW f \in request.start .. request.end - 1,
             Clicked(blocks[b], f, way)
      PROVE  \E d \in {W!ColumnOf(request, f), W!ColumnOf(request, f) + 1} \cap (0 .. p - 1) :
               Marked(painter.columns[d], way)
  <2> DEFINE block == blocks[b]
  <2>1. block.start \in Nat /\ Len(block.samples) \in Nat
    BY DEF Block
  <2>2. request.start \in Nat /\ request.end \in Nat
    BY DEF Drawable
  <2> DEFINE from == request.start
             to   == request.end
             s    == block.start
             n    == Len(block.samples)
  <2>3. from \in Nat /\ to \in Nat /\ s \in Nat /\ n \in Nat /\ f \in from .. to - 1
    BY <2>1, <2>2
  <2>4. f - s + 1 \in 1 .. n
    BY <1>3 DEF Clicked
  <2>5. f \in Nat /\ from <= f /\ f < to /\ s <= f /\ f < s + n
    <3> HIDE DEF from, to, s, n
    <3> QED
      BY <2>3, <2>4
  <2>6. f \in block.start .. block.start + Len(block.samples) - 1
    <3> HIDE DEF block
    <3> QED
      BY <2>1, <2>5
  <2>7. PICK k \in 1 .. Len(of(b)) : of(b)[k].at <= f /\ f < of(b)[k].at + of(b)[k].frames
    BY <1>1, <2>6
  <2> DEFINE r == of(b)[k]
             lo == Opens(request, r)
             hi == Closes(request, r)
  <2>8. Tells(r, block, way, most)
    BY <1>1
  <2>9. W!Asked(request, block)
    <3>1. s < to /\ s + n > from
      <4> HIDE DEF from, to, s, n
      <4> QED
        BY <2>3, <2>5
    <3> QED
      BY <3>1 DEF W!Asked
  <2>10. r \in runs
    <3> DEFINE x == <<b, k>>
    <3>1. Len(of(b)) \in Nat
      BY <1>1
    <3>2. x \in (1 .. Len(blocks)) \X Nat /\ x[1] = b /\ x[2] = k
      BY <3>1
    <3> HIDE DEF x
    <3> QED
      BY <2>9, <3>2 DEF RunsIn
  <2> HIDE DEF r, block
  <2>11. r.at \in Nat /\ r.frames \in Nat /\ r.at <= f /\ f < r.at + r.frames /\ r.frames <= most
    BY <2>7, <2>8 DEF Tells, Run, r
  <2>12. Marked(r.summary, way)
    <3>1. f \in r.at .. r.at + r.frames - 1
      BY <2>2, <2>11
    <3> QED
      BY <1>3, <2>8, <3>1 DEF Tells, block
  <2>13. lo \in Nat /\ hi \in Nat /\ lo <= f /\ f < hi /\ r.at <= lo /\ hi <= r.at + r.frames
    <3> DEFINE at == r.at
               end == r.at + r.frames
    <3>1. at \in Nat /\ end \in Nat /\ at <= f /\ f < end
      BY <2>11
    <3>2. lo = W!Later(at, from) /\ hi = W!Earlier(end, to)
      BY DEF Opens, Closes
    <3> HIDE DEF at, end, from, to, lo, hi
    <3>3. lo \in Nat /\ hi \in Nat /\ lo <= f /\ f < hi /\ at <= lo /\ hi <= end
      BY <2>3, <2>5, <3>1, <3>2 DEF W!Later, W!Earlier
    <3> QED
      BY <3>3 DEF at, end
  <2>14. Clipped(request, lo, hi)
    BY <2>8, <2>13, ClosesClips DEF Tells
  <2>15. hi = lo + 1 \/ p <= request.end - request.start
    <3> HIDE DEF lo, hi
    <3> QED
      BY <2>11, <2>13
  <2>16. PICK d \in {W!ColumnOf(request, f), W!ColumnOf(request, f) + 1} \cap (0 .. p - 1) :
           W!Share(request, d, lo, hi) > 0
    <3>1. f \in Nat
      BY <2>2
    <3> HIDE DEF lo, hi
    <3> QED
      BY <2>13, <2>14, <2>15, <3>1, ShareShows
  <2>17. Gives(request, d, r)
    <3>1. lo < hi
      <4> HIDE DEF lo, hi
      <4> QED
        BY <2>2, <2>13
    <3> QED
      BY <2>16, <3>1 DEF Gives
  <2>18. Marked(painter.columns[d], way)
    BY <1>2, <2>10, <2>12, <2>16, <2>17 DEF Painted
  <2> QED
    BY <2>16, <2>18
<1>4. ASSUME NEW c \in 0 .. p - 1, Marked(painter.columns[c], way)
      PROVE  \E b \in 1 .. Len(blocks), f \in Nat :
               /\ Clicked(blocks[b], f, way)
               /\ W!FrameOf(request, c) - f < most /\ f - W!FrameOf(request, c + 1) < most
  <2>1. PICK r \in runs : Gives(request, c, r) /\ Marked(r.summary, way)
    BY <1>2, <1>4 DEF Painted
  <2>2. PICK b \in 1 .. Len(blocks), k \in Nat : k \in 1 .. Len(of(b)) /\ r = of(b)[k]
    BY DEF RunsIn
  <2>3. Tells(r, blocks[b], way, most)
    BY <1>1, <2>2
  <2> HIDE DEF runs, of
  <2>4. PICK f \in r.at .. r.at + r.frames - 1 : Clicked(blocks[b], f, way)
    BY <2>1, <2>3 DEF Tells
  <2> DEFINE lo == Opens(request, r)
             hi == Closes(request, r)
             low == W!FrameOf(request, c)
             high == W!FrameOf(request, c + 1)
  <2>5. r.at \in Nat /\ r.frames \in Nat /\ r.frames <= most
    BY <2>3 DEF Tells, Run
  <2>6. Clipped(request, lo, hi)
    BY <2>1, <2>3, ClosesClips DEF Tells, Gives
  <2>7. low < hi /\ lo <= high
    BY <2>1, <2>6, ShareReaches DEF Gives
  <2>8. c \in Nat /\ c + 1 \in Nat
    BY DEF Drawable
  <2>9. low \in Nat /\ high \in Nat
    BY <2>8, FrameIs
  <2>10. lo \in Nat /\ hi \in Nat /\ r.at <= lo /\ hi <= r.at + r.frames
    BY <2>5, OpensCloses
  <2> HIDE DEF lo, hi, low, high
  <2>11. low - f < most /\ f - high < most /\ f \in Nat
    BY <2>4, <2>5, <2>7, <2>9, <2>10
  <2> QED
    BY <2>4, <2>11 DEF low, high
<1>5. painter.columns = [c \in 0 .. p - 1 |-> painter.columns[c]]
  BY <1>2 DEF Painted
<1> QED
  BY <1>3, <1>4, <1>5 DEF painter

\* A level that is read in pieces leaves no pixel without a frame.
LEMMA ChoiceFits ==
  ASSUME NEW request, Drawable(request), NEW levels,
         levels.block \in Nat, levels.summary64k \in Nat, levels.summary256 \in Nat
  PROVE  LET level == W!Choose(levels, request)
         IN  /\ level \in {"block", "summary64k", "summary256", "samples"}
             /\ level # "samples" => /\ levels[level] \in Nat \ {0}
                                     /\ request.pixels <= request.end - request.start
<1> DEFINE level == W!Choose(levels, request)
           wide == request.end - request.start
           p == request.pixels
<1>1. W!Wide(request) = wide /\ wide \in Nat /\ p \in Nat \ {0}
  BY DEF Drawable, W!Wide, W!Later
<1>2. ASSUME NEW stride \in Nat, stride > 0, stride * p <= W!Wide(request)
      PROVE  stride \in Nat \ {0} /\ p <= wide
  <2>1. stride * p <= wide
    BY <1>1, <1>2
  <2>2. 1 <= stride /\ 1 \in Int /\ stride \in Int /\ stride * p \in Int
    BY <1>1, <1>2
  <2>3. 1 * p <= stride * p
    <3> HIDE DEF p
    <3> QED
      BY <1>1, <2>2, TimesKeeps
  <2>4. 1 * p = p
    BY <1>1
  <2> HIDE DEF p, wide
  <2> QED
    BY <1>1, <1>2, <2>1, <2>2, <2>3, <2>4
<1>3. CASE levels.block > 0 /\ levels.block * p <= W!Wide(request)
  <2>1. level = "block"
    BY <1>3 DEF W!Choose
  <2> QED
    BY <1>2, <1>3, <2>1
<1>4. CASE /\ ~ (levels.block > 0 /\ levels.block * p <= W!Wide(request))
           /\ levels.summary64k > 0 /\ levels.summary64k * p <= W!Wide(request)
  <2>1. level = "summary64k"
    BY <1>4 DEF W!Choose
  <2> QED
    BY <1>2, <1>4, <2>1
<1>5. CASE /\ ~ (levels.block > 0 /\ levels.block * p <= W!Wide(request))
           /\ ~ (levels.summary64k > 0 /\ levels.summary64k * p <= W!Wide(request))
           /\ levels.summary256 > 0 /\ levels.summary256 * p <= W!Wide(request)
  <2>1. level = "summary256"
    BY <1>5 DEF W!Choose
  <2> QED
    BY <1>2, <1>5, <2>1
<1>6. CASE /\ ~ (levels.block > 0 /\ levels.block * p <= W!Wide(request))
           /\ ~ (levels.summary64k > 0 /\ levels.summary64k * p <= W!Wide(request))
           /\ ~ (levels.summary256 > 0 /\ levels.summary256 * p <= W!Wide(request))
  <2>1. level = "samples"
    BY <1>6 DEF W!Choose
  <2> QED
    BY <2>1
<1> QED
  BY <1>3, <1>4, <1>5, <1>6

\* The side of the bounded inputs: blocks of four, and the one frame that is not silent.
OneClick(blocks, n, at, way, stored) ==
  /\ Len(blocks) \in Nat
  /\ \A b \in 1 .. Len(blocks) :
       /\ Block(blocks[b], way) /\ Len(blocks[b].samples) <= 4
       /\ blocks[b].stored = stored
       /\ \A f \in Nat : Clicked(blocks[b], f, way) => f = at /\ at < n
  /\ at < n => \E b \in 1 .. Len(blocks) : Clicked(blocks[b], at, way)

LEMMA DrawnClicks ==
  ASSUME NEW n \in Nat \ {0}, NEW at \in Nat, NEW way \in {-1, 1}, NEW stored
  PROVE  OneClick(Drawn(Loud(n, at, way), stored), n, at, way, stored)
<1> DEFINE sound == Loud(n, at, way)
           blocks == Drawn(sound, stored)
           q == Pieces(n, 4)
           from(b) == PieceFrom(4, b)
           size(b) == PieceSize(n, 4, b)
<1>1. /\ sound \in Seq({0, way}) /\ Len(sound) = n
      /\ \A k \in 1 .. n : sound[k] = IF k - 1 = at THEN way ELSE 0
  <2>1. sound = [k \in 1 .. n |-> IF k - 1 = at THEN way ELSE 0]
    BY DEF Loud
  <2> HIDE DEF sound
  <2> QED
    BY <2>1
<1>2. q \in Nat
  <2>1. n + 4 - 1 \in Nat
    OBVIOUS
  <2> QED
    BY <2>1 DEF Pieces
<1>3. blocks = [b \in 1 .. q |->
                  [start   |-> 4 * (b - 1),
                   samples |-> SubSeq(sound, 4 * (b - 1) + 1, W!Earlier(4 * b, n)),
                   stored  |-> stored]]
  <2>1. (n + 3) \div 4 = q
    <3>1. n + 4 - 1 = n + 3
      OBVIOUS
    <3> QED
      BY <3>1 DEF Pieces
  <2> QED
    BY <1>1, <2>1 DEF Drawn
<1> HIDE DEF sound, q, blocks
<1>4. Len(blocks) = q
  BY <1>2, <1>3
<1>5. ASSUME NEW b \in 1 .. q
      PROVE  /\ from(b) \in Nat /\ size(b) \in Nat \ {0} /\ size(b) <= 4 /\ from(b) + size(b) <= n
             /\ blocks[b].start = from(b) /\ blocks[b].stored = stored
             /\ blocks[b].samples \in Seq({0, way}) /\ Len(blocks[b].samples) = size(b)
             /\ \A k \in 1 .. size(b) : blocks[b].samples[k] = sound[from(b) + k]
  <2>1. /\ from(b) \in Nat /\ size(b) \in Nat \ {0} /\ size(b) <= 4 /\ from(b) + size(b) <= n
        /\ W!Earlier(b * 4, n) = from(b) + size(b)
    <3>1. 4 \in Nat \ {0} /\ n \in Nat /\ b \in 1 .. Pieces(n, 4)
      BY DEF q
    <3> QED
      BY <3>1, PieceIsInside
  <2>2. 4 * (b - 1) = from(b) /\ 4 * b = b * 4
    BY <1>2 DEF PieceFrom
  <2> DEFINE lo == from(b) + 1
             hi == from(b) + size(b)
  <2>3. blocks[b] = [start |-> from(b), samples |-> SubSeq(sound, lo, hi), stored |-> stored]
    BY <1>3, <2>1, <2>2
  <2> HIDE DEF from, size
  <2>4. lo \in Int /\ hi \in Int /\ lo <= hi /\ hi - lo + 1 = size(b)
        /\ \A k \in 1 .. size(b) : lo + k - 1 = from(b) + k
    BY <2>1
  <2>5. \A k \in lo .. hi : sound[k] \in {0, way}
    BY <1>1, <2>1
  <2> HIDE DEF lo, hi
  <2>6. /\ SubSeq(sound, lo, hi) \in Seq({0, way}) /\ Len(SubSeq(sound, lo, hi)) = size(b)
        /\ \A k \in 1 .. size(b) : SubSeq(sound, lo, hi)[k] = sound[lo + k - 1]
    BY <2>4, <2>5, SubSeqProperties
  <2> QED
    BY <2>1, <2>3, <2>4, <2>6
<1> HIDE DEF from, size
<1>6. ASSUME NEW b \in 1 .. q
      PROVE  /\ Block(blocks[b], way) /\ Len(blocks[b].samples) <= 4
             /\ blocks[b].stored = stored
  <2>1. blocks[b].samples # <<>>
    BY <1>5, EmptySeq
  <2> QED
    BY <1>5, <2>1 DEF Block
<1>7. ASSUME NEW b \in 1 .. q, NEW f \in Nat, Clicked(blocks[b], f, way)
      PROVE  f = at /\ at < n
  <2> DEFINE k == f - from(b) + 1
  <2>1. k \in 1 .. size(b) /\ blocks[b].samples[k] = way
    BY <1>5, <1>7 DEF Clicked
  <2>2. from(b) \in Nat /\ size(b) \in Nat /\ from(b) + size(b) <= n
    BY <1>5
  <2>3. sound[from(b) + k] = way
    BY <1>5, <2>1
  <2>4. from(b) + k = f + 1 /\ f + 1 \in 1 .. n
    BY <2>1, <2>2
  <2> HIDE DEF k
  <2>5. sound[f + 1] = IF f = at THEN way ELSE 0
    <3>1. (f + 1) - 1 = f
      OBVIOUS
    <3> QED
      BY <1>1, <2>4, <3>1
  <2>6. f = at
    BY <2>3, <2>4, <2>5
  <2> QED
    BY <2>4, <2>6
<1>8. ASSUME at < n
      PROVE  \E b \in 1 .. q : Clicked(blocks[b], at, way)
  <2>1. at + 1 \in 1 .. n
    BY <1>8
  <2>2. PICK b \in 1 .. q : from(b) < at + 1 /\ at + 1 <= from(b) + size(b)
    <3>1. 4 \in Nat \ {0} /\ n \in Nat
      OBVIOUS
    <3> QED
      BY <2>1, <3>1, PieceHolds DEF q, from, size
  <2>3. /\ from(b) \in Nat /\ size(b) \in Nat /\ blocks[b].start = from(b)
        /\ Len(blocks[b].samples) = size(b)
    BY <1>5
  <2> DEFINE k == at - from(b) + 1
  <2>4. k \in 1 .. size(b) /\ from(b) + k = at + 1
    BY <2>2, <2>3
  <2>5. sound[at + 1] = way
    <3>1. (at + 1) - 1 = at
      OBVIOUS
    <3> QED
      BY <1>1, <2>1, <3>1
  <2>6. at - blocks[b].start + 1 = k
    BY <2>3
  <2> HIDE DEF k
  <2>7. blocks[b].samples[k] = way
    BY <1>5, <2>4, <2>5
  <2> QED
    BY <2>3, <2>4, <2>6, <2>7 DEF Clicked
<1> QED
  BY <1>2, <1>4, <1>6, <1>7, <1>8 DEF OneClick, blocks, sound

(***************************************************************************)
(* What is drawn shows the click of the side, by its frame and by no frame *)
(* further away than what it was read in; the lemma says it of any blocks, *)
(* any clicks one way and any request.                                     *)
(* signal/waveform.rs:345-424.                                             *)
(***************************************************************************)
THEOREM ClicksAreDrawn == Spec => []ClickIsDrawn
<1>1. EvaluationInv => ClickIsDrawn
  <2> SUFFICES ASSUME EvaluationInv, Done("drawing"), input[1].request.pixels > 0
               PROVE  ClickIsDrawn
    BY DEF ClickIsDrawn
  <2> DEFINE i == input[1]
             request == i.request
             way == i.way
             levels == i.levels
             blocks == Drawn(Loud(i.frames, i.at, way), i.stored)
             level == W!Choose(levels, request)
             reach == W!Stride(levels, IF i.stored \/ level = "samples" THEN level ELSE "block")
             most == IF reach = 0 THEN 4 ELSE reach
             columns == W!ReadAt(levels, blocks, request, level).columns
  <2>1. i \in DrawInputs /\ output[1].columns = columns
    BY DoneIsEvaluated DEF Inputs, Evaluated, W!Read
  <2>2. /\ i.frames \in {8, 11} /\ i.at \in 0 .. 10 /\ way \in {-1, 1}
        /\ i.stored \in BOOLEAN
        /\ levels \in {[block |-> 4, summary64k |-> 3, summary256 |-> 2],
                       [block |-> 0, summary64k |-> 3, summary256 |-> 2]}
        /\ request.start \in {0, 1, 3} /\ request.end \in {8, 11, 15} /\ request.pixels \in 0 .. 6
    BY <2>1 DEF DrawInputs
  <2>3. Drawable(request)
    <3>1. request.start \in Nat /\ request.end \in Nat /\ request.start < request.end
      BY <2>2
    <3>2. request.pixels \in Nat \ {0}
      BY <2>2
    <3> QED
      BY <3>1, <3>2 DEF Drawable
  <2>4. /\ levels["block"] \in {0, 4} /\ levels["summary64k"] = 3 /\ levels["summary256"] = 2
        /\ levels.block \in Nat /\ levels.summary64k \in Nat /\ levels.summary256 \in Nat
    <3>1. CASE levels = [block |-> 4, summary64k |-> 3, summary256 |-> 2]
      BY <3>1
    <3>2. CASE levels = [block |-> 0, summary64k |-> 3, summary256 |-> 2]
      BY <3>2
    <3> QED
      BY <2>2, <3>1, <3>2
  <2>5. /\ i.frames \in Nat \ {0} /\ i.at \in Nat
    BY <2>2
  <2> HIDE DEF i, request, levels, blocks, level, way, columns
  <2>6. /\ Len(blocks) \in Nat
        /\ \A b \in 1 .. Len(blocks) :
             /\ Block(blocks[b], way) /\ Len(blocks[b].samples) <= 4
             /\ blocks[b].stored = i.stored
             /\ \A f \in Nat : Clicked(blocks[b], f, way) => f = i.at /\ i.at < i.frames
        /\ i.at < i.frames => \E b \in 1 .. Len(blocks) : Clicked(blocks[b], i.at, way)
    <3>1. OneClick(blocks, i.frames, i.at, way, i.stored)
      BY <2>2, <2>5, DrawnClicks DEF blocks
    <3> QED
      BY <3>1 DEF OneClick
  <2>7. /\ level \in {"block", "summary64k", "summary256", "samples"}
        /\ level # "samples" => /\ levels[level] \in Nat \ {0}
                                /\ request.pixels <= request.end - request.start
    BY <2>3, <2>4, ChoiceFits DEF level
  <2>8. /\ reach \in {0, 1, 2, 3, 4} /\ most \in Nat
        /\ most = 1 \/ request.pixels <= request.end - request.start
    <3>1. CASE level = "samples"
      <4>1. reach = 1
        BY <3>1 DEF W!Stride
      <4> QED
        BY <4>1
    <3>2. CASE level # "samples"
      <4>1. reach = levels[IF i.stored THEN level ELSE "block"]
        BY <3>2 DEF W!Stride
      <4>2. reach \in {0, 2, 3, 4}
        BY <2>4, <2>7, <3>2, <4>1
      <4> HIDE DEF reach
      <4> QED
        BY <2>7, <3>2, <4>2
    <3> QED
      BY <3>1, <3>2
  <2>9. ASSUME NEW b \in 1 .. Len(blocks)
        PROVE  /\ Coarse(levels, level, blocks[b]) \in Nat \ {0}
               /\ Coarse(levels, level, blocks[b]) <= most
    <3> DEFINE block == blocks[b]
               coarse == Coarse(levels, level, block)
               n == Len(block.samples)
    <3>1. n \in Nat \ {0} /\ n <= 4 /\ block.stored = i.stored
      <4>1. Block(block, way) /\ n <= 4 /\ block.stored = i.stored
        BY <2>6
      <4>2. block.samples \in Seq({0, way}) /\ block.samples # <<>>
        BY <4>1 DEF Block
      <4>3. n \in Nat \ {0}
        BY <4>2, EmptySeq
      <4> QED
        BY <4>1, <4>3
    <3> HIDE DEF block, n
    <3>2. CASE level = "samples"
      <4>1. coarse = 1 /\ reach = 1
        BY <3>2 DEF Coarse, W!Stride
      <4> HIDE DEF coarse, reach
      <4> QED
        BY <4>1 DEF coarse, block
    <3>3. CASE level # "samples" /\ (level = "block" \/ ~ i.stored)
      <4>1. coarse = n
        BY <2>7, <3>1, <3>3 DEF Coarse, n
      <4>2. reach = levels["block"]
        BY <3>3 DEF W!Stride
      <4> HIDE DEF coarse, reach
      <4>3. coarse \in Nat \ {0} /\ coarse <= most
        BY <2>4, <3>1, <4>1, <4>2
      <4> QED
        BY <4>3 DEF coarse, block, reach
    <3>4. CASE level # "samples" /\ level # "block" /\ i.stored
      <4>1. coarse = levels[level]
        BY <3>1, <3>4 DEF Coarse, W!Stride
      <4>2. reach = levels[level]
        BY <3>4 DEF W!Stride
      <4>3. levels[level] \in {2, 3}
        BY <2>4, <2>7, <3>4
      <4> HIDE DEF coarse, reach
      <4>4. coarse \in Nat \ {0} /\ coarse <= most
        BY <4>1, <4>2, <4>3
      <4> QED
        BY <4>4 DEF coarse, block, reach
    <3>5. i.stored \in BOOLEAN
      BY <2>2
    <3> QED
      BY <3>2, <3>3, <3>4
  <2> HIDE DEF most
  <2>10. /\ columns = [c \in 0 .. request.pixels - 1 |-> columns[c]]
         /\ \A b \in 1 .. Len(blocks), f \in request.start .. request.end - 1 :
              Clicked(blocks[b], f, way) =>
                \E d \in {W!ColumnOf(request, f), W!ColumnOf(request, f) + 1}
                           \cap (0 .. request.pixels - 1) : Marked(columns[d], way)
         /\ \A c \in 0 .. request.pixels - 1 :
              Marked(columns[c], way) =>
                \E b \in 1 .. Len(blocks), f \in Nat :
                  /\ Clicked(blocks[b], f, way)
                  /\ W!FrameOf(request, c) - f < most
                  /\ f - W!FrameOf(request, c + 1) < most
    BY <2>2, <2>3, <2>6, <2>8, <2>9, ReadingShows DEF columns
  <2>11. DOMAIN columns = 0 .. request.pixels - 1
    <3> DEFINE all == 0 .. request.pixels - 1
    <3>1. columns = [c \in all |-> columns[c]]
      BY <2>10
    <3> HIDE DEF all
    <3>2. DOMAIN columns = all
      BY <3>1
    <3> QED
      BY <3>2 DEF all
  <2>12. ASSUME i.at < i.frames, i.at \in request.start .. request.end - 1
         PROVE  \E d \in {W!ColumnOf(request, i.at), W!ColumnOf(request, i.at) + 1}
                           \cap DOMAIN columns : Marked(columns[d], way)
    BY <2>6, <2>10, <2>11, <2>12
  <2>13. ASSUME NEW c \in DOMAIN columns, Marked(columns[c], way)
         PROVE  /\ i.at < i.frames /\ W!FrameOf(request, c) - i.at < most
                /\ i.at - W!FrameOf(request, c + 1) < most
    <3>1. PICK b \in 1 .. Len(blocks), f \in Nat :
            /\ Clicked(blocks[b], f, way)
            /\ W!FrameOf(request, c) - f < most /\ f - W!FrameOf(request, c + 1) < most
      BY <2>10, <2>11, <2>13
    <3>2. f = i.at /\ i.at < i.frames
      BY <2>6, <3>1
    <3> QED
      BY <3>1, <3>2
  <2> QED
    BY <2>1, <2>12, <2>13
    DEF ClickIsDrawn, Marked, Mark, most, level, i, request, way, levels
<1> QED
  BY <1>1, OutputsAreEvaluated, PTL

----------------------------------------------------------------------------
(* Releases and genres.                                                    *)

\* Those of a sequence that are wanted, as far as the n-th.
Upto(f, seq, wanted, m) ==
  f = [n \in 0 .. m |->
         IF n = 0 THEN <<>>
         ELSE IF seq[n] \in wanted THEN Append(f[n - 1], seq[n]) ELSE f[n - 1]]

LEMMA UptoExist ==
  ASSUME NEW seq, NEW wanted, NEW most \in Nat
  PROVE  \E f : Upto(f, seq, wanted, most)
<1> DEFINE T == {m \in Nat : \E f : Upto(f, seq, wanted, m)}
           then(x, n) == IF seq[n] \in wanted THEN Append(x, seq[n]) ELSE x
<1>1. 0 \in T
  <2> DEFINE f == [n \in 0 .. 0 |-> <<>>]
  <2>1. f = [n \in 0 .. 0 |-> IF n = 0 THEN <<>> ELSE then(f[n - 1], n)]
    OBVIOUS
  <2> HIDE DEF f
  <2>2. Upto(f, seq, wanted, 0)
    BY <2>1 DEF Upto
  <2> QED
    BY <2>2
<1>2. ASSUME NEW m \in Nat, m \in T
      PROVE  m + 1 \in T
  <2>1. PICK f : Upto(f, seq, wanted, m)
    BY <1>2
  <2> DEFINE g == [n \in 0 .. m + 1 |-> IF n = 0 THEN <<>> ELSE then(f[n - 1], n)]
  <2>2. ASSUME NEW n \in 0 .. m
        PROVE  g[n] = f[n]
    <3>1. n \in 0 .. m + 1
      OBVIOUS
    <3> QED
      BY <2>1, <3>1 DEF Upto
  <2>3. ASSUME NEW n \in 0 .. m + 1, n # 0
        PROVE  g[n - 1] = f[n - 1]
    <3>1. n - 1 \in 0 .. m
      BY <2>3
    <3> HIDE DEF g
    <3> QED
      BY <2>2, <3>1
  <2>4. g = [n \in 0 .. m + 1 |-> IF n = 0 THEN <<>> ELSE then(g[n - 1], n)]
    BY <2>3
  <2> HIDE DEF g
  <2>5. Upto(g, seq, wanted, m + 1)
    BY <2>4 DEF Upto
  <2> QED
    BY <2>5
<1> HIDE DEF T
<1>3. most \in T
  BY <1>1, <1>2, SetInduction
<1> QED
  BY <1>3 DEF T

\* Some of a sequence, in its order: which place each one had.
Places(place, out, seq, n, wanted) ==
  /\ place \in [1 .. Len(out) -> 1 .. n]
  /\ \A k \in 1 .. Len(out) : out[k] = seq[place[k]]
  /\ \A j, k \in 1 .. Len(out) : j < k => place[j] < place[k]
  /\ \A i \in 1 .. n : seq[i] \in wanted => \E k \in 1 .. Len(out) : place[k] = i

Picked(out, seq, n, wanted) ==
  out \in Seq(wanted) /\ \E place : Places(place, out, seq, n, wanted)

LEMMA AppendPicks ==
  ASSUME NEW wanted, NEW seq, NEW n \in Nat, NEW out, Picked(out, seq, n, wanted)
  PROVE  /\ seq[n + 1] \in wanted => Picked(Append(out, seq[n + 1]), seq, n + 1, wanted)
         /\ seq[n + 1] \notin wanted => Picked(out, seq, n + 1, wanted)
<1> DEFINE len == Len(out)
           x == seq[n + 1]
           more == Append(out, x)
<1>1. PICK place : Places(place, out, seq, n, wanted)
  BY DEF Picked
<1>2. /\ place \in [1 .. len -> 1 .. n]
      /\ \A k \in 1 .. len : out[k] = seq[place[k]]
      /\ \A j, k \in 1 .. len : j < k => place[j] < place[k]
      /\ \A i \in 1 .. n : seq[i] \in wanted => \E k \in 1 .. len : place[k] = i
  BY <1>1 DEF Places
<1>3. out \in Seq(wanted) /\ len \in Nat
  BY DEF Picked
<1>4. 1 .. n + 1 = (1 .. n) \cup {n + 1} /\ 1 .. len + 1 = (1 .. len) \cup {len + 1}
  BY <1>3
<1>5. ASSUME x \in wanted
      PROVE  Picked(more, seq, n + 1, wanted)
  <2> DEFINE there == [k \in 1 .. len + 1 |-> IF k = len + 1 THEN n + 1 ELSE place[k]]
  <2>1. /\ more \in Seq(wanted) /\ Len(more) = len + 1
        /\ more[len + 1] = x /\ \A k \in 1 .. len : more[k] = out[k]
    BY <1>3, <1>5
  <2>2. there \in [1 .. len + 1 -> 1 .. n + 1]
    BY <1>2, <1>3, <1>4
  <2>3. there[len + 1] = n + 1 /\ \A k \in 1 .. len : there[k] = place[k]
    BY <1>3, <1>4
  <2> HIDE DEF there, more, len
  <2>4. ASSUME NEW k \in 1 .. len + 1
        PROVE  more[k] = seq[there[k]]
    BY <1>2, <1>4, <2>1, <2>3
  <2>5. ASSUME NEW j \in 1 .. len + 1, NEW k \in 1 .. len + 1, j < k
        PROVE  there[j] < there[k]
    <3>1. j \in 1 .. len
      BY <1>3, <2>5
    <3>2. place[j] \in 1 .. n
      BY <1>2, <3>1
    <3>3. CASE k = len + 1
      BY <2>3, <3>1, <3>2, <3>3
    <3>4. CASE k \in 1 .. len
      BY <1>2, <2>3, <2>5, <3>1, <3>4
    <3> QED
      BY <1>4, <3>3, <3>4
  <2>6. ASSUME NEW i \in 1 .. n + 1, seq[i] \in wanted
        PROVE  \E k \in 1 .. len + 1 : there[k] = i
    <3>1. CASE i = n + 1
      BY <1>4, <2>3, <3>1
    <3>2. CASE i \in 1 .. n
      <4>1. PICK k \in 1 .. len : place[k] = i
        BY <1>2, <2>6, <3>2
      <4> QED
        BY <1>4, <2>3, <4>1
    <3> QED
      BY <1>4, <3>1, <3>2
  <2>7. Places(there, more, seq, n + 1, wanted)
    BY <2>1, <2>2, <2>4, <2>5, <2>6 DEF Places
  <2> QED
    BY <2>1, <2>7 DEF Picked
<1>6. ASSUME x \notin wanted
      PROVE  Picked(out, seq, n + 1, wanted)
  <2>1. place \in [1 .. len -> 1 .. n + 1]
    BY <1>2, <1>4
  <2>2. \A i \in 1 .. n + 1 : seq[i] \in wanted => \E k \in 1 .. len : place[k] = i
    BY <1>2, <1>4, <1>6
  <2>3. Places(place, out, seq, n + 1, wanted)
    BY <1>2, <2>1, <2>2 DEF Places
  <2> QED
    BY <1>3, <2>3 DEF Picked
<1> QED
  BY <1>5, <1>6

LEMMA ThoseArePicked ==
  ASSUME NEW wanted, NEW seq, Len(seq) \in Nat
  PROVE  Picked(Those(seq, wanted), seq, Len(seq), wanted)
<1> DEFINE upto == CHOOSE f : Upto(f, seq, wanted, Len(seq))
           T == {n \in Nat : n <= Len(seq) => Picked(upto[n], seq, n, wanted)}
<1>1. Those(seq, wanted) = upto[Len(seq)]
  BY DEF Those, Upto
<1>2. Upto(upto, seq, wanted, Len(seq))
  BY UptoExist
<1> HIDE DEF upto
<1>3. 0 \in T
  <2>1. 0 \in 0 .. Len(seq)
    OBVIOUS
  <2>2. upto[0] = <<>>
    BY <1>2, <2>1 DEF Upto
  <2>3. Picked(<<>>, seq, 0, wanted)
    <3> DEFINE place == [k \in 1 .. 0 |-> 1]
    <3>1. place \in [1 .. 0 -> 1 .. 0] /\ 1 .. 0 = {}
      OBVIOUS
    <3>2. Len(<<>>) = 0 /\ <<>> \in Seq(wanted)
      OBVIOUS
    <3> HIDE DEF place
    <3>3. Places(place, <<>>, seq, 0, wanted)
      BY <3>1, <3>2 DEF Places
    <3> QED
      BY <3>2, <3>3 DEF Picked
  <2> QED
    BY <2>2, <2>3
<1>4. ASSUME NEW n \in Nat, n \in T
      PROVE  n + 1 \in T
  <2> SUFFICES ASSUME n + 1 <= Len(seq)
               PROVE  Picked(upto[n + 1], seq, n + 1, wanted)
    OBVIOUS
  <2>1. n + 1 \in 0 .. Len(seq) /\ n + 1 # 0 /\ (n + 1) - 1 = n /\ n <= Len(seq)
    OBVIOUS
  <2>2. upto[n + 1] = IF seq[n + 1] \in wanted THEN Append(upto[n], seq[n + 1]) ELSE upto[n]
    BY <1>2, <2>1 DEF Upto
  <2> DEFINE out == upto[n]
  <2>3. Picked(out, seq, n, wanted)
    BY <1>4, <2>1
  <2> HIDE DEF out
  <2>4. /\ seq[n + 1] \in wanted => Picked(Append(out, seq[n + 1]), seq, n + 1, wanted)
        /\ seq[n + 1] \notin wanted => Picked(out, seq, n + 1, wanted)
    BY <2>3, AppendPicks
  <2> QED
    BY <2>2, <2>4 DEF out
<1> HIDE DEF T
<1>5. Len(seq) \in T
  BY <1>3, <1>4, SetInduction
<1> QED
  BY <1>1, <1>5 DEF T

\* A track is told by the place of its row in the tracklist, and tracks are in that order.
InTurn(tracks) ==
  /\ Len(tracks) \in Nat /\ DOMAIN tracks = 1 .. Len(tracks)
  /\ \A k \in 1 .. Len(tracks) : tracks[k].title \in Nat
  /\ \A j, k \in 1 .. Len(tracks) : j < k => tracks[j].title < tracks[k].title

LEMMA InTurnDiffer ==
  ASSUME NEW tracks, InTurn(tracks), NEW j \in 1 .. Len(tracks), NEW k \in 1 .. Len(tracks),
         tracks[j].title = tracks[k].title
  PROVE  j = k
<1>1. Len(tracks) \in Nat /\ tracks[j].title \in Nat /\ tracks[k].title \in Nat
  BY DEF InTurn
<1>2. ~ (j < k) /\ ~ (k < j)
  BY <1>1 DEF InTurn
<1> QED
  BY <1>1, <1>2

\* What is picked of such tracks.
LEMMA PickedInTurn ==
  ASSUME NEW tracks, InTurn(tracks), NEW wanted, NEW out,
         Picked(out, tracks, Len(tracks), wanted)
  PROVE  /\ InTurn(out)
         /\ \A k \in 1 .. Len(out) :
              out[k] \in wanted /\ \E i \in 1 .. Len(tracks) : out[k] = tracks[i]
         /\ \A i \in 1 .. Len(tracks) : tracks[i] \in wanted =>
              \E k \in 1 .. Len(out) : out[k] = tracks[i]
<1> DEFINE n == Len(tracks)
           len == Len(out)
<1>1. PICK place : Places(place, out, tracks, n, wanted)
  BY DEF Picked
<1>2. /\ place \in [1 .. len -> 1 .. n]
      /\ \A k \in 1 .. len : out[k] = tracks[place[k]]
      /\ \A j, k \in 1 .. len : j < k => place[j] < place[k]
      /\ \A i \in 1 .. n : tracks[i] \in wanted => \E k \in 1 .. len : place[k] = i
  BY <1>1 DEF Places
<1>3. out \in Seq(wanted)
  BY DEF Picked
<1>4. len \in Nat /\ DOMAIN out = 1 .. len /\ \A k \in 1 .. len : out[k] \in wanted
  BY <1>3
<1> HIDE DEF len, n
<1>5. /\ \A k \in 1 .. n : tracks[k].title \in Nat
      /\ \A j, k \in 1 .. n : j < k => tracks[j].title < tracks[k].title
  BY DEF InTurn, n
<1>6. \A k \in 1 .. len : out[k].title \in Nat
  BY <1>2, <1>5
<1>7. ASSUME NEW j \in 1 .. len, NEW k \in 1 .. len, j < k
      PROVE  out[j].title < out[k].title
  <2>1. place[j] \in 1 .. n /\ place[k] \in 1 .. n /\ place[j] < place[k]
    BY <1>2, <1>7
  <2>2. tracks[place[j]].title < tracks[place[k]].title
    BY <1>5, <2>1
  <2> QED
    BY <1>2, <2>2
<1>8. InTurn(out)
  BY <1>4, <1>6, <1>7 DEF InTurn, len
<1>9. \A k \in 1 .. len : \E i \in 1 .. n : out[k] = tracks[i]
  BY <1>2
<1>10. ASSUME NEW i \in 1 .. n, tracks[i] \in wanted
       PROVE  \E k \in 1 .. len : out[k] = tracks[i]
  BY <1>2, <1>10
<1> QED
  BY <1>4, <1>8, <1>9, <1>10 DEF len, n

\* What a row of a tracklist may be.
ReadableRow(row) ==
  row.written.kind \in {"lettered", "run"} => row.written.letter \in Nat

\* A track is on a side, or on none.
Placed(e) == e.resolved = None \/ e.resolved.side \in Nat

\* The rows that are tracks, each told by its place.
TrackRows(rows) == {i \in DOMAIN rows : ~ rows[i].heading /\ rows[i].title # Blank}

Tracklist(rows) ==
  /\ Len(rows) \in Nat /\ DOMAIN rows = 1 .. Len(rows)
  /\ \A i \in 1 .. Len(rows) : rows[i].title \in {Blank, i} /\ ReadableRow(rows[i])

LEMMA EntryPlaced ==
  ASSUME NEW row, ReadableRow(row)
  PROVE  Entry(row, 1).title = row.title /\ Placed(Entry(row, 1))
<1> DEFINE e == Entry(row, 1)
           read == ReadPosition(row.written, 1)
           side == SideFor(row.written.letter, 1)
<1>1. e.title = row.title /\ e.resolved = read.position
  BY DEF Entry
<1>2. FirstSideOf(1) = 0
  BY DEF FirstSideOf, OnDisc, FromIndex, MaxSides, SidesPerDisc
<1>3. CASE row.written.kind = "number" /\ row.written.number > 0
  <2>1. read = Bare
    BY <1>3 DEF ReadPosition
  <2> HIDE DEF e, read
  <2> QED
    BY <1>1, <2>1 DEF Bare, Placed, None, e
<1>4. CASE ~ (row.written.kind = "number" /\ row.written.number > 0)
           /\ row.written.kind \in {"lettered", "run"} /\ row.written.number > 0
  <2>1. row.written.letter \in Nat
    BY <1>4 DEF ReadableRow
  <2>2. side = row.written.letter
    BY <1>2, <2>1 DEF SideFor, NoSide
  <2>3. side # NoSide
    BY <2>1, <2>2 DEF NoSide
  <2>4. read = Exact(side, row.written.number)
    BY <1>4, <2>3 DEF ReadPosition
  <2>5. read.position.side = side
    <3> HIDE DEF read, side
    <3> QED
      BY <2>4 DEF Exact, Position
  <2> HIDE DEF e, read, side
  <2> QED
    BY <1>1, <2>1, <2>2, <2>5 DEF Placed, e
<1>5. CASE ~ (row.written.kind = "number" /\ row.written.number > 0)
           /\ ~ (row.written.kind \in {"lettered", "run"} /\ row.written.number > 0)
  <2>1. read = Unread
    BY <1>5 DEF ReadPosition
  <2> HIDE DEF e, read
  <2> QED
    BY <1>1, <2>1 DEF Unread, Placed, None, e
<1> QED
  BY <1>1, <1>3, <1>4, <1>5

\* Splitting a numbered tracklist changes no title and puts each on a side.
LEMMA InferredKeeps ==
  ASSUME NEW entries, Len(entries) \in Nat, DOMAIN entries = 1 .. Len(entries),
         \A k \in 1 .. Len(entries) :
           /\ entries[k] = [title    |-> entries[k].title, resolved |-> entries[k].resolved,
                            numeric  |-> entries[k].numeric, seconds |-> entries[k].seconds]
           /\ Placed(entries[k])
  PROVE  LET out == Inferred(entries, 1)
         IN  /\ Len(out) = Len(entries) /\ DOMAIN out = 1 .. Len(entries)
             /\ \A k \in 1 .. Len(entries) : out[k].title = entries[k].title /\ Placed(out[k])
<1> DEFINE n == Len(entries)
           out == Inferred(entries, 1)
           split == SplitNumeric(n, 1)
           new(k) == IF k \in DOMAIN split THEN [entries[k] EXCEPT !.resolved = split[k]]
                     ELSE entries[k]
<1>1. CASE entries # <<>> /\ (\A i \in DOMAIN entries : entries[i].numeric)
  <2>1. out = [k \in 1 .. n |-> new(k)]
    BY <1>1 DEF Inferred
  <2>2. FirstSideOf(1) = 0 /\ NextSide(0) = 1
    BY DEF FirstSideOf, OnDisc, FromIndex, MaxSides, SidesPerDisc, NextSide
  <2>3. \A k \in DOMAIN split : split[k].side \in {0, 1}
    <3> DEFINE half == (n + 1) \div 2
               at(i) == IF i <= half THEN Position(0, i) ELSE Position(1, i - half)
               all == [i \in 1 .. n |-> at(i)]
    <3>1. split = <<>> \o all
      BY <2>2 DEF SplitNumeric, NoSide
    <3>2. \A i \in 1 .. n : at(i).side \in {0, 1}
      BY DEF Position
    <3> DEFINE values == {at(i) : i \in 1 .. n}
    <3>3. all \in Seq(values) /\ Len(all) = n
      BY DEF n
    <3> HIDE DEF all, at
    <3>4. split = all
      BY <3>1, <3>3
    <3>5. \A k \in DOMAIN all : all[k] \in values
      BY <3>3
    <3> QED
      BY <3>2, <3>4, <3>5
  <2> HIDE DEF split
  <2>4. ASSUME NEW k \in 1 .. n
        PROVE  out[k].title = entries[k].title /\ Placed(out[k])
    <3>1. out[k] = new(k)
      BY <2>1
    <3>2. CASE k \in DOMAIN split
      <4> DEFINE e == entries[k]
      <4>1. e = [title |-> e.title, resolved |-> e.resolved, numeric |-> e.numeric,
                 seconds |-> e.seconds]
        OBVIOUS
      <4>2. out[k] = [e EXCEPT !.resolved = split[k]]
        BY <3>1, <3>2
      <4> HIDE DEF e, out
      <4>3. out[k].title = e.title /\ out[k].resolved = split[k]
        BY <4>1, <4>2
      <4>4. out[k].resolved.side \in Nat
        BY <2>3, <3>2, <4>3
      <4> QED
        BY <4>3, <4>4 DEF Placed, e
    <3>3. CASE k \notin DOMAIN split
      BY <3>1, <3>3
    <3> QED
      BY <3>2, <3>3
  <2>5. Len(out) = n /\ DOMAIN out = 1 .. n
    <3> HIDE DEF new
    <3> QED
      BY <2>1
  <2> HIDE DEF out
  <2> QED
    BY <2>4, <2>5 DEF out
<1>2. CASE ~ (entries # <<>> /\ (\A i \in DOMAIN entries : entries[i].numeric))
  <2>1. out = entries
    BY <1>2 DEF Inferred
  <2> HIDE DEF out
  <2> QED
    BY <2>1 DEF out
<1> QED
  BY <1>1, <1>2

\* The tracks of a tracklist are its rows with a title that are no heading, in order.
LEMMA TracksAreRows ==
  ASSUME NEW rows, Tracklist(rows)
  PROVE  LET entries == DiscogsTracks(rows)
         IN  /\ InTurn(entries)
             /\ \A k \in 1 .. Len(entries) : Placed(entries[k]) /\ entries[k].title \in TrackRows(rows)
             /\ \A i \in TrackRows(rows) : \E k \in 1 .. Len(entries) : entries[k].title = i
<1> DEFINE wanted == {row \in Members(rows) : ~ row.heading /\ row.title # Blank}
           kept == Those(rows, wanted)
           n == Len(rows)
           len == Len(kept)
           read == [k \in DOMAIN kept |-> Entry(kept[k], 1)]
           entries == DiscogsTracks(rows)
<1>1. /\ n \in Nat /\ DOMAIN rows = 1 .. n
      /\ \A i \in 1 .. n : rows[i].title \in {Blank, i} /\ ReadableRow(rows[i])
  BY DEF Tracklist
<1>2. \A i \in 1 .. n : rows[i] \in wanted <=> i \in TrackRows(rows)
  BY <1>1 DEF Members, TrackRows
<1>3. \A i \in TrackRows(rows) : i \in 1 .. n /\ rows[i].title = i
  BY <1>1 DEF TrackRows
<1>4. Picked(kept, rows, n, wanted)
  BY <1>1, ThoseArePicked
<1>5. entries = Inferred(read, 1)
  BY DEF DiscogsTracks
<1> HIDE DEF wanted, kept, entries
<1>6. PICK place : Places(place, kept, rows, n, wanted)
  BY <1>4 DEF Picked
<1>7. /\ place \in [1 .. len -> 1 .. n]
      /\ \A k \in 1 .. len : kept[k] = rows[place[k]]
      /\ \A j, k \in 1 .. len : j < k => place[j] < place[k]
      /\ \A i \in 1 .. n : rows[i] \in wanted => \E k \in 1 .. len : place[k] = i
  BY <1>6 DEF Places
<1>8. kept \in Seq(wanted)
  BY <1>4 DEF Picked
<1>9. len \in Nat /\ DOMAIN kept = 1 .. len /\ \A k \in 1 .. len : kept[k] \in wanted
  BY <1>8
<1> HIDE DEF len, n
<1>10. ASSUME NEW k \in 1 .. len
       PROVE  /\ place[k] \in TrackRows(rows) /\ kept[k].title = place[k]
              /\ ReadableRow(kept[k])
  <2>1. place[k] \in 1 .. n /\ kept[k] = rows[place[k]] /\ kept[k] \in wanted
    BY <1>7, <1>9
  <2>2. place[k] \in TrackRows(rows)
    BY <1>2, <2>1
  <2> QED
    BY <1>1, <1>3, <2>1, <2>2
<1>11. ASSUME NEW k \in 1 .. len
       PROVE  /\ read[k].title = place[k] /\ Placed(read[k])
              /\ read[k] = [title    |-> read[k].title, resolved |-> read[k].resolved,
                            numeric  |-> read[k].numeric, seconds |-> read[k].seconds]
  <2> DEFINE e == Entry(kept[k], 1)
  <2>1. read[k] = e
    BY <1>9
  <2>2. e.title = kept[k].title /\ Placed(e)
    BY <1>10, EntryPlaced
  <2>3. e = [title |-> e.title, resolved |-> e.resolved, numeric |-> e.numeric,
             seconds |-> e.seconds]
    BY DEF Entry
  <2> HIDE DEF e, read
  <2> QED
    BY <1>10, <2>1, <2>2, <2>3
<1>12. Len(read) = len /\ DOMAIN read = 1 .. len
  <2> DEFINE values == {Entry(kept[k], 1) : k \in 1 .. len}
  <2>1. read = [k \in 1 .. len |-> Entry(kept[k], 1)]
    BY <1>9
  <2> HIDE DEF read
  <2> QED
    BY <1>9, <2>1
<1> HIDE DEF read
<1>13. /\ Len(entries) = len /\ DOMAIN entries = 1 .. len
       /\ \A k \in 1 .. len : entries[k].title = read[k].title /\ Placed(entries[k])
  BY <1>5, <1>9, <1>11, <1>12, InferredKeeps
<1>14. \A k \in 1 .. len : entries[k].title = place[k] /\ place[k] \in TrackRows(rows)
                           /\ place[k] \in 1 .. n
  BY <1>3, <1>10, <1>11, <1>13
<1>15. InTurn(entries)
  <2>1. \A k \in 1 .. len : entries[k].title \in Nat
    BY <1>1, <1>14 DEF n
  <2>2. \A j, k \in 1 .. len : j < k => entries[j].title < entries[k].title
    BY <1>7, <1>14
  <2> QED
    BY <1>9, <1>13, <2>1, <2>2 DEF InTurn
<1>16. ASSUME NEW i \in TrackRows(rows)
       PROVE  \E k \in 1 .. len : entries[k].title = i
  <2>1. PICK k \in 1 .. len : place[k] = i
    BY <1>2, <1>3, <1>7
  <2> QED
    BY <1>14, <2>1
<1> QED
  BY <1>13, <1>14, <1>15, <1>16 DEF entries

\* The tracks of a disc.
LEMMA OnTheDisc ==
  ASSUME NEW entries, InTurn(entries), NEW disc
  PROVE  LET on == On(entries, disc)
         IN  /\ InTurn(on)
             /\ \A k \in 1 .. Len(on) :
                  DiscOf(on[k]) = disc /\ \E i \in 1 .. Len(entries) : on[k] = entries[i]
             /\ \A i \in 1 .. Len(entries) : DiscOf(entries[i]) = disc =>
                  \E k \in 1 .. Len(on) : on[k] = entries[i]
<1> DEFINE wanted == {e \in Members(entries) : DiscOf(e) = disc}
           on == On(entries, disc)
<1>1. Len(entries) \in Nat /\ DOMAIN entries = 1 .. Len(entries)
  BY DEF InTurn
<1>2. \A i \in 1 .. Len(entries) : entries[i] \in wanted <=> DiscOf(entries[i]) = disc
  BY <1>1 DEF Members
<1>3. \A e \in wanted : DiscOf(e) = disc
  OBVIOUS
<1>4. on = Those(entries, wanted)
  BY DEF On
<1> HIDE DEF wanted, on
<1>5. Picked(on, entries, Len(entries), wanted)
  BY <1>1, <1>4, ThoseArePicked
<1>6. /\ InTurn(on)
      /\ \A k \in 1 .. Len(on) :
           on[k] \in wanted /\ \E i \in 1 .. Len(entries) : on[k] = entries[i]
      /\ \A i \in 1 .. Len(entries) : entries[i] \in wanted =>
           \E k \in 1 .. Len(on) : on[k] = entries[i]
  BY <1>5, PickedInTurn
<1> QED
  BY <1>2, <1>3, <1>6 DEF on

\* There is a last disc.
LEMMA LastDisc ==
  ASSUME NEW entries, InTurn(entries), \A k \in 1 .. Len(entries) : Placed(entries[k]),
         NEW quantity \in Nat
  PROVE  LET named == {DiscOf(entries[i]) : i \in DOMAIN entries}
             all   == named \cup {quantity, 1}
         IN  /\ all \subseteq Nat /\ \A k \in 1 .. Len(entries) : DiscOf(entries[k]) \in Nat \ {0}
             /\ \E d \in all : \A e \in all : d >= e
<1> DEFINE n == Len(entries)
           all(k) == {DiscOf(entries[i]) : i \in 1 .. k} \cup {quantity, 1}
           T == {k \in Nat : k <= n => \E d \in all(k) : \A e \in all(k) : d >= e}
<1>1. n \in Nat /\ DOMAIN entries = 1 .. n
  BY DEF InTurn
<1>2. ASSUME NEW k \in 1 .. n
      PROVE  DiscOf(entries[k]) \in Nat \ {0}
  <2> DEFINE e == entries[k]
  <2>1. CASE e.resolved = None
    BY <2>1 DEF DiscOf
  <2>2. CASE e.resolved # None
    <3> DEFINE side == e.resolved.side
    <3>1. side \in Nat
      BY <2>2 DEF Placed
    <3>2. DiscOf(e) = side \div 2 + 1
      BY <2>2 DEF DiscOf, Disc, SidesPerDisc
    <3> HIDE DEF side
    <3>3. side \div 2 \in Nat
      BY <3>1
    <3> QED
      BY <3>2, <3>3
  <2> QED
    BY <2>1, <2>2
<1>3. 0 \in T
  <2>1. all(0) = {quantity, 1}
    OBVIOUS
  <2> HIDE DEF all
  <2>2. \E d \in {quantity, 1} : \A e \in {quantity, 1} : d >= e
    OBVIOUS
  <2> QED
    BY <2>1, <2>2
<1>4. ASSUME NEW k \in Nat, k \in T
      PROVE  k + 1 \in T
  <2> SUFFICES ASSUME k + 1 <= n
               PROVE  \E d \in all(k + 1) : \A e \in all(k + 1) : d >= e
    OBVIOUS
  <2> DEFINE x == DiscOf(entries[k + 1])
  <2>1. k + 1 \in 1 .. n /\ k <= n
    BY <1>1
  <2>2. PICK d \in all(k) : \A e \in all(k) : d >= e
    BY <1>4, <2>1
  <2>3. all(k + 1) = all(k) \cup {x}
    <3>1. 1 .. k + 1 = (1 .. k) \cup {k + 1}
      OBVIOUS
    <3> QED
      BY <3>1
  <2>4. \A i \in 1 .. k : i \in 1 .. n
    BY <1>1, <2>1
  <2>5. x \in Nat /\ all(k) \subseteq Nat
    BY <1>2, <2>1, <2>4
  <2> HIDE DEF x, all
  <2>6. CASE d >= x
    BY <2>2, <2>3, <2>6
  <2>7. CASE ~ (d >= x)
    BY <2>2, <2>3, <2>5, <2>7
  <2> QED
    BY <2>6, <2>7
<1> HIDE DEF T
<1>5. n \in T
  BY <1>1, <1>3, <1>4, SetInduction
<1>6. \E d \in all(n) : \A e \in all(n) : d >= e
  BY <1>1, <1>5 DEF T
<1>7. all(n) \subseteq Nat
  BY <1>2
<1> QED
  BY <1>1, <1>2, <1>6, <1>7

(***************************************************************************)
(* Tracks put on discs: each disc that is listed has the tracks that are   *)
(* on it, no disc is listed twice, and every track is on one that is.      *)
(***************************************************************************)
OnDiscs(media, entries) ==
  /\ Len(media) \in Nat /\ DOMAIN media = 1 .. Len(media)
  /\ \A m \in 1 .. Len(media) : media[m].tracks = On(entries, media[m].position)
  /\ \A l, m \in 1 .. Len(media) : l # m => media[l].position # media[m].position
  /\ \A i \in 1 .. Len(entries) :
       \E m \in 1 .. Len(media) : media[m].position = DiscOf(entries[i])

LEMMA MediaAreDiscs ==
  ASSUME NEW rows, Tracklist(rows), NEW quantity \in Nat
  PROVE  OnDiscs(DiscogsMedia(quantity, rows), DiscogsTracks(rows))
<1> DEFINE entries == DiscogsTracks(rows)
           named == {DiscOf(entries[i]) : i \in DOMAIN entries}
           all   == named \cup {quantity, 1}
           discs == CHOOSE d \in all : \A e \in all : d >= e
           media == [d \in 1 .. discs |-> [position |-> d, tracks |-> On(entries, d)]]
           wanted == {m \in Members(media) : m.tracks # <<>>}
           out == DiscogsMedia(quantity, rows)
<1>1. InTurn(entries) /\ \A k \in 1 .. Len(entries) : Placed(entries[k])
  BY TracksAreRows
<1>2. out = Those(media, wanted)
  BY DEF DiscogsMedia
<1> HIDE DEF entries, out
<1>3. /\ all \subseteq Nat /\ \A k \in 1 .. Len(entries) : DiscOf(entries[k]) \in Nat \ {0}
      /\ \E d \in all : \A e \in all : d >= e
  BY <1>1, LastDisc
<1>4. discs \in all /\ \A e \in all : discs >= e
  BY <1>3
<1>5. discs \in Nat /\ \A i \in DOMAIN entries : discs >= DiscOf(entries[i])
  BY <1>3, <1>4
<1> HIDE DEF discs
<1>6. /\ Len(media) = discs /\ DOMAIN media = 1 .. discs
      /\ \A d \in 1 .. discs : media[d].position = d /\ media[d].tracks = On(entries, d)
  BY <1>5
<1> HIDE DEF media
<1>7. /\ \A d \in 1 .. discs : media[d] \in wanted <=> On(entries, d) # <<>>
  BY <1>6 DEF Members
<1> HIDE DEF wanted
<1>8. Picked(out, media, discs, wanted)
  BY <1>2, <1>5, <1>6, ThoseArePicked
<1> DEFINE len == Len(out)
<1>9. PICK place : Places(place, out, media, discs, wanted)
  BY <1>8 DEF Picked
<1>10. /\ place \in [1 .. len -> 1 .. discs]
       /\ \A k \in 1 .. len : out[k] = media[place[k]]
       /\ \A j, k \in 1 .. len : j < k => place[j] < place[k]
       /\ \A i \in 1 .. discs : media[i] \in wanted => \E k \in 1 .. len : place[k] = i
  BY <1>9 DEF Places
<1>11. out \in Seq(wanted)
  BY <1>8 DEF Picked
<1>12. len \in Nat /\ DOMAIN out = 1 .. len
  BY <1>11
<1> HIDE DEF len
<1>13. \A m \in 1 .. len : /\ place[m] \in 1 .. discs /\ out[m].position = place[m]
                           /\ out[m].tracks = On(entries, out[m].position)
  BY <1>6, <1>10
<1>14. ASSUME NEW l \in 1 .. len, NEW m \in 1 .. len, l # m
       PROVE  out[l].position # out[m].position
  <2>1. l < m \/ m < l
    BY <1>12, <1>14
  <2>2. place[l] \in Nat /\ place[m] \in Nat /\ (place[l] < place[m] \/ place[m] < place[l])
    BY <1>10, <1>13, <2>1
  <2> QED
    BY <1>13, <2>2
<1>15. ASSUME NEW i \in 1 .. Len(entries)
       PROVE  \E m \in 1 .. len : out[m].position = DiscOf(entries[i])
  <2> DEFINE d == DiscOf(entries[i])
             on == On(entries, d)
  <2>1. i \in DOMAIN entries
    BY <1>1 DEF InTurn
  <2>2. d \in Nat \ {0} /\ discs >= d
    BY <1>3, <1>5, <2>1
  <2>3. d \in 1 .. discs
    BY <1>5, <2>2
  <2>4. InTurn(on) /\ \E k \in 1 .. Len(on) : on[k] = entries[i]
    BY <1>1, OnTheDisc
  <2>5. on # <<>>
    <3> HIDE DEF on
    <3> QED
      BY <2>4
  <2> HIDE DEF d
  <2>6. PICK m \in 1 .. len : place[m] = d
    BY <1>7, <1>10, <2>3, <2>5
  <2> QED
    BY <1>13, <2>6 DEF d
<1> QED
  BY <1>12, <1>13, <1>14, <1>15 DEF OnDiscs, len, out, entries

\* The tracks of the first discs, one after the other.
Flattened(f, media, m) ==
  f = [n \in 0 .. m |-> IF n = 0 THEN <<>> ELSE f[n - 1] \o media[n].tracks]

LEMMA FlattenedExist ==
  ASSUME NEW media, NEW most \in Nat
  PROVE  \E f : Flattened(f, media, most)
<1> DEFINE T == {m \in Nat : \E f : Flattened(f, media, m)}
           then(x, n) == x \o media[n].tracks
<1>1. 0 \in T
  <2> DEFINE f == [n \in 0 .. 0 |-> <<>>]
  <2>1. f = [n \in 0 .. 0 |-> IF n = 0 THEN <<>> ELSE then(f[n - 1], n)]
    OBVIOUS
  <2> HIDE DEF f
  <2>2. Flattened(f, media, 0)
    BY <2>1 DEF Flattened
  <2> QED
    BY <2>2
<1>2. ASSUME NEW m \in Nat, m \in T
      PROVE  m + 1 \in T
  <2>1. PICK f : Flattened(f, media, m)
    BY <1>2
  <2> DEFINE g == [n \in 0 .. m + 1 |-> IF n = 0 THEN <<>> ELSE then(f[n - 1], n)]
  <2>2. ASSUME NEW n \in 0 .. m
        PROVE  g[n] = f[n]
    <3>1. n \in 0 .. m + 1
      OBVIOUS
    <3> QED
      BY <2>1, <3>1 DEF Flattened
  <2>3. ASSUME NEW n \in 0 .. m + 1, n # 0
        PROVE  g[n - 1] = f[n - 1]
    <3>1. n - 1 \in 0 .. m
      BY <2>3
    <3> HIDE DEF g
    <3> QED
      BY <2>2, <3>1
  <2>4. g = [n \in 0 .. m + 1 |-> IF n = 0 THEN <<>> ELSE then(g[n - 1], n)]
    BY <2>3
  <2> HIDE DEF g
  <2>5. Flattened(g, media, m + 1)
    BY <2>4 DEF Flattened
  <2> QED
    BY <2>5
<1> HIDE DEF T
<1>3. most \in T
  BY <1>1, <1>2, SetInduction
<1> QED
  BY <1>3 DEF T

\* So far: the tracks of the first discs, each once.
SoFar(out, entries, media, n) ==
  /\ out \in Seq(Members(entries))
  /\ Len(out) \in Nat /\ DOMAIN out = 1 .. Len(out)
  /\ \A k \in 1 .. Len(out) : \E m \in 1 .. n : \E j \in 1 .. Len(media[m].tracks) :
       out[k] = media[m].tracks[j]
  /\ \A m \in 1 .. n : \A j \in 1 .. Len(media[m].tracks) :
       \E k \in 1 .. Len(out) : out[k] = media[m].tracks[j]
  /\ \A k, l \in 1 .. Len(out) : out[k].title = out[l].title => k = l

LEMMA DiscsApart ==
  ASSUME NEW entries, InTurn(entries), NEW media, OnDiscs(media, entries),
         NEW l \in 1 .. Len(media), NEW i \in 1 .. Len(media[l].tracks),
         NEW m \in 1 .. Len(media), NEW j \in 1 .. Len(media[m].tracks),
         media[l].tracks[i].title = media[m].tracks[j].title
  PROVE  l = m
<1> DEFINE on(k) == On(entries, media[k].position)
<1>1. media[l].tracks = on(l) /\ media[m].tracks = on(m)
  BY DEF OnDiscs
<1>2. i \in 1 .. Len(on(l)) /\ j \in 1 .. Len(on(m))
  BY <1>1
<1>3. \A disc : \A k \in 1 .. Len(On(entries, disc)) :
        /\ DiscOf(On(entries, disc)[k]) = disc
        /\ \E x \in 1 .. Len(entries) : On(entries, disc)[k] = entries[x]
  BY OnTheDisc
<1>4. \A k \in 1 .. Len(on(l)) : DiscOf(on(l)[k]) = media[l].position
         /\ \E x \in 1 .. Len(entries) : on(l)[k] = entries[x]
  BY <1>3
<1>5. \A k \in 1 .. Len(on(m)) : DiscOf(on(m)[k]) = media[m].position
         /\ \E x \in 1 .. Len(entries) : on(m)[k] = entries[x]
  BY <1>3
<1>6. /\ DiscOf(on(l)[i]) = media[l].position /\ DiscOf(on(m)[j]) = media[m].position
      /\ \E k \in 1 .. Len(entries) : on(l)[i] = entries[k]
      /\ \E k \in 1 .. Len(entries) : on(m)[j] = entries[k]
  BY <1>2, <1>4, <1>5
<1> HIDE DEF on
<1>7. PICK x \in 1 .. Len(entries) : on(l)[i] = entries[x]
  BY <1>6
<1>8. PICK y \in 1 .. Len(entries) : on(m)[j] = entries[y]
  BY <1>6
<1>9. entries[x].title = entries[y].title
  BY <1>1, <1>7, <1>8
<1>10. x = y
  BY <1>9, InTurnDiffer
<1>11. media[l].position = media[m].position
  BY <1>6, <1>7, <1>8, <1>10
<1> QED
  BY <1>11 DEF OnDiscs

LEMMA TracksSoFar ==
  ASSUME NEW entries, InTurn(entries), NEW media, OnDiscs(media, entries)
  PROVE  SoFar(Tracks(media), entries, media, Len(media))
<1> DEFINE upto == CHOOSE f : Flattened(f, media, Len(media))
           count == Len(media)
           T == {n \in Nat : n <= count => SoFar(upto[n], entries, media, n)}
<1>1. Tracks(media) = upto[count]
  BY DEF Tracks, Flattened
<1>2. count \in Nat
  BY DEF OnDiscs
<1>3. Flattened(upto, media, count)
  BY <1>2, FlattenedExist
<1> HIDE DEF upto
<1>4. 0 \in T
  <2>1. 0 \in 0 .. count
    BY <1>2
  <2>2. upto[0] = <<>>
    BY <1>3, <2>1 DEF Flattened
  <2>3. SoFar(<<>>, entries, media, 0)
    BY DEF SoFar
  <2> QED
    BY <2>2, <2>3
<1>5. ASSUME NEW n \in Nat, n \in T
      PROVE  n + 1 \in T
  <2> SUFFICES ASSUME n + 1 <= count
               PROVE  SoFar(upto[n + 1], entries, media, n + 1)
    OBVIOUS
  <2> DEFINE out == upto[n]
             tracks == media[n + 1].tracks
             more == out \o tracks
             p == Len(out)
             q == Len(tracks)
  <2>1. n + 1 \in 0 .. count /\ n + 1 # 0 /\ (n + 1) - 1 = n /\ n <= count /\ n + 1 \in 1 .. count
        /\ 1 .. n + 1 = (1 .. n) \cup {n + 1}
    BY <1>2
  <2>2. upto[n + 1] = more
    BY <1>3, <2>1 DEF Flattened
  <2>3. SoFar(out, entries, media, n)
    BY <1>5, <2>1
  <2>4. tracks = On(entries, media[n + 1].position)
    BY <2>1 DEF OnDiscs
  <2> HIDE DEF out, tracks
  <2>5. InTurn(tracks)
    BY <2>4, OnTheDisc
  <2>6. /\ p \in Nat /\ DOMAIN out = 1 .. p
        /\ \A k \in 1 .. p : \E m \in 1 .. n : \E j \in 1 .. Len(media[m].tracks) :
             out[k] = media[m].tracks[j]
        /\ \A m \in 1 .. n : \A j \in 1 .. Len(media[m].tracks) :
             \E k \in 1 .. p : out[k] = media[m].tracks[j]
        /\ \A k, l \in 1 .. p : out[k].title = out[l].title => k = l
    BY <2>3 DEF SoFar
  <2>7. q \in Nat /\ DOMAIN tracks = 1 .. q
    BY <2>5 DEF InTurn
  <2>8. /\ Len(more) = p + q /\ DOMAIN more = 1 .. p + q
        /\ \A k \in 1 .. p : more[k] = out[k]
        /\ \A k \in 1 .. q : more[p + k] = tracks[k]
        /\ more \in Seq(Members(entries))
    <3> DEFINE wanted == {e \in Members(entries) : DiscOf(e) = media[n + 1].position}
    <3>1. tracks = Those(entries, wanted)
      BY <2>4 DEF On
    <3>2. Len(entries) \in Nat /\ DOMAIN entries = 1 .. Len(entries)
      BY DEF InTurn
    <3>3. tracks \in Seq(wanted)
      BY <3>1, <3>2, ThoseArePicked DEF Picked
    <3>4. \A e \in wanted : e \in Members(entries)
      OBVIOUS
    <3> HIDE DEF wanted
    <3>5. tracks \in Seq(Members(entries))
      BY <2>7, <3>3, <3>4
    <3> DEFINE values == Members(entries)
    <3>6. out \in Seq(values) /\ tracks \in Seq(values)
      BY <2>3, <3>5 DEF SoFar
    <3> HIDE DEF values
    <3>7. more \in Seq(values)
      BY <3>6
    <3> QED
      BY <2>6, <2>7, <3>6, <3>7 DEF values
  <2> HIDE DEF more, p, q
  <2>9. \A k \in 1 .. p + q : k \in 1 .. p \/ \E j \in 1 .. q : k = p + j
    <3> SUFFICES ASSUME NEW k \in 1 .. p + q, k \notin 1 .. p
                 PROVE  \E j \in 1 .. q : k = p + j
      OBVIOUS
    <3>1. k - p \in 1 .. q /\ k = p + (k - p)
      BY <2>6, <2>7
    <3> QED
      BY <3>1
  <2>10. (\A k \in 1 .. p : k \in 1 .. p + q) /\ (\A j \in 1 .. q : p + j \in 1 .. p + q)
    BY <2>6, <2>7
  <2>11. ASSUME NEW k \in 1 .. p + q
         PROVE  \E m \in 1 .. n + 1 : \E j \in 1 .. Len(media[m].tracks) : more[k] = media[m].tracks[j]
    <3>1. CASE k \in 1 .. p
      <4>1. PICK m \in 1 .. n : \E j \in 1 .. Len(media[m].tracks) : out[k] = media[m].tracks[j]
        BY <2>6, <3>1
      <4> QED
        BY <2>1, <2>8, <3>1, <4>1
    <3>2. ASSUME NEW j \in 1 .. q, k = p + j
          PROVE  \E m \in 1 .. n + 1 : \E i \in 1 .. Len(media[m].tracks) :
                   more[k] = media[m].tracks[i]
      <4>1. j \in 1 .. Len(media[n + 1].tracks) /\ more[k] = media[n + 1].tracks[j]
        BY <2>8, <3>2 DEF tracks, q
      <4>2. n + 1 \in 1 .. n + 1
        BY <2>1
      <4> QED
        BY <4>1, <4>2
    <3> QED
      BY <2>9, <3>1, <3>2
  <2>12. ASSUME NEW m \in 1 .. n + 1, NEW j \in 1 .. Len(media[m].tracks)
         PROVE  \E k \in 1 .. p + q : more[k] = media[m].tracks[j]
    <3>1. CASE m \in 1 .. n
      <4>1. PICK k \in 1 .. p : out[k] = media[m].tracks[j]
        BY <2>6, <3>1
      <4> QED
        BY <2>8, <2>10, <4>1
    <3>2. CASE m = n + 1
      <4>1. j \in 1 .. q /\ media[m].tracks[j] = tracks[j]
        BY <3>2 DEF tracks, q
      <4> QED
        BY <2>8, <2>10, <4>1
    <3> QED
      BY <2>1, <3>1, <3>2
  <2>13. ASSUME NEW k \in 1 .. p, NEW j \in 1 .. q
         PROVE  out[k].title # tracks[j].title
    <3>1. PICK m \in 1 .. n : \E i \in 1 .. Len(media[m].tracks) : out[k] = media[m].tracks[i]
      BY <2>6
    <3>2. PICK i \in 1 .. Len(media[m].tracks) : out[k] = media[m].tracks[i]
      BY <3>1
    <3>5. m \in 1 .. count /\ m # n + 1
      BY <1>2, <2>1
    <3>3. j \in 1 .. Len(media[n + 1].tracks) /\ tracks[j] = media[n + 1].tracks[j]
      BY DEF tracks, q
    <3>4. media[m].tracks[i].title # media[n + 1].tracks[j].title
      BY <2>1, <3>3, <3>5, DiscsApart
    <3> QED
      BY <3>2, <3>3, <3>4
  <2>14. ASSUME NEW k \in 1 .. p + q, NEW l \in 1 .. p + q, more[k].title = more[l].title
         PROVE  k = l
    <3>1. CASE k \in 1 .. p /\ l \in 1 .. p
      BY <2>6, <2>8, <2>14, <3>1
    <3>2. CASE k \in 1 .. p /\ l \notin 1 .. p
      BY <2>8, <2>9, <2>13, <2>14, <3>2
    <3>3. CASE k \notin 1 .. p /\ l \in 1 .. p
      BY <2>8, <2>9, <2>13, <2>14, <3>3
    <3>4. CASE k \notin 1 .. p /\ l \notin 1 .. p
      <4>1. PICK i \in 1 .. q : k = p + i
        BY <2>9, <3>4
      <4>2. PICK j \in 1 .. q : l = p + j
        BY <2>9, <3>4
      <4>3. tracks[i].title = tracks[j].title
        BY <2>8, <2>14, <4>1, <4>2
      <4>4. i = j
        BY <2>5, <4>3, InTurnDiffer DEF q
      <4> QED
        BY <4>1, <4>2, <4>4
    <3> QED
      BY <3>1, <3>2, <3>3, <3>4
  <2>15. SoFar(more, entries, media, n + 1)
    <3>1. p + q \in Nat
      BY <2>6, <2>7
    <3> QED
      BY <2>8, <2>11, <2>12, <2>14, <3>1 DEF SoFar
  <2> QED
    BY <2>2, <2>15 DEF more
<1> HIDE DEF T
<1>6. count \in T
  BY <1>2, <1>4, <1>5, SetInduction
<1> QED
  BY <1>1, <1>2, <1>6 DEF T

(***************************************************************************)
(* A tracklist on discs: every row that is a track is there once and no    *)
(* other is, in the order of the rows, on the disc its side is on.         *)
(***************************************************************************)
Kept(media, rows) ==
  LET kept  == TrackRows(rows)
      on(m) == media[m].tracks
      all   == Tracks(media)
  IN  /\ {all[i].title : i \in DOMAIN all} = kept
      /\ Len(all) = Cardinality(kept)
      /\ \A m \in DOMAIN media :
           /\ \A i \in 2 .. Len(on(m)) : on(m)[i - 1].title < on(m)[i].title
           /\ \A i \in DOMAIN on(m) :
                on(m)[i].resolved # None => Disc(on(m)[i].resolved.side) = media[m].position

LEMMA TracklistKept ==
  ASSUME NEW rows, Tracklist(rows), NEW quantity \in Nat
  PROVE  Kept(DiscogsMedia(quantity, rows), rows)
<1> DEFINE entries == DiscogsTracks(rows)
           media == DiscogsMedia(quantity, rows)
           kept == TrackRows(rows)
           on(m) == media[m].tracks
           all == Tracks(media)
           len == Len(all)
<1>1. /\ InTurn(entries)
      /\ \A k \in 1 .. Len(entries) : entries[k].title \in kept
      /\ \A i \in kept : \E k \in 1 .. Len(entries) : entries[k].title = i
  BY TracksAreRows
<1>2. OnDiscs(media, entries)
  BY MediaAreDiscs
<1> HIDE DEF entries, kept
<1>3. SoFar(all, entries, media, Len(media))
  BY <1>1, <1>2, TracksSoFar
<1> HIDE DEF all, media
<1>4. /\ Len(media) \in Nat /\ DOMAIN media = 1 .. Len(media)
      /\ \A m \in 1 .. Len(media) : on(m) = On(entries, media[m].position)
      /\ \A i \in 1 .. Len(entries) :
           \E m \in 1 .. Len(media) : media[m].position = DiscOf(entries[i])
  BY <1>2 DEF OnDiscs
<1>5. /\ len \in Nat /\ DOMAIN all = 1 .. len
      /\ \A k \in 1 .. len : \E m \in 1 .. Len(media) : \E j \in 1 .. Len(on(m)) : all[k] = on(m)[j]
      /\ \A m \in 1 .. Len(media) : \A j \in 1 .. Len(on(m)) :
           \E k \in 1 .. len : all[k] = on(m)[j]
      /\ \A k, l \in 1 .. len : all[k].title = all[l].title => k = l
  BY <1>3 DEF SoFar
<1> HIDE DEF on
<1>6. ASSUME NEW m \in 1 .. Len(media)
      PROVE  /\ InTurn(on(m))
             /\ \A j \in 1 .. Len(on(m)) : /\ DiscOf(on(m)[j]) = media[m].position
                                           /\ \E i \in 1 .. Len(entries) : on(m)[j] = entries[i]
             /\ \A i \in 1 .. Len(entries) : DiscOf(entries[i]) = media[m].position =>
                  \E j \in 1 .. Len(on(m)) : on(m)[j] = entries[i]
  <2> DEFINE disc == media[m].position
  <2>1. on(m) = On(entries, disc)
    BY <1>4
  <2> HIDE DEF disc
  <2>2. /\ InTurn(On(entries, disc))
        /\ \A j \in 1 .. Len(On(entries, disc)) :
             DiscOf(On(entries, disc)[j]) = disc /\ \E i \in 1 .. Len(entries) : On(entries, disc)[j] = entries[i]
        /\ \A i \in 1 .. Len(entries) : DiscOf(entries[i]) = disc =>
             \E j \in 1 .. Len(On(entries, disc)) : On(entries, disc)[j] = entries[i]
    BY <1>1, OnTheDisc
  <2> QED
    BY <2>1, <2>2 DEF disc
<1>7. ASSUME NEW k \in 1 .. len
      PROVE  all[k].title \in kept
  <2>1. PICK m \in 1 .. Len(media) : \E j \in 1 .. Len(on(m)) : all[k] = on(m)[j]
    BY <1>5
  <2>2. PICK j \in 1 .. Len(on(m)) : all[k] = on(m)[j]
    BY <2>1
  <2>3. PICK i \in 1 .. Len(entries) : on(m)[j] = entries[i]
    BY <1>6
  <2> QED
    BY <1>1, <2>2, <2>3
<1>8. ASSUME NEW x \in kept
      PROVE  \E k \in 1 .. len : all[k].title = x
  <2>1. PICK i \in 1 .. Len(entries) : entries[i].title = x
    BY <1>1
  <2>2. PICK m \in 1 .. Len(media) : media[m].position = DiscOf(entries[i])
    BY <1>4
  <2>3. PICK j \in 1 .. Len(on(m)) : on(m)[j] = entries[i]
    BY <1>6, <2>2
  <2>4. PICK k \in 1 .. len : all[k] = on(m)[j]
    BY <1>5
  <2> QED
    BY <2>1, <2>3, <2>4
<1> HIDE DEF len
<1>9. {all[i].title : i \in DOMAIN all} = kept
  <2>1. {all[i].title : i \in 1 .. len} = kept
    BY <1>7, <1>8
  <2> QED
    BY <1>5, <2>1
<1>10. len = Cardinality(kept)
  <2> DEFINE title == [k \in 1 .. len |-> all[k].title]
  <2>1. title \in [1 .. len -> kept]
    BY <1>7
  <2>2. \A k \in 1 .. len : title[k] = all[k].title
    OBVIOUS
  <2> HIDE DEF title
  <2>3. \A k, l \in 1 .. len : title[k] = title[l] => k = l
    BY <1>5, <2>2
  <2>4. \A x \in kept : \E k \in 1 .. len : title[k] = x
    BY <1>8, <2>2
  <2>5. title \in Bijection(1 .. len, kept)
    BY <2>1, <2>3, <2>4 DEF Bijection, Injection, Surjection, IsInjective
  <2>6. ExistsBijection(1 .. len, kept)
    BY <2>5 DEF ExistsBijection
  <2> QED
    BY <1>5, <2>6, FS_CountingElements
<1>11. ASSUME NEW m \in 1 .. Len(media), NEW i \in 2 .. Len(on(m))
       PROVE  on(m)[i - 1].title < on(m)[i].title
  <2>1. InTurn(on(m))
    BY <1>6
  <2>2. i - 1 \in 1 .. Len(on(m)) /\ i \in 1 .. Len(on(m)) /\ i - 1 < i
    BY <2>1 DEF InTurn
  <2> QED
    BY <2>1, <2>2 DEF InTurn
<1>12. ASSUME NEW m \in 1 .. Len(media), NEW i \in DOMAIN on(m), on(m)[i].resolved # None
       PROVE  Disc(on(m)[i].resolved.side) = media[m].position
  <2>1. i \in 1 .. Len(on(m))
    BY <1>6 DEF InTurn
  <2>2. DiscOf(on(m)[i]) = media[m].position
    BY <1>6, <2>1
  <2> QED
    BY <1>12, <2>2 DEF DiscOf
<1> QED
  BY <1>4, <1>9, <1>10, <1>11, <1>12 DEF Kept, on, len, all, media, kept

\* A side lettered as its own disc letters it, or as the first one does, is on its disc.
LEMMA LetteredOnDisc ==
  ASSUME NEW medium \in Nat \ {0}, NEW face \in Faces, NEW straight \in BOOLEAN
  PROVE  LET side == SideFor(IF straight THEN OnDisc(medium, face) ELSE OnDisc(1, face), medium)
         IN  IF medium <= MaxSides \div SidesPerDisc
             THEN Disc(side) = medium /\ Face(side) = face
             ELSE side = NoSide
<1> DEFINE own == OnDisc(medium, face)
           far == OnDisc(1, face)
           up == IF face = "first" THEN 0 ELSE 1
           first == FirstSideOf(medium)
<1>1. face \in {"first", "second"} /\ up \in {0, 1} /\ far = up
  BY DEF Faces, OnDisc, FromIndex, MaxSides, SidesPerDisc
<1>2. MaxSides \div SidesPerDisc = 13
  BY DEF MaxSides, SidesPerDisc
<1>3. CASE medium <= 13
  <2> DEFINE base == (medium - 1) * 2
  <2>1. base \in 0 .. 24 /\ base + up < 26
    BY <1>1, <1>3
  <2>2. first = base
    <3>1. FirstSideOf(medium) = OnDisc(medium, "first")
      BY DEF FirstSideOf
    <3>2. OnDisc(medium, "first") = FromIndex(base + 0)
      BY <1>3 DEF OnDisc, SidesPerDisc
    <3>3. FromIndex(base + 0) = base
      <4>1. base \in 0 .. 24
        BY <2>1
      <4> HIDE DEF base
      <4>2. base + 0 = base /\ base < 26
        BY <4>1
      <4> QED
        BY <4>2 DEF FromIndex, MaxSides
    <3> QED
      BY <3>1, <3>2, <3>3
  <2>3. own = base + up
    BY <2>1 DEF OnDisc, FromIndex, MaxSides, SidesPerDisc
  <2> DEFINE letter == IF straight THEN own ELSE far
  <2>4. SideFor(letter, medium) = IF letter >= first THEN letter ELSE FromIndex(first + letter)
    BY <2>1, <2>2 DEF SideFor, NoSide
  <2>5. SideFor(letter, medium) = base + up
    <3>1. CASE straight
      BY <1>1, <2>1, <2>2, <2>3, <2>4, <3>1
    <3>2. CASE ~ straight
      <4>1. letter = up
        BY <1>1, <3>2
      <4>2. CASE base = 0
        BY <1>1, <2>2, <2>4, <4>1, <4>2
      <4>3. CASE base # 0
        <5>1. base >= 2
          BY <1>3, <4>3
        <5>2. ~ (up >= base)
          BY <1>1, <5>1
        <5> QED
          BY <2>1, <2>2, <2>4, <4>1, <5>2 DEF FromIndex, MaxSides
      <4> QED
        BY <4>2, <4>3
    <3> QED
      BY <3>1, <3>2
  <2>6. Disc(base + up) = medium /\ Face(base + up) = face
    <3>1. (base + up) \div 2 = medium - 1 /\ (base + up) % 2 = up
      BY <1>1
    <3> QED
      BY <1>1, <3>1 DEF Disc, Face, SidesPerDisc
  <2> QED
    BY <1>2, <1>3, <2>5, <2>6
<1>4. CASE medium > 13
  <2>1. ~ ((medium - 1) * 2 + 0 < 26)
    BY <1>4
  <2>2. first = NoSide
    BY <1>4, <2>1 DEF FirstSideOf, OnDisc, FromIndex, MaxSides, SidesPerDisc
  <2>3. ~ (medium <= 13)
    BY <1>4
  <2> QED
    BY <1>2, <2>2, <2>3 DEF SideFor
<1> QED
  BY <1>3, <1>4

----------------------------------------------------------------------------
(* Genres.                                                                 *)

\* The words a list of names is made of, and those of its first names.
WordsOf(names) == {names[k].word : k \in DOMAIN names}
WordsTo(names, n) == {names[k].word : k \in 1 .. n}

\* A list of names that has every word once.
Once(out, S, words) ==
  /\ out \in Seq(S)
  /\ \A i, j \in DOMAIN out : out[i].word = out[j].word => i = j
  /\ WordsOf(out) = words

LEMMA PushedOnce ==
  ASSUME NEW S, NEW words, NEW out, Once(out, S, words), NEW name \in S
  PROVE  Once(G!PushOnce(out, name), S, words \cup {name.word})
<1> DEFINE n == Len(out)
           more == Append(out, name)
<1>1. /\ out \in Seq(S) /\ n \in Nat /\ DOMAIN out = 1 .. n
      /\ \A i, j \in 1 .. n : out[i].word = out[j].word => i = j
      /\ words = {out[k].word : k \in 1 .. n}
  BY DEF Once, WordsOf
<1>2. CASE \E i \in 1 .. n : out[i].word = name.word
  <2>1. name.word \in words
    BY <1>1, <1>2
  <2>2. words \cup {name.word} = words
    BY <2>1
  <2>3. G!PushOnce(out, name) = out
    BY <1>1, <1>2 DEF G!PushOnce, G!Fold
  <2> QED
    BY <2>2, <2>3
<1>3. CASE ~ \E i \in 1 .. n : out[i].word = name.word
  <2>1. G!PushOnce(out, name) = more
    BY <1>1, <1>3 DEF G!PushOnce, G!Fold
  <2>2. /\ more \in Seq(S) /\ DOMAIN more = 1 .. n + 1
        /\ \A k \in 1 .. n : more[k] = out[k]
        /\ more[n + 1] = name
    BY <1>1
  <2> HIDE DEF more
  <2>3. \A k \in 1 .. n + 1 : k \in 1 .. n \/ k = n + 1
    BY <1>1
  <2>4. (\A k \in 1 .. n : k \in 1 .. n + 1) /\ n + 1 \in 1 .. n + 1
    BY <1>1
  <2> HIDE DEF n
  <2>5. ASSUME NEW i \in 1 .. n + 1, NEW j \in 1 .. n + 1, more[i].word = more[j].word
        PROVE  i = j
    BY <1>1, <1>3, <2>2, <2>3, <2>5
  <2>6. {more[k].word : k \in 1 .. n + 1} = words \cup {name.word}
    <3>1. \A k \in 1 .. n + 1 : more[k].word \in words \cup {name.word}
      BY <1>1, <2>2, <2>3
    <3>2. ASSUME NEW w \in words
          PROVE  \E k \in 1 .. n + 1 : more[k].word = w
      <4>1. PICK k \in 1 .. n : w = out[k].word
        BY <1>1
      <4> QED
        BY <2>2, <2>4, <4>1
    <3>3. \E k \in 1 .. n + 1 : more[k].word = name.word
      BY <2>2, <2>4
    <3> QED
      BY <3>1, <3>2, <3>3
  <2>7. Once(more, S, words \cup {name.word})
    BY <2>2, <2>5, <2>6 DEF Once, WordsOf
  <2> QED
    BY <2>1, <2>7
<1> QED
  BY <1>2, <1>3

\* One name more.
LEMMA WordsToNext ==
  ASSUME NEW names, NEW n \in Nat
  PROVE  /\ WordsTo(names, 0) = {}
         /\ WordsTo(names, n + 1) = WordsTo(names, n) \cup {names[n + 1].word}
<1>1. 1 .. 0 = {} /\ 1 .. n + 1 = (1 .. n) \cup {n + 1}
  OBVIOUS
<1> QED
  BY <1>1 DEF WordsTo

\* Names pushed one after the other.
Pushed(f, out, names, m) ==
  f = [n \in 0 .. m |-> IF n = 0 THEN out ELSE G!PushOnce(f[n - 1], names[n])]

LEMMA PushedExist ==
  ASSUME NEW out, NEW names, NEW most \in Nat
  PROVE  \E f : Pushed(f, out, names, most)
<1> DEFINE T == {m \in Nat : \E f : Pushed(f, out, names, m)}
           then(x, n) == G!PushOnce(x, names[n])
<1>1. 0 \in T
  <2> DEFINE f == [n \in 0 .. 0 |-> out]
  <2>1. f = [n \in 0 .. 0 |-> IF n = 0 THEN out ELSE then(f[n - 1], n)]
    OBVIOUS
  <2> HIDE DEF f
  <2>2. Pushed(f, out, names, 0)
    BY <2>1 DEF Pushed
  <2> QED
    BY <2>2
<1>2. ASSUME NEW m \in Nat, m \in T
      PROVE  m + 1 \in T
  <2>1. PICK f : Pushed(f, out, names, m)
    BY <1>2
  <2> DEFINE g == [n \in 0 .. m + 1 |-> IF n = 0 THEN out ELSE then(f[n - 1], n)]
  <2>2. ASSUME NEW n \in 0 .. m
        PROVE  g[n] = f[n]
    <3>1. n \in 0 .. m + 1
      OBVIOUS
    <3> QED
      BY <2>1, <3>1 DEF Pushed
  <2>3. ASSUME NEW n \in 0 .. m + 1, n # 0
        PROVE  g[n - 1] = f[n - 1]
    <3>1. n - 1 \in 0 .. m
      BY <2>3
    <3> HIDE DEF g
    <3> QED
      BY <2>2, <3>1
  <2>4. g = [n \in 0 .. m + 1 |-> IF n = 0 THEN out ELSE then(g[n - 1], n)]
    BY <2>3
  <2> HIDE DEF g
  <2>5. Pushed(g, out, names, m + 1)
    BY <2>4 DEF Pushed
  <2> QED
    BY <2>5
<1> HIDE DEF T
<1>3. most \in T
  BY <1>1, <1>2, SetInduction
<1> QED
  BY <1>3 DEF T

LEMMA PushedAll ==
  ASSUME NEW S, NEW words, NEW out, Once(out, S, words), NEW names \in Seq(S)
  PROVE  Once(G!PushAll(out, names), S, words \cup WordsOf(names))
<1> DEFINE count == Len(names)
           pushed == CHOOSE f : Pushed(f, out, names, count)
           T == {n \in Nat : n <= count => Once(pushed[n], S, words \cup WordsTo(names, n))}
<1>1. G!PushAll(out, names) = pushed[count]
  BY DEF G!PushAll, Pushed
<1>2. count \in Nat /\ DOMAIN names = 1 .. count /\ \A k \in 1 .. count : names[k] \in S
  OBVIOUS
<1> HIDE DEF count
<1>3. Pushed(pushed, out, names, count)
  BY <1>2, PushedExist
<1> HIDE DEF pushed
<1>4. 0 \in T
  <2>1. 0 \in 0 .. count
    BY <1>2
  <2>2. pushed[0] = out
    BY <1>3, <2>1 DEF Pushed
  <2>3. words \cup WordsTo(names, 0) = words
    BY WordsToNext
  <2> QED
    BY <2>2, <2>3
<1>5. ASSUME NEW n \in Nat, n \in T
      PROVE  n + 1 \in T
  <2> SUFFICES ASSUME n + 1 <= count
               PROVE  Once(pushed[n + 1], S, words \cup WordsTo(names, n + 1))
    OBVIOUS
  <2> DEFINE before == pushed[n]
             name == names[n + 1]
             seen == words \cup WordsTo(names, n)
  <2>1. n + 1 \in 0 .. count /\ n + 1 # 0 /\ (n + 1) - 1 = n /\ n <= count /\ n + 1 \in 1 .. count
    BY <1>2
  <2>2. pushed[n + 1] = G!PushOnce(before, name)
    BY <1>3, <2>1 DEF Pushed
  <2>3. Once(before, S, seen)
    BY <1>5, <2>1
  <2>4. name \in S
    BY <1>2, <2>1
  <2>5. words \cup WordsTo(names, n + 1) = seen \cup {name.word}
    BY WordsToNext
  <2> HIDE DEF before, name, seen
  <2>6. Once(G!PushOnce(before, name), S, seen \cup {name.word})
    BY <2>3, <2>4, PushedOnce
  <2> QED
    BY <2>2, <2>5, <2>6
<1> HIDE DEF T
<1>6. count \in T
  BY <1>2, <1>4, <1>5, SetInduction
<1>7. WordsTo(names, count) = WordsOf(names)
  BY <1>2 DEF WordsTo, WordsOf
<1> QED
  BY <1>1, <1>2, <1>6, <1>7 DEF T

\* What the first names of a list stand for.
MeantTo(table, names, n) == UNION {WordsOf(G!Lookup(table, names[k])) : k \in 1 .. n}

LEMMA MeantToNext ==
  ASSUME NEW table, NEW names, NEW n \in Nat
  PROVE  /\ MeantTo(table, names, 0) = {}
         /\ MeantTo(table, names, n + 1)
              = MeantTo(table, names, n) \cup WordsOf(G!Lookup(table, names[n + 1]))
<1> DEFINE of(k) == WordsOf(G!Lookup(table, names[k]))
           to(m) == UNION {of(k) : k \in 1 .. m}
<1> HIDE DEF of
<1>1. 1 .. 0 = {} /\ 1 .. n + 1 = (1 .. n) \cup {n + 1}
  OBVIOUS
<1>2. to(0) = {} /\ to(n + 1) = to(n) \cup of(n + 1)
  <2>1. \A w : w \in to(n + 1) <=> w \in to(n) \/ w \in of(n + 1)
    BY <1>1
  <2> QED
    BY <1>1, <2>1
<1> QED
  BY <1>2 DEF MeantTo, of

\* Names looked up and pushed one after the other.
Normalised(f, table, names, m) ==
  f = [n \in 0 .. m |->
         IF n = 0 THEN <<>> ELSE G!PushAll(f[n - 1], G!Lookup(table, names[n]))]

LEMMA NormalisedExist ==
  ASSUME NEW table, NEW names, NEW most \in Nat
  PROVE  \E f : Normalised(f, table, names, most)
<1> DEFINE T == {m \in Nat : \E f : Normalised(f, table, names, m)}
           then(x, n) == G!PushAll(x, G!Lookup(table, names[n]))
<1>1. 0 \in T
  <2> DEFINE f == [n \in 0 .. 0 |-> <<>>]
  <2>1. f = [n \in 0 .. 0 |-> IF n = 0 THEN <<>> ELSE then(f[n - 1], n)]
    OBVIOUS
  <2> HIDE DEF f
  <2>2. Normalised(f, table, names, 0)
    BY <2>1 DEF Normalised
  <2> QED
    BY <2>2
<1>2. ASSUME NEW m \in Nat, m \in T
      PROVE  m + 1 \in T
  <2>1. PICK f : Normalised(f, table, names, m)
    BY <1>2
  <2> DEFINE g == [n \in 0 .. m + 1 |-> IF n = 0 THEN <<>> ELSE then(f[n - 1], n)]
  <2>2. ASSUME NEW n \in 0 .. m
        PROVE  g[n] = f[n]
    <3>1. n \in 0 .. m + 1
      OBVIOUS
    <3> QED
      BY <2>1, <3>1 DEF Normalised
  <2>3. ASSUME NEW n \in 0 .. m + 1, n # 0
        PROVE  g[n - 1] = f[n - 1]
    <3>1. n - 1 \in 0 .. m
      BY <2>3
    <3> HIDE DEF g
    <3> QED
      BY <2>2, <3>1
  <2>4. g = [n \in 0 .. m + 1 |-> IF n = 0 THEN <<>> ELSE then(g[n - 1], n)]
    BY <2>3
  <2> HIDE DEF g
  <2>5. Normalised(g, table, names, m + 1)
    BY <2>4 DEF Normalised
  <2> QED
    BY <2>5
<1> HIDE DEF T
<1>3. most \in T
  BY <1>1, <1>2, SetInduction
<1> QED
  BY <1>3 DEF T

LEMMA NormalisedAll ==
  ASSUME NEW S, NEW table, NEW names \in Seq(S),
         \A k \in 1 .. Len(names) : G!Lookup(table, names[k]) \in Seq(S)
  PROVE  Once(G!NormaliseAll(table, names), S, MeantTo(table, names, Len(names)))
<1> DEFINE count == Len(names)
           after == CHOOSE f : Normalised(f, table, names, count)
           T == {n \in Nat : n <= count => Once(after[n], S, MeantTo(table, names, n))}
<1>1. G!NormaliseAll(table, names) = after[count]
  BY DEF G!NormaliseAll, Normalised
<1>2. count \in Nat /\ \A k \in 1 .. count : G!Lookup(table, names[k]) \in Seq(S)
  OBVIOUS
<1> HIDE DEF count
<1>3. Normalised(after, table, names, count)
  BY <1>2, NormalisedExist
<1> HIDE DEF after
<1>4. 0 \in T
  <2>1. 0 \in 0 .. count
    BY <1>2
  <2>2. after[0] = <<>>
    BY <1>3, <2>1 DEF Normalised
  <2>3. Once(<<>>, S, {})
    BY DEF Once, WordsOf
  <2> QED
    BY <2>2, <2>3, MeantToNext
<1>5. ASSUME NEW n \in Nat, n \in T
      PROVE  n + 1 \in T
  <2> SUFFICES ASSUME n + 1 <= count
               PROVE  Once(after[n + 1], S, MeantTo(table, names, n + 1))
    OBVIOUS
  <2> DEFINE before == after[n]
             said == G!Lookup(table, names[n + 1])
             seen == MeantTo(table, names, n)
  <2>1. n + 1 \in 0 .. count /\ n + 1 # 0 /\ (n + 1) - 1 = n /\ n <= count /\ n + 1 \in 1 .. count
    BY <1>2
  <2>2. after[n + 1] = G!PushAll(before, said)
    BY <1>3, <2>1 DEF Normalised
  <2>3. Once(before, S, seen)
    BY <1>5, <2>1
  <2>4. said \in Seq(S)
    BY <1>2, <2>1
  <2>5. MeantTo(table, names, n + 1) = seen \cup WordsOf(said)
    BY MeantToNext
  <2> HIDE DEF before, said, seen
  <2>6. Once(G!PushAll(before, said), S, seen \cup WordsOf(said))
    BY <2>3, <2>4, PushedAll
  <2> QED
    BY <2>2, <2>5, <2>6
<1> HIDE DEF T
<1>6. count \in T
  BY <1>2, <1>4, <1>5, SetInduction
<1> QED
  BY <1>1, <1>2, <1>6 DEF T, count

\* Places of a sequence: there is a first and a last.
LEMMA FirstAndLast ==
  ASSUME NEW n \in Nat, NEW places, places \subseteq 1 .. n, places # {}
  PROVE  /\ Foremost(places) \in places /\ \A y \in places : Foremost(places) <= y
         /\ Hindmost(places) \in places /\ \A y \in places : Hindmost(places) >= y
<1>1. \E x \in places : \A y \in places : x <= y
  <2>1. places \subseteq Nat
    OBVIOUS
  <2> QED
    BY <2>1, LeastNatural
<1>2. \E x \in places : \A y \in places : x >= y
  <2> DEFINE turned == {n - x : x \in places}
  <2>1. turned \subseteq Nat /\ turned # {}
    <3>1. \A x \in places : n - x \in Nat
      OBVIOUS
    <3>2. PICK x \in places : TRUE
      OBVIOUS
    <3> QED
      BY <3>1, <3>2
  <2>2. PICK z \in turned : \A y \in turned : z <= y
    <3> HIDE DEF turned
    <3> QED
      BY <2>1, LeastNatural
  <2>3. PICK x \in places : z = n - x
    BY <2>2
  <2>4. ASSUME NEW y \in places
        PROVE  x >= y
    <3>1. z <= n - y
      BY <2>2
    <3>2. x \in 1 .. n /\ y \in 1 .. n
      OBVIOUS
    <3> QED
      BY <2>3, <3>1, <3>2
  <2> QED
    BY <2>4
<1> QED
  BY <1>1, <1>2 DEF Foremost, Hindmost

\* What a key means is what its last row says.
LEMMA ExactIsLast ==
  ASSUME NEW table, NEW n \in Nat, DOMAIN table = 1 .. n, NEW key,
         NEW rows, rows = {i \in G!Rows(table) : table[i].key = key}, rows # {}
  PROVE  G!ExactTargets(table, key) = table[Hindmost(rows)].targets
<1> DEFINE Last(i) == /\ i \in G!Rows(table) /\ table[i].key = key
                      /\ \A j \in G!Rows(table) : j > i => table[j].key # key
           listed == G!Rows(table)
           h == Hindmost(rows)
           last == CHOOSE i \in listed :
                     /\ table[i].key = key
                     /\ \A j \in listed : j > i => table[j].key # key
<1>1. listed \subseteq 1 .. n
  BY DEF G!Rows
<1>2. G!ExactTargets(table, key) = table[last].targets
  BY DEF G!ExactTargets
<1> HIDE DEF listed
<1>3. rows = {i \in listed : table[i].key = key}
  BY DEF listed
<1>4. h \in rows /\ \A y \in rows : h >= y
  BY <1>1, <1>3, FirstAndLast
<1> HIDE DEF h
<1>5. h \in listed /\ table[h].key = key /\ \A j \in listed : j > h => table[j].key # key
  <2>1. ASSUME NEW j \in listed, j > h, table[j].key = key
        PROVE  FALSE
    <3>1. j \in rows /\ h >= j
      BY <1>3, <1>4, <2>1
    <3>2. h \in 1 .. n /\ j \in 1 .. n
      BY <1>1, <1>3, <1>4
    <3> QED
      BY <2>1, <3>1, <3>2
  <2> QED
    BY <1>3, <1>4, <2>1
<1>6. last \in listed /\ table[last].key = key /\ \A j \in listed : j > last => table[j].key # key
  BY <1>5
<1> HIDE DEF last
<1>7. last = h
  <2>1. last \in 1 .. n /\ h \in 1 .. n /\ h >= last /\ ~ (h > last)
    BY <1>1, <1>3, <1>4, <1>5, <1>6
  <2> QED
    BY <2>1
<1> QED
  BY <1>2, <1>7 DEF h

\* The spelling that stands for a word is the first one listed.
LEMMA SpellingIsFirst ==
  ASSUME NEW table, NEW n \in Nat, DOMAIN table = 1 .. n, NEW name,
         NEW like, like = {i \in G!Rows(table) : table[i].key.word = name.word}, like # {}
  PROVE  G!FirstSpelling(table, name) = table[Foremost(like)].key
<1> DEFINE listed == G!Rows(table)
           f == Foremost(like)
           first == CHOOSE i \in listed :
                      /\ G!Fold(table[i].key) = G!Fold(name)
                      /\ \A j \in listed : j < i => G!Fold(table[j].key) # G!Fold(name)
<1>1. listed \subseteq 1 .. n
  BY DEF G!Rows
<1>2. G!FirstSpelling(table, name) = table[first].key
  BY DEF G!FirstSpelling
<1> HIDE DEF listed
<1>3. like = {i \in listed : table[i].key.word = name.word}
  BY DEF listed
<1>4. f \in like /\ \A y \in like : f <= y
  BY <1>1, <1>3, FirstAndLast
<1> HIDE DEF f
<1>5. /\ f \in listed /\ table[f].key.word = name.word
      /\ \A j \in listed : j < f => table[j].key.word # name.word
  <2>1. ASSUME NEW j \in listed, j < f, table[j].key.word = name.word
        PROVE  FALSE
    <3>1. j \in like /\ f <= j
      BY <1>3, <1>4, <2>1
    <3>2. f \in 1 .. n /\ j \in 1 .. n
      BY <1>1, <1>3, <1>4
    <3> QED
      BY <2>1, <3>1, <3>2
  <2> QED
    BY <1>3, <1>4, <2>1
<1>6. /\ first \in listed /\ table[first].key.word = name.word
      /\ \A j \in listed : j < first => table[j].key.word # name.word
  BY <1>5 DEF G!Fold
<1> HIDE DEF first
<1>7. first = f
  <2>1. first \in 1 .. n /\ f \in 1 .. n /\ f <= first /\ ~ (f < first)
    BY <1>1, <1>3, <1>4, <1>5, <1>6
  <2> QED
    BY <2>1
<1> QED
  BY <1>2, <1>7 DEF f

(***************************************************************************)
(* What a name means: what the last row of its spelling says, or of the    *)
(* first spelling of its word that is listed; or itself.                   *)
(***************************************************************************)
Meant(table, n) ==
  LET listed == {i \in DOMAIN table : table[i].targets # <<>>}
      same == {i \in listed : table[i].key = n}
      like == {i \in listed : table[i].key.word = n.word}
      first == table[Foremost(like)].key
      rows  == IF same # {} THEN same ELSE {i \in like : table[i].key = first}
  IN  IF like = {} THEN {n.word}
      ELSE {table[Hindmost(rows)].targets[k].word : k \in DOMAIN table[Hindmost(rows)].targets}

LEMMA LookupMeans ==
  ASSUME NEW table, NEW n \in Nat, DOMAIN table = 1 .. n, NEW name
  PROVE  /\ WordsOf(G!Lookup(table, name)) = Meant(table, name)
         /\ \/ G!Lookup(table, name) = <<name>>
            \/ \E i \in 1 .. n : G!Lookup(table, name) = table[i].targets
<1> DEFINE listed == G!Rows(table)
           same == {i \in listed : table[i].key = name}
           like == {i \in listed : table[i].key.word = name.word}
           first == table[Foremost(like)].key
           rows == IF same # {} THEN same ELSE {i \in like : table[i].key = first}
           said == table[Hindmost(rows)].targets
<1>1. Meant(table, name) = IF like = {} THEN {name.word} ELSE WordsOf(said)
  BY DEF Meant, WordsOf, G!Rows
<1>2. listed \subseteq 1 .. n
  BY DEF G!Rows
<1>3. G!HasKey(table, name) <=> same # {}
  BY DEF G!HasKey
<1>4. G!HasFold(table, name) <=> like # {}
  BY DEF G!HasFold, G!Fold
<1>5. same \subseteq like
  OBVIOUS
<1>6. CASE like = {}
  <2>1. G!Lookup(table, name) = <<name>>
    BY <1>3, <1>4, <1>5, <1>6 DEF G!Lookup
  <2>2. WordsOf(<<name>>) = {name.word}
    BY DEF WordsOf
  <2> QED
    BY <1>1, <1>6, <2>1, <2>2
<1>7. ASSUME like # {}, G!Lookup(table, name) = said, Hindmost(rows) \in 1 .. n
      PROVE  /\ WordsOf(G!Lookup(table, name)) = Meant(table, name)
             /\ \E i \in 1 .. n : G!Lookup(table, name) = table[i].targets
  BY <1>1, <1>7
<1>8. CASE same # {}
  <2>1. rows = same
    BY <1>8
  <2>2. G!Lookup(table, name) = G!ExactTargets(table, name)
    BY <1>3, <1>8 DEF G!Lookup
  <2>3. G!ExactTargets(table, name) = table[Hindmost(same)].targets
    BY <1>8, ExactIsLast
  <2>4. Hindmost(same) \in 1 .. n
    BY <1>2, <1>8, FirstAndLast
  <2>5. like # {}
    BY <1>5, <1>8
  <2>6. G!Lookup(table, name) = said /\ Hindmost(rows) \in 1 .. n
    BY <2>1, <2>2, <2>3, <2>4
  <2> QED
    BY <1>7, <2>5, <2>6
<1>9. CASE like # {} /\ same = {}
  <2> DEFINE firsts == {i \in listed : table[i].key = first}
             f == Foremost(like)
  <2>1. f \in like
    BY <1>2, <1>9, FirstAndLast
  <2>2. G!FirstSpelling(table, name) = first
    BY <1>9, SpellingIsFirst
  <2>3. f \in firsts
    BY <2>1
  <2>4. rows = firsts
    <3>1. first.word = name.word
      BY <2>1
    <3>2. \A i \in listed : table[i].key = first => i \in like
      BY <3>1
    <3> HIDE DEF first
    <3>3. {i \in like : table[i].key = first} = firsts
      BY <3>2
    <3> QED
      BY <1>9, <3>3
  <2> HIDE DEF first
  <2>5. G!Lookup(table, name) = G!ExactTargets(table, first)
    BY <1>3, <1>4, <1>9, <2>2 DEF G!Lookup
  <2>6. G!ExactTargets(table, first) = table[Hindmost(firsts)].targets
    BY <2>3, ExactIsLast
  <2>7. Hindmost(firsts) \in 1 .. n
    BY <1>2, <2>3, FirstAndLast
  <2>8. G!Lookup(table, name) = said /\ Hindmost(rows) \in 1 .. n
    BY <2>4, <2>5, <2>6, <2>7
  <2> QED
    BY <1>7, <1>9, <2>8
<1> QED
  BY <1>6, <1>8, <1>9

(***************************************************************************)
(* Nothing of a tracklist is lost, doubled or put on another disc, and a   *)
(* genre is what the table says of it, once.  discogs.rs:435-550,          *)
(* positions.rs:129-148, genres.rs:125-251.                                *)
(***************************************************************************)
THEOREM ReleasesAreRead == Spec => []ReleaseIsRead
<1>1. ASSUME EvaluationInv, Done("tracklist")
      PROVE  Kept(output[1], input[1].rows)
  <2> DEFINE i == input[1]
             rows == i.rows
  <2>1. i \in TracklistInputs /\ output[1] = DiscogsMedia(i.quantity, i.rows)
    BY <1>1, DoneIsEvaluated DEF Inputs, Evaluated
  <2> HIDE DEF i
  <2>2. i.quantity \in Nat /\ rows \in Tracklists
    BY <2>1 DEF TracklistInputs
  <2>3. PICK n \in 0 .. 3 : /\ rows \in [1 .. n -> UNION {RowsAt(k) : k \in 1 .. n}]
                            /\ \A k \in 1 .. n : rows[k].title \in {Blank, k}
    BY <2>2 DEF Tracklists
  <2> HIDE DEF rows
  <2>4. Len(rows) = n /\ DOMAIN rows = 1 .. n /\ n \in Nat
    BY <2>3
  <2>5. ASSUME NEW k \in 1 .. n
        PROVE  ReadableRow(rows[k])
    <3>1. PICK l \in 1 .. n : rows[k] \in RowsAt(l)
      BY <2>3
    <3>2. rows[k].written \in Written
      BY <3>1 DEF RowsAt, Row, BareNumber, Written
    <3>3. rows[k].written.letter \in Nat
      BY <3>2 DEF Written
    <3> QED
      BY <3>3 DEF ReadableRow
  <2>6. Tracklist(rows)
    BY <2>3, <2>4, <2>5 DEF Tracklist
  <2> QED
    BY <2>1, <2>2, <2>6, TracklistKept DEF i, rows
<1>2. ASSUME EvaluationInv, Done("lettering")
      PROVE  IF input[1].medium <= MaxSides \div SidesPerDisc
             THEN Disc(output[1]) = input[1].medium /\ Face(output[1]) = input[1].face
             ELSE output[1] = NoSide
  <2> DEFINE i == input[1]
             side == SideFor(IF i.straight THEN OnDisc(i.medium, i.face) ELSE OnDisc(1, i.face), i.medium)
  <2>1. i \in LetteringInputs /\ output[1] = side
    BY <1>2, DoneIsEvaluated DEF Inputs, Evaluated
  <2> HIDE DEF i
  <2>2. i.medium \in Nat \ {0} /\ i.face \in Faces /\ i.straight \in BOOLEAN
    BY <2>1 DEF LetteringInputs
  <2>3. IF i.medium <= MaxSides \div SidesPerDisc
        THEN Disc(side) = i.medium /\ Face(side) = i.face
        ELSE side = NoSide
    BY <2>2, LetteredOnDisc
  <2> QED
    BY <2>1, <2>3 DEF i
<1>3. EvaluationInv => TracklistIsKept
  BY <1>1, <1>2 DEF TracklistIsKept, Kept, TrackRows
<1>4. EvaluationInv => GenresAreSettled
  <2> SUFFICES ASSUME EvaluationInv, Done("genres")
               PROVE  LET out == output[1]
                      IN  /\ \A i, j \in DOMAIN out : out[i].word = out[j].word => i = j
                          /\ WordsOf(out) = Meant(input[1].table, input[1].names[1])
                                              \cup Meant(input[1].table, input[1].names[2])
    BY DEF GenresAreSettled, Meant, WordsOf
  <2> DEFINE i == input[1]
             table == i.table
             names == i.names
             S == [word : {"jazz", "funk", "folk", "soul"}, spelt : {1, 2, 3}]
             means(k) == Meant(table, names[k])
  <2>1. i \in GenreInputs /\ output[1] = G!NormaliseAll(i.table, i.names)
    BY DoneIsEvaluated DEF Inputs, Evaluated
  <2> HIDE DEF i
  <2>2. PICK n \in 0 .. 2 : table \in [1 .. n -> GenreRow]
    BY <2>1 DEF GenreInputs
  <2>3. PICK a \in Asked, b \in Asked : names = <<a, b>>
    BY <2>1 DEF GenreInputs
  <2>4. a \in S /\ b \in S
    BY DEF Asked, Names
  <2>5. ASSUME NEW k \in 1 .. n
        PROVE  table[k].targets \in Seq(S)
    <3>1. table[k].targets \in {<<>>, <<Plain("jazz")>>, <<Plain("soul"), Plain("funk")>>}
      BY <2>2 DEF GenreRow
    <3>2. Plain("jazz") \in S /\ Plain("soul") \in S /\ Plain("funk") \in S
      BY DEF Plain
    <3> DEFINE jazz == Plain("jazz")
               soul == Plain("soul")
               funk == Plain("funk")
    <3> HIDE DEF S, jazz, soul, funk
    <3>3. table[k].targets \in {<<>>, <<jazz>>, <<soul, funk>>}
      BY <3>1 DEF jazz, soul, funk
    <3>4. jazz \in S /\ soul \in S /\ funk \in S
      BY <3>2 DEF jazz, soul, funk
    <3>5. <<>> \in Seq(S) /\ <<jazz>> \in Seq(S) /\ <<soul, funk>> \in Seq(S)
      BY <3>4
    <3> QED
      BY <3>3, <3>5
  <2> HIDE DEF table, names, S
  <2>6. names \in Seq(S) /\ Len(names) = 2 /\ names[1] = a /\ names[2] = b
    BY <2>3, <2>4
  <2>7. ASSUME NEW k \in 1 .. 2
        PROVE  G!Lookup(table, names[k]) \in Seq(S) /\ WordsOf(G!Lookup(table, names[k])) = means(k)
    <3>1. n \in Nat /\ DOMAIN table = 1 .. n
      BY <2>2
    <3>2. names[k] \in S
      BY <2>6
    <3>3. /\ WordsOf(G!Lookup(table, names[k])) = means(k)
          /\ \/ G!Lookup(table, names[k]) = <<names[k]>>
             \/ \E j \in 1 .. n : G!Lookup(table, names[k]) = table[j].targets
      BY <3>1, LookupMeans
    <3> DEFINE said == G!Lookup(table, names[k])
    <3>4. said \in Seq(S)
      <4> HIDE DEF said
      <4>1. <<names[k]>> \in Seq(S)
        BY <3>2
      <4>2. said = <<names[k]>> \/ \E j \in 1 .. n : said = table[j].targets
        BY <3>3 DEF said
      <4> QED
        BY <2>5, <4>1, <4>2
    <3> QED
      BY <3>3, <3>4
  <2>8. Once(output[1], S, MeantTo(table, names, 2))
    BY <2>1, <2>6, <2>7, NormalisedAll DEF table, names
  <2>9. MeantTo(table, names, 2) = means(1) \cup means(2)
    <3>1. /\ MeantTo(table, names, 0) = {}
          /\ MeantTo(table, names, 0 + 1)
               = MeantTo(table, names, 0) \cup WordsOf(G!Lookup(table, names[0 + 1]))
      BY MeantToNext
    <3>2. MeantTo(table, names, 1 + 1)
            = MeantTo(table, names, 1) \cup WordsOf(G!Lookup(table, names[1 + 1]))
      BY MeantToNext
    <3>3. 0 + 1 = 1 /\ 1 + 1 = 2
      OBVIOUS
    <3> HIDE DEF means
    <3> QED
      BY <2>7, <3>1, <3>2, <3>3
  <2> QED
    BY <2>8, <2>9 DEF Once, table, names, i
<1> QED
  BY <1>3, <1>4, OutputsAreEvaluated, PTL DEF ReleaseIsRead

=============================================================================
