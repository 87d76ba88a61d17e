------------------------------ MODULE Resolver ------------------------------
(***************************************************************************)
(* What the detectors of a side report, and what the project should        *)
(* believe: resolve() of signal/src/resolve.rs and the promotion policy of *)
(* core/src/adopt.rs.                                                      *)
(*                                                                         *)
(* An observation is a position, an edge and the provenance that reported  *)
(* it; rows read back from the project are observations too.  Confidence   *)
(* is abstracted to `sure`, the detector that is most confident in a pass: *)
(* it decides the provenance of record and nothing else.                   *)
(***************************************************************************)
EXTENDS Integers, FiniteSets, FiniteSetsExt

CONSTANTS
    Detectors,   \* the automatic provenances
    Tolerance,   \* Tolerance::frames, of the resolver and of the policy
    MinSources   \* Policy::min_sources

ASSUME ResolverAssumption ==
    /\ "user" \notin Detectors
    /\ Tolerance \in Nat /\ MinSources \in Nat

Edges == {"start", "end"}

Provenances == Detectors \cup {"user"}

Apart(a, b) == IF a < b THEN b - a ELSE a - b

\* Rule 1: the positions between a and b are joined when no step of the chain is
\* wider than the tolerance.
Chained(ats, a, b) ==
    \A p \in ats : (a <= p /\ p < b) => \E q \in ats : p < q /\ q <= p + Tolerance

Cluster(O, o) ==
    LET same == {p \in O : p.edge = o.edge}
        ats  == {p.at : p \in same}
    IN  {p \in same : Chained(ats, o.at, p.at) /\ Chained(ats, p.at, o.at)}

ProvenancesOf(C) == {o.prov : o \in C}

\* Rule 4: the earliest start, the latest end.
Automatic(C, edge, sure) ==
    LET ats   == {o.at : o \in C}
        provs == ProvenancesOf(C)
    IN  [at |-> IF edge = "start" THEN Min(ats) ELSE Max(ats), edge |-> edge,
         prov |-> IF sure \in provs THEN sure ELSE CHOOSE p \in provs : TRUE,
         sources |-> provs, locked |-> FALSE]

\* The user observation the others of a cluster are attached to; the first of two
\* that are equally far.
Nearest(users, o) ==
    CHOOSE u \in users :
        \A v \in users : \/ Apart(u.at, o.at) < Apart(v.at, o.at)
                         \/ Apart(u.at, o.at) = Apart(v.at, o.at) /\ u.at <= v.at

\* Rule 2: a user boundary fixes the position and keeps its own decision.
Anchored(C, u) ==
    LET users == {o \in C : o.prov = "user"}
    IN  [at |-> u.at, edge |-> u.edge, prov |-> "user", locked |-> TRUE,
         sources |-> {"user"}
            \cup ProvenancesOf({o \in C \ users : Nearest(users, o) = u})]

Decide(C, edge, sure) ==
    LET users == {o \in C : o.prov = "user"}
    IN  IF users = {} THEN {Automatic(C, edge, sure)}
                      ELSE {Anchored(C, u) : u \in users}

Clusters(O) == {Cluster(O, o) : o \in O}

Resolve(O, sure) == UNION {Decide(C, (CHOOSE o \in C : TRUE).edge, sure) : C \in Clusters(O)}

-----------------------------------------------------------------------------
\* Policy::accepts
Accepts(d) == d.locked \/ Cardinality(d.sources) >= MinSources

\* A locked row already speaks for this decision.
SettledBy(locked, d) ==
    \E r \in locked : r.edge = d.edge /\ Apart(r.at, d.at) <= Tolerance

\* The decisions adopt_decisions() writes.
Adopted(decisions, locked) ==
    {d \in decisions : Accepts(d) /\ (d.locked \/ ~SettledBy(locked, d))}
=============================================================================
