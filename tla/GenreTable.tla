----------------------------- MODULE GenreTable -----------------------------
(***************************************************************************)
(* The genre table of crates/metadata/src/genres.rs.                       *)
(*                                                                         *)
(* A name is a word and the way it is spelt; two names fold together when  *)
(* their words are equal.  A table is the sequence of its rows, each a key *)
(* and the names it stands for.                                            *)
(***************************************************************************)
EXTENDS Naturals, Sequences

Fold(name) == name.word

(* parse() passes over a row without a target; the others by their place.  *)
Rows(table) == {i \in DOMAIN table : table[i].targets # <<>>}

(* exact: of a key written twice the last row holds.                       *)
HasKey(table, name) == \E i \in Rows(table) : table[i].key = name

ExactTargets(table, name) ==
  table[CHOOSE i \in Rows(table) :
          /\ table[i].key = name
          /\ \A j \in Rows(table) : j > i => table[j].key # name].targets

HasFold(table, name) == \E i \in Rows(table) : Fold(table[i].key) = Fold(name)

\* Mutant: of two spellings the one written last is meant.
LastSpelling(table, name) ==
  table[CHOOSE i \in Rows(table) :
          /\ Fold(table[i].key) = Fold(name)
          /\ \A j \in Rows(table) : j > i => Fold(table[j].key) # Fold(name)].key

(* folded: the first spelling in the file, whatever it finally means.      *)
FirstSpelling(table, name) ==
  table[CHOOSE i \in Rows(table) :
          /\ Fold(table[i].key) = Fold(name)
          /\ \A j \in Rows(table) : j < i => Fold(table[j].key) # Fold(name)].key

(* lookup(): a name nobody lists stands for itself.                        *)
Lookup(table, name) ==
  IF HasKey(table, name) THEN ExactTargets(table, name)
  ELSE IF HasFold(table, name) THEN ExactTargets(table, FirstSpelling(table, name))
  ELSE <<name>>

PushOnce(out, name) ==
  IF \E i \in DOMAIN out : Fold(out[i]) = Fold(name) THEN out ELSE Append(out, name)

PushAll(out, names) ==
  LET pushed[n \in 0 .. Len(names)] ==
        IF n = 0 THEN out ELSE PushOnce(pushed[n - 1], names[n])
  IN  pushed[Len(names)]

(* normalise_all(): every target of every name, the first spelling kept.   *)
NormaliseAll(table, names) ==
  LET after[n \in 0 .. Len(names)] ==
        IF n = 0 THEN <<>> ELSE PushAll(after[n - 1], Lookup(table, names[n]))
  IN  after[Len(names)]
=============================================================================
