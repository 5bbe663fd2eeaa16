---------------------------- MODULE FoldJournal ----------------------------
(***************************************************************************)
(* The fold of span values in emission order: hydra's FoldJournal and the  *)
(* segment algebra of sink.rs it rests on.                                 *)
(*                                                                         *)
(* A hash is the sequence of the values folded into it, so two hashes are  *)
(* equal only when the same values were folded in the same order. A        *)
(* segment of k values is the pair (k, b) of the map h |-> rotl(h, 13 k)   *)
(* xor b in the code; here b is the sequence of its k values, which is     *)
(* what the map stands for. Module SpanFold has the words themselves.      *)
(***************************************************************************)
EXTENDS Integers, Sequences, FiniteSets, SequencesExt

CONSTANT FJ_CAP         \* capacity of a journal

ASSUME JournalAssumption == FJ_CAP \in Nat \ {0}

(* A journal entry: a segment and the span number after its last value. *)
Entry(b, end) == [k |-> Len(b), b |-> b, end |-> end]

(* A fold state: the running hash and the journal of segments not applied to it. *)
NewFold == [hash |-> <<>>, journal |-> <<>>]

fold_compose_apply(hash, b) == hash \o b

(* tree_fold_segments: the pairwise composition of neighbouring segments; *)
(* composition is associative, so the tree equals the segments in a row.  *)
tree_fold_segments(es) == FlattenSeq([i \in DOMAIN es |-> es[i].b])

apply_prefix(f, p) ==
    [hash    |-> fold_compose_apply(f.hash, tree_fold_segments(SubSeq(f.journal, 1, p))),
     journal |-> SubSeq(f.journal, p + 1, Len(f.journal))]

(* FoldJournal::push. Without the tree the segment is applied at once; a full *)
(* journal is applied first.                                                  *)
push(tree, f, b, end) ==
    IF tree
    THEN LET g == IF Len(f.journal) = FJ_CAP THEN apply_prefix(f, FJ_CAP) ELSE f
         IN  [g EXCEPT !.journal = Append(@, Entry(b, end))]
    ELSE [f EXCEPT !.hash = fold_compose_apply(@, b)]

(* The values of a chunk or of a run of results, one entry each. *)
push_values(tree, f, vals, pos) ==
    FoldLeft(LAMBDA g, i : push(tree, g, <<vals[i]>>, pos + i), f, [i \in DOMAIN vals |-> i])

(* Entries that end at or before the boundary; ends ascend. *)
partition_len(f, boundary) ==
    Cardinality({i \in DOMAIN f.journal : f.journal[i].end <= boundary})

flush_upto(f, boundary) == apply_prefix(f, partition_len(f, boundary))

retire_upto(f, boundary) ==
    [f EXCEPT !.journal = SubSeq(@, partition_len(f, boundary) + 1, Len(@))]

flush_all(f) == apply_prefix(f, Len(f.journal))

=============================================================================
