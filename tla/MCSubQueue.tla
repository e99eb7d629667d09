----------------------------- MODULE MCSubQueue -----------------------------
(***************************************************************************)
(* Small sub-queues.  Those that cross the wrap of index_t were used and    *)
(* emptied before; with five elements they need three blocks, and so an     *)
(* index of more than two.  The others have longer bulk operations, over    *)
(* two blocks.                                                              *)
(***************************************************************************)
EXTENDS SubQueue, TLC

Symm == Permutations(Consumers)

ExplicitWraps ==
  [explicit |-> TRUE, wrap |-> 16, start |-> 14, total |-> 5, bulk |-> 2,
   take |-> 1, index |-> 2, pool |-> 1, maxSize |-> 4, throws |-> FALSE]
ExplicitBulk ==
  [ExplicitWraps EXCEPT !.wrap = 32, !.start = 0, !.total = 4, !.bulk = 3,
                        !.take = 3, !.index = 4, !.pool = 3, !.maxSize = 16]
ImplicitWraps == [ExplicitWraps EXCEPT !.explicit = FALSE, !.maxSize = 16]
ImplicitBulk ==
  [ExplicitBulk EXCEPT !.explicit = FALSE, !.index = 2, !.pool = 1,
                       !.maxSize = 4, !.throws = TRUE]

SomeShapes == {ExplicitWraps, ExplicitBulk, ImplicitWraps, ImplicitBulk}

\* A bulk enqueue may fail after it took a block.
MayFailHalfway == {[ExplicitBulk EXCEPT !.total = 6, !.pool = 2, !.take = 1]}
=============================================================================
