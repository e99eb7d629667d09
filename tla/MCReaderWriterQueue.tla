------------------------ MODULE MCReaderWriterQueue ------------------------
(***************************************************************************)
(* Queues that start with a block for one element or for three, with one   *)
(* that enqueue doubles, and with a circle of blocks.                      *)
(***************************************************************************)
EXTENDS ReaderWriterQueue

SomeShapes == {[max |-> 2, size |-> 1, limit |-> 8],
               [max |-> 2, size |-> 2, limit |-> 8],
               [max |-> 4, size |-> 1, limit |-> 8],
               [max |-> 2, size |-> 4, limit |-> 10]}
=============================================================================
