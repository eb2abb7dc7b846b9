----------------------------- MODULE MCWorkQueue -----------------------------
(***************************************************************************)
(* Model-checking instances of WorkQueue.                                  *)
(***************************************************************************)
EXTENDS WorkQueue, TLC, Functions, SequencesExt

ServerSymmetry == Permutations(Servers)

Total(seq) == FoldSeq(LAMBDA x, y : x + y, 0, seq)

\* The engine_t records account for every call of engine_routine, whichever
\* server made it and however many servers have come and gone: what is still
\* thread-specific data and what the destructors have put on the list add up
\* to the calls made.
EngineAccounting ==
  FoldFunction(LAMBDA x, y : x + y, 0, tsd) + Total(engine_list) = Len(done)

\* Every request accepted is queued, in one server's hands or processed, once,
\* the engine records add up to the requests processed, and none is left when
\* workq_destroy has returned.
RequestsAccounted == EachRequestOnce /\ EngineAccounting /\ DestroyedDrained
=============================================================================
