---------------------------- MODULE MCTxnPipeline ----------------------------
(* Small instances of TxnPipeline. *)
EXTENDS TxnPipeline, TLC

CONSTANTS c1, c2, n1, store, d1, d2, q1

NoSubs == {}
OneQuery == <<q1>>
NoQuery == << >>

\* Both clients and the model follow every document by path.
AllByPath == Subscribers \X Docs
\* The first client follows everything by path and through the query.
FirstByQuery == {<<c1, q1>>}

ClientsAlike == Permutations(Clients)
DocsAlike == Permutations(Docs)
=============================================================================
