----------------------- MODULE MCCollectionPipeline --------------------------
(* Instances of the pipeline for TLC. *)
EXTENDS CollectionPipeline, TLC

\* IIS servers and collector instances are told apart by their names only.
Symmetry == Permutations(IisServers) \union Permutations(SqlCollectors)
=============================================================================
