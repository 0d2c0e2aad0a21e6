---------------------------- MODULE MCFabricDump -----------------------------
(* Small instances of FabricDump for TLC. *)
EXTENDS FabricDump, FiniteSetsExt, TLC

\* Fields, block names and values are interchangeable where none is blank.
Interchangeable == Permutations(Fields) \cup Permutations(BlockNames)

\* Bound: the hashes that a dump has read have at most so many pairs together.
MaxPairs == 4

Pairs(hashes) == MapThenSumSet(LAMBDA k : Cardinality(DOMAIN hashes[k]), DOMAIN hashes)

ShortDump ==
    Pairs(readMaps) + Pairs(readBlocks["PORT_OPER"]) + Pairs(readBlocks["OIDS_BEGIN"])
      <= MaxPairs
=============================================================================
