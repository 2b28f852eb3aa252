-------------------------------- MODULE MCCat ---------------------------------
(* The CAT on small sections: descriptors that share a section, fill one or *)
(* fit in none, and a section length changed between builds.                *)
EXTENDS Cat

Promise == INSTANCE SectionedTable WITH
  Overhead <- 3 + BASE_LENGTH + CRC_LEN,
  entries <- descriptors,
  out <- Shown,
  failed <- state = "ABORTED"

\* The CAT implements the promise of a sectioned table: building sections one
\* case at a time has no effect but the one atomic packing of the entries.
KeepsPromise == Promise!Spec
==============================================================================
