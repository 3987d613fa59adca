-------------------------------- MODULE Storage --------------------------------
(***************************************************************************)
(* api/src/storage: manifests kept under their hash, in files or in a      *)
(* bucket.  Files are written over in place, so a write that is cut short, *)
(* by a crash or a full disk, leaves a copy that no reader can parse; a    *)
(* bucket may have taken a write whose answer was lost; routes/manifests.ts *)
(* verifies what is there.                                                 *)
(***************************************************************************)
EXTENDS Naturals, FiniteSets

CONSTANT Manifests  \* manifest hashes

VARIABLE stored     \* what the storage has under each hash

\* A copy that was cut is "torn", or "ruined" when a whole one was there before.
StorageType == [Manifests -> {"absent", "torn", "whole", "ruined"}]

StorageInit == stored = [m \in Manifests |-> "absent"]

Whole(m) == [stored EXCEPT ![m] = "whole"]

Cut(m) ==
    [stored EXCEPT ![m] = IF @ \in {"whole", "ruined"} THEN "ruined" ELSE "torn"]

\* storeManifest returns: store went through, and in strict mode exists did too.
StoreManifest(m) == stored' = Whole(m)

\* What a store that throws may have done: a file cut short, or a PUT whose answer was lost.
LocalStoreFails(m) == {stored, Cut(m)}

R2StoreFails(m) == {stored, Whole(m)}

S3StoreFails(m) == {stored, Whole(m)}

\* storeManifest fails, in strict mode also when exists throws or answers no after a write.
StoreFails(m) == stored' \in LocalStoreFails(m) \cup R2StoreFails(m) \cup S3StoreFails(m)

-------------------------------------------------------------------------------
(* What readers get *)

\* Whether a retrieve may return the manifest: a copy that cannot be parsed reads as none,
\* and so does a request to a bucket that fails.
LocalRetrieves(m) == {stored[m] = "whole"}

R2Retrieves(m) == {stored[m] = "whole", FALSE}

S3Retrieves(m) == {stored[m] = "whole", FALSE}

\* retrieveManifest, when requests get through.
Retrievable(m) == TRUE \in LocalRetrieves(m) \cap R2Retrieves(m) \cap S3Retrieves(m)

\* GET /manifests/:hash, or 404, and the older route under /connectors/webhook
GetManifest(m) ==
    IF Retrievable(m) THEN [found |-> TRUE, manifest |-> m] ELSE [found |-> FALSE]

\* GET /manifests/:hash/verify, or 404: what is there has the hash it is stored under.
VerifyManifest(m) == [found |-> Retrievable(m), verified |-> Retrievable(m)]

MaxBatch == 100

\* POST /manifests/verify-batch
VerifyBatch(hashes) ==
    LET found == {m \in hashes : VerifyManifest(m).found}
    IN  IF Cardinality(hashes) > MaxBatch
        THEN [totalRequested |-> 0, found |-> 0, notFound |-> 0, allVerified |-> FALSE]
        ELSE [totalRequested |-> Cardinality(hashes),
              found |-> Cardinality(found),
              notFound |-> Cardinality(hashes) - Cardinality(found),
              allVerified |-> \A m \in hashes : VerifyManifest(m).verified]
================================================================================
