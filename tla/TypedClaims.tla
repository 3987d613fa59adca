------------------------------ MODULE TypedClaims ------------------------------
(***************************************************************************)
(* EIP-712 claims.  Who signs one and who checks one each has its own copy *)
(* of the domain, of the fields and of their order: the contracts, the     *)
(* SDK, the relayer of the API and the script of the proof pack.  A hash   *)
(* is the tuple of what is hashed; a signature is the signer and the       *)
(* digest that was signed.                                                 *)
(***************************************************************************)
EXTENDS Sequences

Versions == {"CompletionClaim", "CompletionClaimV2", "WitnessClaim"}

Domain(chain, contract) ==
    [name |-> "VRWX", version |-> "1", chainId |-> chain, verifyingContract |-> contract]

\* The domain of the escrow that is deployed, which the relayer is configured with.
Deployed == Domain("base", "escrow")

\* A digest: the domain, the type as it is written, and the values in their order.
Digest(domain, type, fields, values) == <<domain, type, fields, values>>

\* ethers takes the values by the names of the fields.
TypedDigest(domain, type, fields, claim) ==
    Digest(domain, type, fields, [i \in DOMAIN fields |-> claim[fields[i][1]]])

-------------------------------------------------------------------------------
(* The contracts *)

\* The strings under the type hashes of EIP712Types.
SolidityFields(type) ==
    CASE type = "CompletionClaim" ->
            << <<"jobId", "uint256">>, <<"jobSpecHash", "bytes32">>,
               <<"completionHash", "bytes32">>, <<"robotId", "bytes32">>,
               <<"controller", "address">>, <<"deadline", "uint256">> >>
      [] type = "CompletionClaimV2" ->
            << <<"jobId", "uint256">>, <<"jobSpecHash", "bytes32">>,
               <<"completionHash", "bytes32">>, <<"robotId", "bytes32">>,
               <<"controller", "address">>, <<"deadline", "uint256">>,
               <<"qualityScore", "uint8">>, <<"workUnits", "uint32">> >>
      [] type = "WitnessClaim" ->
            << <<"jobId", "uint256">>, <<"completionHash", "bytes32">>,
               <<"witness", "address">>, <<"issuedAt", "uint256">> >>

HashCompletionClaim(c) ==
    <<c.jobId, c.jobSpecHash, c.completionHash, c.robotId, c.controller, c.deadline>>

\* A plausible slip: two numbers of one size, in the other order.
HashCompletionClaimV2Swapped(c) == HashCompletionClaim(c) \o <<c.workUnits, c.qualityScore>>

HashCompletionClaimV2(c) == HashCompletionClaim(c) \o <<c.qualityScore, c.workUnits>>

HashWitnessClaim(c) == <<c.jobId, c.completionHash, c.witness, c.issuedAt>>

\* What abi.encode puts after the type hash.
Encoded(type, c) ==
    CASE type = "CompletionClaim"   -> HashCompletionClaim(c)
      [] type = "CompletionClaimV2" -> HashCompletionClaimV2(c)
      [] type = "WitnessClaim"      -> HashWitnessClaim(c)

ContractDigest(type, c) == Digest(Deployed, type, SolidityFields(type), Encoded(type, c))

\* submitCompletion and submitCompletionV2: the claim is put together from the job and the
\* registry, and must have been signed by the controller of the robot.
EscrowAccepts(type, c, signature) ==
    signature.by = c.controller /\ signature.digest = ContractDigest(type, c)

-------------------------------------------------------------------------------
(* The SDK *)

SDKFields(type) ==
    CASE type = "CompletionClaim" ->
            << <<"jobId", "uint256">>, <<"jobSpecHash", "bytes32">>,
               <<"completionHash", "bytes32">>, <<"robotId", "bytes32">>,
               <<"controller", "address">>, <<"deadline", "uint256">> >>
      [] type = "CompletionClaimV2" ->
            << <<"jobId", "uint256">>, <<"jobSpecHash", "bytes32">>,
               <<"completionHash", "bytes32">>, <<"robotId", "bytes32">>,
               <<"controller", "address">>, <<"deadline", "uint256">>,
               <<"qualityScore", "uint8">>, <<"workUnits", "uint32">> >>
      [] type = "WitnessClaim" ->
            << <<"jobId", "uint256">>, <<"completionHash", "bytes32">>,
               <<"witness", "address">>, <<"issuedAt", "uint256">> >>

SDKDigest(domain, type, c) == TypedDigest(domain, type, SDKFields(type), c)

\* verifyTypedData recovers the signer of this claim, or some other address.
SDKRecovers(type, c, signature, who) ==
    signature.by = who /\ signature.digest = SDKDigest(Deployed, type, c)

-------------------------------------------------------------------------------
(* The relayer, whose typed data clients sign, and the proof pack *)

RelayerFields ==
    << <<"jobId", "uint256">>, <<"jobSpecHash", "bytes32">>, <<"completionHash", "bytes32">>,
       <<"robotId", "bytes32">>, <<"controller", "address">>, <<"deadline", "uint256">>,
       <<"qualityScore", "uint8">>, <<"workUnits", "uint32">> >>

RelayerDigest(c) == TypedDigest(Deployed, "CompletionClaimV2", RelayerFields, c)

\* verifyControllerSignature, for a robot that is active.
RelayerAccepts(c, signature) == signature.by = c.controller /\ signature.digest = RelayerDigest(c)

ProofPackFields ==
    << <<"jobId", "uint256">>, <<"jobSpecHash", "bytes32">>, <<"completionHash", "bytes32">>,
       <<"robotId", "bytes32">>, <<"controller", "address">>, <<"deadline", "uint256">> >>

ProofPackDigest(domain, c) == TypedDigest(domain, "CompletionClaim", ProofPackFields, c)

-------------------------------------------------------------------------------
(* Who signs and who checks *)

Signers(type) ==
    {"sdk"} \cup (IF type = "CompletionClaim" THEN {"proof-pack"} ELSE {})
            \cup (IF type = "CompletionClaimV2" THEN {"typedData"} ELSE {})

\* The typed data of the API name the configured chain and escrow.
SignedDigest(signer, domain, type, c) ==
    CASE signer = "sdk"        -> SDKDigest(domain, type, c)
      [] signer = "proof-pack" -> ProofPackDigest(domain, c)
      [] signer = "typedData"  -> RelayerDigest(c)

Checkers(type) ==
    {"sdk", "contract"} \cup (IF type = "CompletionClaimV2" THEN {"relayer"} ELSE {})

\* No contract takes a witness's signature; EIP712Types has its hash.
Accepts(checker, type, c, signature) ==
    CASE checker = "contract" /\ type # "WitnessClaim" -> EscrowAccepts(type, c, signature)
      [] checker = "contract" /\ type = "WitnessClaim" ->
            signature.by = c.witness /\ signature.digest = ContractDigest(type, c)
      [] checker = "sdk" ->
            SDKRecovers(type, c, signature,
                        IF type = "WitnessClaim" THEN c.witness ELSE c.controller)
      [] checker = "relayer" -> RelayerAccepts(c, signature)

-------------------------------------------------------------------------------
(* Two jobs of one robot, alike but for their ids *)

Claims(type) ==
    IF type = "WitnessClaim"
    THEN [jobId : {1, 2}, completionHash : {"m1", "m2"}, witness : {"controller"},
          issuedAt : {7, 8}]
    ELSE [jobId : {1, 2}, jobSpecHash : {"spec"}, completionHash : {"m1", "m2"},
          robotId : {"r1"}, controller : {"controller"}, deadline : {9},
          qualityScore : IF type = "CompletionClaimV2" THEN {100, 120} ELSE {0},
          workUnits : IF type = "CompletionClaimV2" THEN {1, 100} ELSE {0}]

Domains == {Domain(chain, contract) : chain \in {"base", "sepolia"}, contract \in {"escrow", "old"}}
================================================================================
