------------------------------ MODULE Attestation ------------------------------
(***************************************************************************)
(* gym/authority_attestation.py: requests with a one-time challenge, the   *)
(* receipts of an attestor that holds the key, and the verifier's tests.   *)
(* Digests are opaque, a MAC is a digest that names its key.               *)
(***************************************************************************)
EXTENDS TrajectoryLedger

AttestationFormat == "proof-gym-authority-attestation-v1"
ReferenceAssurance == "reference_hmac_conformance_only"
ReferenceIssuer == "reference-authority-attestor"

\* What is bound to the verifier's key: the fields of a request.
AttestationRequest(challenge, peer, view, task, context) ==
    [challenge |-> challenge,
     endpoint_locator_sha256 |-> Sha256(peer),
     host_task_commitment |-> Sha256(task),
     agent_task_view_sha256 |-> Sha256(view),
     evaluation_context_sha256 |-> context]

Mac(key, payload) == <<"hmac", key, Sha256(payload)>>

SignedPayload(receipt) == [f \in DOMAIN receipt \ {"mac_sha256"} |-> receipt[f]]

Signed(key, payload) ==
    [f \in DOMAIN payload \cup {"mac_sha256"} |->
        IF f = "mac_sha256" THEN Mac(key, payload) ELSE payload[f]]

\* What an attestor says of a request.
Statement(issuer, request, claims) ==
    [format |-> AttestationFormat, issuer_id |-> issuer, assurance |-> ReferenceAssurance,
     challenge |-> request.challenge,
     endpoint_locator_sha256 |-> request.endpoint_locator_sha256,
     host_task_commitment |-> request.host_task_commitment,
     agent_task_view_sha256 |-> request.agent_task_view_sha256,
     evaluation_context_sha256 |-> request.evaluation_context_sha256,
     claims |-> claims, evidence_sha256 |-> Sha256(issuer)]

\* ReferenceHMACAuthorityAttestor.attest, which signs whatever it is asked.
Attest(key, issuer, request, claims) == Signed(key, Statement(issuer, request, claims))

\* validate_shape: None stands for a field that is not a digest.
ShapeValid(receipt) ==
    /\ receipt.format = AttestationFormat
    /\ \A f \in {"challenge", "endpoint_locator_sha256", "host_task_commitment",
                 "agent_task_view_sha256", "evaluation_context_sha256", "evidence_sha256",
                 "mac_sha256"} : receipt[f] # None

BoundTo(request, receipt) == \A f \in DOMAIN request : receipt[f] = request[f]

\* ReferenceHMACAuthorityVerifier.verify, given the challenges it has consumed.
\* Faulty: the fields of the request are not compared.
VerifiesUnbound(key, consumed, request, receipt) ==
    /\ ShapeValid(receipt)
    /\ request.challenge \notin consumed
    /\ receipt.issuer_id = ReferenceIssuer
    /\ receipt.assurance = ReferenceAssurance
    /\ receipt.mac_sha256 = Mac(key, SignedPayload(receipt))

\* Faulty: a challenge may be verified again.
VerifiesReplayed(key, consumed, request, receipt) ==
    /\ ShapeValid(receipt)
    /\ receipt.issuer_id = ReferenceIssuer
    /\ receipt.assurance = ReferenceAssurance
    /\ BoundTo(request, receipt)
    /\ receipt.mac_sha256 = Mac(key, SignedPayload(receipt))

Verifies(key, consumed, request, receipt) ==
    /\ ShapeValid(receipt)
    /\ request.challenge \notin consumed
    /\ receipt.issuer_id = ReferenceIssuer
    /\ receipt.assurance = ReferenceAssurance
    /\ BoundTo(request, receipt)
    /\ receipt.mac_sha256 = Mac(key, SignedPayload(receipt))

\* Faulty: a refused receipt uses the challenge up.
ConsumedAlways(key, consumed, request, receipt) == consumed \cup {request.challenge}

ConsumedAfter(key, consumed, request, receipt) ==
    IF Verifies(key, consumed, request, receipt)
    THEN consumed \cup {request.challenge} ELSE consumed
=============================================================================
