---------------------------- MODULE Attestation ----------------------------
(* attest(): fetch the attestation bundle under a byte cap, then verify it    *)
(* (ppq-tee/src/attest).  A step is a chunk of the body or one group of       *)
(* checks; the first check that does not hold ends the attestation.  A bundle *)
(* is a record of what the checks can tell apart; that a signature verifies   *)
(* under the right key is a fact about it.                                    *)
EXTENDS AttestationRules

CONSTANTS
    Bundles,       \* what a response body may parse to
    Policies,      \* the TrustPolicies a caller may set
    MaxBundle,     \* MAX_BUNDLE_BYTES
    MaxChunk,      \* bound: the largest chunk the transport delivers
    ReportSize,    \* SNP_REPORT_SIZE
    Now,           \* the clock while the bundle is verified
    Absent         \* no Content-Length

ASSUME AttestationAssumption ==
    /\ MaxBundle \in Nat /\ MaxChunk \in Nat \ {0}
    /\ ReportSize \in Nat /\ Now \in Nat /\ Absent \notin Nat \cup Bundles
    \* The types of Bundle's and TrustPolicy's fields, where they matter.
    /\ \A b \in Bundles : b.signatures \in Seq(BOOLEAN) /\ b.subject \in Seq(STRING)
    /\ \A p \in Policies : p.maxAge \in Nat \cup {NoLimit}

VARIABLES
    stage,       \* what is to be done next, or how attest returned
    body,        \* how many bytes of the response are buffered
    bundle,      \* what the body parsed to, Absent before
    policy,      \* the caller's policy
    verified,    \* history: the parts of the bundle whose signatures held
    relied       \* history: the parts whose claims a decision rests on

inputVars  == <<bundle, policy>>
trustVars  == <<verified, relied>>
vars       == <<stage, body, inputVars, trustVars>>

Errs == {"Http", "Json", "Attestation"}

(* ------------------------------- fetch ------------------------------------ *)
\* No response, a status that is not 2xx, or a body that breaks off.
FetchFails ==
    /\ stage \in {"head", "body"}
    /\ stage' = "Http"
    /\ UNCHANGED <<body, inputVars, trustVars>>

\* An advertised length above the cap is refused before a byte is read.  It
\* binds the body to nothing, and Absent stands for none.
FetchHead ==
    /\ stage = "head"
    /\ \E advertised \in (0..(MaxBundle + 1)) \cup {Absent} :
          stage' = IF advertised # Absent /\ advertised > MaxBundle
                   THEN "Attestation" ELSE "body"
    /\ UNCHANGED <<body, inputVars, trustVars>>

\* Bug: the cap is compared with what was buffered before this chunk.
FetchChunkLate ==
    /\ stage = "body"
    /\ \E n \in 1..MaxChunk :
          IF body > MaxBundle
          THEN stage' = "Attestation" /\ UNCHANGED body
          ELSE body' = body + n /\ UNCHANGED stage
    /\ UNCHANGED <<inputVars, trustVars>>

\* The cap is enforced again on what really arrives.
FetchChunk ==
    /\ stage = "body"
    /\ \E n \in 1..MaxChunk :
          IF body + n > MaxBundle
          THEN stage' = "Attestation" /\ UNCHANGED body
          ELSE body' = body + n /\ UNCHANGED stage
    /\ UNCHANGED <<inputVars, trustVars>>

\* Bug: a body that is no bundle is verified like one.
FetchEndLenient ==
    /\ stage = "body"
    /\ \/ stage' = "Attestation" /\ UNCHANGED bundle
       \/ stage' = "age" /\ bundle' \in Bundles \cup {Absent}
    /\ body' = 0
    /\ UNCHANGED <<policy, trustVars>>

\* The body is complete: it is not UTF-8, not a bundle, or a bundle.  The
\* response and its buffer are dropped.
FetchEnd ==
    /\ stage = "body"
    /\ \/ stage' \in {"Attestation", "Json"} /\ UNCHANGED bundle
       \/ stage' = "age" /\ bundle' \in Bundles
    /\ body' = 0
    /\ UNCHANGED <<policy, trustVars>>

(* ------------------------------ verify ------------------------------------ *)
\* Bug: the report's key is compared with the certificate before the report's
\* own signature is checked.
OrderCertificateEarly ==
    <<"age", "envelope", "signature", "signer", "statement", "decode", "chain",
      "certificate", "report", "accepted">>

\* Bug: the signer is read from a certificate that nothing has verified yet.
OrderSignerEarly ==
    <<"age", "envelope", "signer", "signature", "statement", "decode", "chain",
      "report", "certificate", "accepted">>

\* verify_bundle, with sigstore::verify in front.
Order ==
    <<"age", "envelope", "signature", "signer", "statement", "decode", "chain",
      "report", "certificate", "accepted">>

After(s) == LET i == CHOOSE j \in DOMAIN Order : Order[j] = s IN Order[i + 1]

\* The checks of stage s hold or not; they verify and rely on some parts.
Check(s, holds, verifies, relies) ==
    /\ stage = s
    /\ stage' = IF holds THEN After(s) ELSE "Attestation"
    /\ verified' = IF holds THEN verified \cup verifies ELSE verified
    /\ relied' = relied \cup relies
    /\ UNCHANGED <<body, inputVars>>

\* An empty repository is refused; then the age of the log entry, whose time
\* nothing vouches for yet.
CheckAge ==
    Check("age", /\ policy.signerRepository # ""
                 /\ bundle.integratedTime \in Nat
                 /\ AgeAllowed(bundle.integratedTime, policy.maxAge, Now), {}, {"log"})

\* Bug: an envelope may carry signatures besides the one that is valid.
CheckEnvelopeAny ==
    Check("envelope", bundle.dsse /\ bundle.signatures # <<>> /\ bundle.digestIsHex, {}, {})

CheckEnvelope ==
    Check("envelope", bundle.dsse /\ Len(bundle.signatures) = 1 /\ bundle.digestIsHex, {}, {})

\* sigstore-verify: the certificate chains to Fulcio and the log entry holds,
\* the certificate names the policy's issuer, any signature of the envelope is
\* valid, and any subject of its statement is the digest.
VerifySignature ==
    Check("signature",
          /\ bundle.certified /\ bundle.issuer = policy.oidcIssuer
          /\ \E i \in DOMAIN bundle.signatures : bundle.signatures[i]
          /\ \E i \in DOMAIN bundle.subject : bundle.subject[i] = bundle.digest,
          {"certificate", "statement", "log"}, {})

\* The certificate was issued to exactly one repository, the policy's.
CheckSigner ==
    Check("signer", Len(bundle.repositories) = 1
                    /\ bundle.repositories[1] = policy.signerRepository,
          {}, {"certificate"})

\* The first subject of the statement is the digest, its predicate the pinned
\* type, and its measurement 48 bytes of hex.
CheckStatement ==
    Check("statement",
          /\ bundle.subject # <<>> /\ Head(bundle.subject) = bundle.digest
          /\ bundle.predicateIsSnp /\ bundle.stated.len = 48,
          {}, {"statement"})

\* At most one byte more than a report is inflated (none if the body is not
\* base64 or not gzip); report::parse then wants the exact size, and a version
\* it knows, which nothing has signed yet.
DecodeReport ==
    Check("decode",
          LET out == IF bundle.reportLen > ReportSize THEN ReportSize + 1 ELSE bundle.reportLen
          IN  out <= ReportSize /\ out = ReportSize /\ bundle.version >= 2, {}, {"report"})

\* The VCEK chains to one of the AMD roots; the first that fits is its product.
ChainVcek == Check("chain", bundle.vcek \in {"Milan", "Genoa", "Turin"}, {"vcek"}, {})

\* Every check of verify_report.  The report's own signature is the last of them: what
\* goes before may refuse a report for what it says unsigned.
VerifyReport ==
    Check("report",
          /\ bundle.measurement = bundle.stated
          /\ policy.requireDebugDisabled => ~bundle.debug
          /\ bundle.vmpl = 0
          /\ bundle.vcek \in {"Milan", "Genoa"}
          /\ ~RolledBack(bundle.reportedTcb, bundle.committedTcb)
          /\ bundle.reportSigned,
          {"report"}, {"statement", "vcek", "report"})

\* Bug: an enclave certificate with no names covers every domain.
CheckCertificateNameless ==
    IF policy.checkEnclaveCertificate
    THEN Check("certificate",
               /\ bundle.certKey = bundle.tlsKey
               /\ bundle.san = {} \/ \E n \in bundle.san : DnsNameMatches(n, bundle.domain),
               {}, {"report", "enclaveCert"})
    ELSE Check("certificate", TRUE, {}, {"report"})

\* Key binding before name coverage; the result is read from the report.  Nobody's
\* signature on the enclave's certificate is ever checked, nor is the domain signed.
CheckCertificate ==
    IF policy.checkEnclaveCertificate
    THEN Check("certificate",
               /\ bundle.certKey = bundle.tlsKey
               /\ \E n \in bundle.san : DnsNameMatches(n, bundle.domain),
               {}, {"report", "enclaveCert"})
    ELSE Check("certificate", TRUE, {}, {"report"})

\* attest has returned.
Returned == stage \in Errs \cup {"accepted"} /\ UNCHANGED vars

Init ==
    /\ stage = "head" /\ body = 0
    /\ bundle = Absent /\ policy \in Policies
    /\ verified = {} /\ relied = {}

Next ==
    \/ FetchFails \/ FetchHead \/ FetchChunk \/ FetchEnd
    \/ CheckAge \/ CheckEnvelope \/ VerifySignature \/ CheckSigner \/ CheckStatement
    \/ DecodeReport \/ ChainVcek \/ VerifyReport \/ CheckCertificate
    \/ Returned

Spec == Init /\ [][Next]_vars

(* ------------------------------ properties -------------------------------- *)
\* Types, and that only a bundle is ever verified (bundle.rs:105-113).
TypeOK ==
    /\ stage \in {"head", "body"} \cup {Order[i] : i \in DOMAIN Order} \cup Errs
    /\ body \in Nat /\ policy \in Policies
    /\ stage \in {Order[i] : i \in DOMAIN Order} => bundle # Absent
    /\ verified \subseteq {"log", "certificate", "statement", "vcek", "report"}

\* bundle.rs:67-73: whatever length is advertised and however the body is cut,
\* no more than the cap is ever buffered.
BundleBounded == body <= MaxBundle

\* mod.rs:84-88, sigstore.rs:121 and 134: no decision rests on the signer's
\* certificate, the statement or the VCEK before the signatures that cover them have
\* been checked.  The log's timestamp and the report may refuse a bundle before that
\* (sigstore.rs:82, report.rs:48, verify.rs:38-83), but only refuse: nothing that was
\* believed is still unverified when the report's key is compared and when its keys are
\* handed out, but the enclave's certificate, which nothing ever verifies (domain.rs:18-35).
ReliesOnVerified ==
    /\ relied \subseteq verified \cup {"log", "report", "enclaveCert"}
    /\ stage = "certificate" => relied \subseteq verified
    /\ stage = "accepted" => relied \subseteq verified \cup {"enclaveCert"}

\* The build a bundle speaks for: one the policy's repository signed as this
\* deployment, alone, and recently enough.
BuildIsVouched(b, p) ==
    /\ b.certified /\ b.issuer = p.oidcIssuer /\ b.signatures = <<TRUE>>
    /\ Len(b.repositories) = 1
    /\ b.repositories[1] = p.signerRepository /\ b.repositories[1] # ""
    /\ Len(b.subject) > 0 /\ b.subject[1] = b.digest /\ b.predicateIsSnp
    /\ b.integratedTime <= Now + FutureTolerance
    /\ p.maxAge # NoLimit => Now <= b.integratedTime + p.maxAge

\* The machine it speaks for: AMD hardware not rolled back, running that build.
MachineIsVouched(b, p) ==
    /\ b.reportSigned /\ b.vcek \in {"Milan", "Genoa"} /\ b.vmpl = 0
    /\ b.measurement = b.stated
    /\ b.debug => ~p.requireDebugDisabled
    /\ ~RolledBack(b.reportedTcb, b.committedTcb)

\* mod.rs:43-58, the contract of Attestation: what is accepted is a build the
\* policy trusts, running on hardware that says so, whose certificate carries
\* the attested key and covers the name, if the policy asks for one.
OnlyVouchedAccepted ==
    stage = "accepted" =>
        /\ BuildIsVouched(bundle, policy) /\ MachineIsVouched(bundle, policy)
        /\ policy.checkEnclaveCertificate =>
              /\ bundle.certKey = bundle.tlsKey
              /\ \E n \in bundle.san : DnsNameMatches(n, bundle.domain)

=============================================================================
