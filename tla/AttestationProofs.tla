------------------------- MODULE AttestationProofs --------------------------
(* What attest() accepts, for any bundle, any policy, any cap and any way the *)
(* body is cut into chunks.                                                   *)
EXTENDS MCAttestation, SequenceTheorems, TLAPS

\* The stages at which the checks of a stage are known to have held.
PastChain       == {"report", "certificate", "accepted"}
PastReport      == {"certificate", "accepted"}
PastStatement   == {"decode", "chain"} \cup PastChain
PastSigner      == {"statement"} \cup PastStatement
PastSignature   == {"signer"} \cup PastSigner
PastEnvelope    == {"signature"} \cup PastSignature
PastAge         == {"envelope"} \cup PastEnvelope
Verifying       == {"age"} \cup PastAge

\* What the passed checks say of the bundle.
ChecksInv ==
    /\ stage \in Verifying => bundle \in Bundles
    /\ stage \in PastAge =>
          /\ policy.signerRepository # "" /\ bundle.integratedTime \in Nat
          /\ AgeAllowed(bundle.integratedTime, policy.maxAge, Now)
    /\ stage \in PastEnvelope => Len(bundle.signatures) = 1
    /\ stage \in PastSignature =>
          /\ bundle.certified /\ bundle.issuer = policy.oidcIssuer
          /\ \E i \in DOMAIN bundle.signatures : bundle.signatures[i]
    /\ stage \in PastSigner =>
          Len(bundle.repositories) = 1 /\ bundle.repositories[1] = policy.signerRepository
    /\ stage \in PastStatement =>
          bundle.subject # <<>> /\ Head(bundle.subject) = bundle.digest /\ bundle.predicateIsSnp
    /\ stage \in PastReport => MachineIsVouched(bundle, policy)
    /\ stage = "accepted" /\ policy.checkEnclaveCertificate =>
          /\ bundle.certKey = bundle.tlsKey
          /\ \E n \in bundle.san : DnsNameMatches(n, bundle.domain)

\* What they have verified, so that later stages may rely on it.
TrustInv ==
    /\ stage \in PastSignature => {"certificate", "statement", "log"} \subseteq verified
    /\ stage \in PastChain => "vcek" \in verified
    /\ stage \in PastReport => "report" \in verified

\* Until the last check nothing is believed of the enclave's own certificate.
CertUnread == stage \notin {"accepted"} \cup Errs => "enclaveCert" \notin relied

IInv == TypeOK /\ BundleBounded /\ ChecksInv /\ TrustInv /\ CertUnread /\ ReliesOnVerified

-----------------------------------------------------------------------------
\* The stages of verify_bundle, each with the one after it.
LEMMA Follows ==
    /\ After("age") = "envelope" /\ After("envelope") = "signature"
    /\ After("signature") = "signer" /\ After("signer") = "statement"
    /\ After("statement") = "decode" /\ After("decode") = "chain"
    /\ After("chain") = "report" /\ After("report") = "certificate"
    /\ After("certificate") = "accepted"
BY DEF After, Order

LEMMA Stages ==
    {Order[i] : i \in DOMAIN Order} = Verifying
BY DEF Order, Verifying, PastAge, PastEnvelope, PastSignature, PastSigner, PastStatement,
       PastChain, PastReport

-----------------------------------------------------------------------------
\* Before the bundle is parsed nothing is known, and an attestation that has failed
\* keeps only that no decision rested on what was not verified.
LEMMA QuietKeeps ==
    ASSUME IInv, stage \in {"head", "body"}, stage' \in {"body"} \cup Errs,
           body' \in Nat, body' <= MaxBundle,
           UNCHANGED <<inputVars, trustVars>>
    PROVE  IInv'
<1>1. /\ stage' \notin Verifying /\ UNCHANGED <<bundle, policy, verified, relied>>
      /\ stage' \in {"head", "body"} \cup Errs
  BY DEF inputVars, trustVars, Errs, Verifying, PastAge, PastEnvelope, PastSignature, PastSigner,
     PastStatement, PastChain, PastReport
<1>2. TypeOK'
  BY <1>1, Stages DEF IInv, TypeOK
<1>3. ChecksInv' /\ TrustInv' /\ BundleBounded'
  BY <1>1 DEF IInv, BundleBounded, ChecksInv, TrustInv, Verifying, PastAge,
     PastEnvelope, PastSignature, PastSigner, PastStatement, PastChain, PastReport
<1>4. CertUnread' /\ ReliesOnVerified'
  BY <1>1 DEF IInv, CertUnread, ReliesOnVerified, Errs
<1>5. QED
  BY <1>2, <1>3, <1>4 DEF IInv

LEMMA FetchInv ==
    ASSUME IInv, FetchFails \/ FetchHead \/ FetchChunk PROVE IInv'
<1>1. body \in Nat /\ body <= MaxBundle
  BY DEF IInv, TypeOK, BundleBounded
<1>2. CASE FetchFails
  BY <1>1, <1>2, QuietKeeps DEF FetchFails, Errs
<1>3. CASE FetchHead
  BY <1>1, <1>3, QuietKeeps DEF FetchHead, Errs
<1>4. CASE FetchChunk
  <2>1. /\ stage' \in {"body", "Attestation"} /\ UNCHANGED <<inputVars, trustVars>>
        /\ body' = body \/ (\E n \in 1..MaxChunk : ~(body + n > MaxBundle) /\ body' = body + n)
    BY <1>4 DEF FetchChunk
  <2>2. body' \in Nat /\ body' <= MaxBundle
    BY <1>1, <2>1, AttestationAssumption
  <2>3. QED
    BY <1>4, <2>1, <2>2, QuietKeeps DEF FetchChunk, Errs
<1>5. QED
  BY <1>2, <1>3, <1>4

\* The body is a bundle, which is what will be verified, or the attestation fails.
LEMMA FetchEndInv == ASSUME IInv, FetchEnd PROVE IInv'
<1>1. MaxBundle \in Nat /\ body' = 0 /\ body' \in Nat /\ body' <= MaxBundle
  BY AttestationAssumption DEF FetchEnd
<1>2. CASE stage' \in {"Attestation", "Json"} /\ UNCHANGED bundle
  BY <1>1, <1>2, QuietKeeps DEF FetchEnd, inputVars, Errs
<1>3. CASE stage' = "age" /\ bundle' \in Bundles
  <2>1. UNCHANGED <<policy, verified, relied>>
    BY DEF FetchEnd, trustVars
  <2>2. TypeOK' /\ BundleBounded'
    BY <1>1, <1>3, <2>1, Stages, AttestationAssumption DEF IInv, TypeOK, BundleBounded, Verifying
  <2>3. ChecksInv' /\ TrustInv'
    BY <1>3 DEF ChecksInv, TrustInv, PastAge, PastEnvelope, PastSignature, PastSigner,
       PastStatement, PastChain, PastReport
  <2>4. CertUnread' /\ ReliesOnVerified'
    BY <1>3, <2>1 DEF IInv, FetchEnd, CertUnread, ReliesOnVerified, Errs
  <2>5. QED
    BY <2>2, <2>3, <2>4 DEF IInv
<1>4. QED
  BY <1>2, <1>3 DEF FetchEnd

-----------------------------------------------------------------------------
(* A group of checks fails or holds.  The claims it relies on are verified, or  *)
(* of a part that needs no signature yet; what it verifies is added, and nothing *)
(* is taken back.                                                                *)
\* The parts a decision may rest on before, or without, a signature that covers them.
Unsigned == {"log", "report", "enclaveCert"}
Readable(s) == IF s = "certificate" THEN Unsigned ELSE {"log", "report"}

Parts == {"log", "certificate", "statement", "vcek", "report"}

\* The checks do not hold: the attestation fails.
LEMMA CheckFails ==
    ASSUME IInv, NEW s \in Verifying, NEW holds, NEW verifies, NEW relies,
           Check(s, holds, verifies, relies), ~holds, relies \subseteq verified \cup Readable(s)
    PROVE  IInv'
<1>1. stage' = "Attestation" /\ verified' = verified /\ relied' = relied \cup relies
      /\ UNCHANGED <<body, bundle, policy>>
  BY DEF Check, inputVars
<1>2. stage' \notin Verifying /\ stage' \in Errs
  BY <1>1 DEF Errs, Verifying, PastAge, PastEnvelope, PastSignature, PastSigner, PastStatement,
     PastChain
<1>3. TypeOK' /\ BundleBounded'
  BY <1>1, <1>2, Stages DEF IInv, TypeOK, BundleBounded
<1>4. ChecksInv' /\ TrustInv'
  BY <1>1, <1>2 DEF ChecksInv, TrustInv, Verifying, PastAge, PastEnvelope, PastSignature,
     PastSigner, PastStatement, PastChain, PastReport
<1>5. CertUnread' /\ ReliesOnVerified'
  BY <1>1, <1>2 DEF IInv, CertUnread, ReliesOnVerified, Readable, Unsigned, Verifying, Errs
<1>6. QED
  BY <1>3, <1>4, <1>5 DEF IInv

\* The checks hold: what they say of the bundle is known from the next stage on.
LEMMA CheckHolds ==
    ASSUME IInv, NEW s \in Verifying \ {"accepted"}, NEW holds, NEW verifies \in SUBSET Parts,
           NEW relies, Check(s, holds, verifies, relies), holds,
           relies \subseteq verified \cup Readable(s),
           After(s) \in PastAge, ChecksInv', TrustInv'
    PROVE  IInv'
<1>1. /\ stage = s /\ stage' = After(s) /\ verified' = verified \cup verifies
      /\ relied' = relied \cup relies /\ UNCHANGED <<body, bundle, policy>>
  BY DEF Check, inputVars
<1>2. TypeOK' /\ BundleBounded'
  BY <1>1, Stages DEF IInv, TypeOK, BundleBounded, Parts, Verifying
<1>3. CertUnread'
  <2>1. s # "certificate" => "enclaveCert" \notin relies
    BY DEF IInv, TypeOK, Readable
  <2>2. stage \notin {"accepted"} \cup Errs
    BY <1>1 DEF Errs, Verifying, PastAge, PastEnvelope, PastSignature, PastSigner,
       PastStatement, PastChain
  <2>3. s = "certificate" => stage' = "accepted"
    BY <1>1, Follows
  <2>4. QED
    BY <1>1, <2>1, <2>2, <2>3 DEF IInv, CertUnread
<1>4. ReliesOnVerified'
  <2>1. relied' \subseteq verified' \cup Unsigned
    BY <1>1 DEF IInv, ReliesOnVerified, Readable, Unsigned
  <2>2. stage' \in {"certificate", "accepted"} => {"log", "report"} \subseteq verified'
    BY DEF TrustInv, PastSignature, PastSigner, PastStatement, PastChain, PastReport
  <2>3. stage' = "certificate" => "enclaveCert" \notin relied'
    BY <1>3 DEF CertUnread, Errs
  <2>4. QED
    BY <2>1, <2>2, <2>3 DEF ReliesOnVerified, Unsigned
<1>5. QED
  BY <1>2, <1>3, <1>4 DEF IInv

-----------------------------------------------------------------------------
\* What every check leaves alone, and where it leads.
LEMMA CheckMoves ==
    ASSUME NEW s, NEW holds, NEW verifies, NEW relies, Check(s, holds, verifies, relies)
    PROVE  /\ stage = s /\ UNCHANGED <<bundle, policy>>
           /\ holds => stage' = After(s) /\ verified' = verified \cup verifies
BY DEF Check, inputVars

LEMMA CheckAgeInv == ASSUME IInv, CheckAge PROVE IInv'
<1> DEFINE holds == /\ policy.signerRepository # ""
                    /\ bundle.integratedTime \in Nat
                    /\ AgeAllowed(bundle.integratedTime, policy.maxAge, Now)
<1>1. Check("age", holds, {}, {"log"}) /\ stage = "age" /\ "age" \in Verifying \ {"accepted"}
  BY DEF CheckAge, Check, Verifying
<1>2. {"log"} \subseteq verified \cup Readable("age")
  BY DEF Readable
<1>3. CASE holds
  <2>1. stage' = "envelope" /\ UNCHANGED <<bundle, policy>>
    BY <1>1, <1>3, CheckMoves, Follows
  <2>2. ChecksInv' /\ TrustInv'
    BY <1>1, <1>3, <2>1 DEF IInv, ChecksInv, TrustInv, Verifying, PastAge, PastEnvelope,
       PastSignature, PastSigner, PastStatement, PastChain, PastReport
  <2>3. After("age") \in PastAge
    BY Follows DEF PastAge
  <2>4. QED
    BY <1>1, <1>2, <1>3, <2>2, <2>3, CheckHolds
<1>4. QED
  BY <1>1, <1>2, <1>3, CheckFails

LEMMA CheckEnvelopeInv == ASSUME IInv, CheckEnvelope PROVE IInv'
<1> DEFINE holds == bundle.dsse /\ Len(bundle.signatures) = 1 /\ bundle.digestIsHex
<1>1. Check("envelope", holds, {}, {}) /\ stage = "envelope"
      /\ "envelope" \in Verifying \ {"accepted"}
  BY DEF CheckEnvelope, Check, Verifying, PastAge
<1>2. CASE holds
  <2>1. stage' = "signature" /\ UNCHANGED <<bundle, policy>>
    BY <1>1, <1>2, CheckMoves, Follows
  <2>2. ChecksInv' /\ TrustInv'
    BY <1>1, <1>2, <2>1 DEF IInv, ChecksInv, TrustInv, Verifying, PastAge, PastEnvelope,
       PastSignature, PastSigner, PastStatement, PastChain, PastReport
  <2>3. After("envelope") \in PastAge
    BY Follows DEF PastAge, PastEnvelope
  <2>4. QED
    BY <1>1, <1>2, <2>2, <2>3, CheckHolds
<1>3. QED
  BY <1>1, <1>2, CheckFails

LEMMA VerifySignatureInv == ASSUME IInv, VerifySignature PROVE IInv'
<1> DEFINE verifies == {"certificate", "statement", "log"}
<1>0. PICK holds : /\ Check("signature", holds, verifies, {})
                   /\ holds => /\ bundle.certified /\ bundle.issuer = policy.oidcIssuer
                               /\ \E i \in DOMAIN bundle.signatures : bundle.signatures[i]
  BY DEF VerifySignature
<1>1. Check("signature", holds, verifies, {}) /\ stage = "signature"
      /\ "signature" \in Verifying \ {"accepted"} /\ verifies \in SUBSET Parts
  BY <1>0 DEF Check, Verifying, PastAge, PastEnvelope, Parts
<1>2. CASE holds
  <2>1. stage' = "signer" /\ UNCHANGED <<bundle, policy>> /\ verified' = verified \cup verifies
    BY <1>1, <1>2, CheckMoves, Follows
  <2>2. ChecksInv' /\ TrustInv'
    BY <1>0, <1>1, <1>2, <2>1 DEF IInv, ChecksInv, TrustInv, Verifying, PastAge, PastEnvelope,
       PastSignature, PastSigner, PastStatement, PastChain, PastReport
  <2>3. After("signature") \in PastAge
    BY Follows DEF PastAge, PastEnvelope, PastSignature
  <2>4. {} \subseteq verified \cup Readable("signature")
    OBVIOUS
  <2> HIDE DEF verifies
  <2>5. QED
    BY <1>1, <1>2, <2>2, <2>3, <2>4, CheckHolds
<1>3. QED
  BY <1>1, <1>2, CheckFails

LEMMA CheckSignerInv == ASSUME IInv, CheckSigner PROVE IInv'
<1> DEFINE holds == /\ Len(bundle.repositories) = 1
                    /\ bundle.repositories[1] = policy.signerRepository
<1>1. Check("signer", holds, {}, {"certificate"}) /\ stage = "signer"
      /\ "signer" \in Verifying \ {"accepted"}
  BY DEF CheckSigner, Check, Verifying, PastAge, PastEnvelope, PastSignature
<1>2. {"certificate"} \subseteq verified \cup Readable("signer")
  BY <1>1 DEF IInv, TrustInv, PastSignature
<1>3. CASE holds
  <2>1. stage' = "statement" /\ UNCHANGED <<bundle, policy>> /\ verified' = verified \cup {}
    BY <1>1, <1>3, CheckMoves, Follows
  <2>2. ChecksInv' /\ TrustInv'
    BY <1>1, <1>3, <2>1 DEF IInv, ChecksInv, TrustInv, Verifying, PastAge, PastEnvelope,
       PastSignature, PastSigner, PastStatement, PastChain, PastReport
  <2>3. After("signer") \in PastAge
    BY Follows DEF PastAge, PastEnvelope, PastSignature, PastSigner
  <2>4. QED
    BY <1>1, <1>2, <1>3, <2>2, <2>3, CheckHolds
<1>4. QED
  BY <1>1, <1>2, <1>3, CheckFails

LEMMA CheckStatementInv == ASSUME IInv, CheckStatement PROVE IInv'
<1> DEFINE holds == /\ bundle.subject # <<>> /\ Head(bundle.subject) = bundle.digest
                    /\ bundle.predicateIsSnp /\ bundle.stated.len = 48
<1>1. Check("statement", holds, {}, {"statement"}) /\ stage = "statement"
      /\ "statement" \in Verifying \ {"accepted"}
  BY DEF CheckStatement, Check, Verifying, PastAge, PastEnvelope, PastSignature, PastSigner
<1>2. {"statement"} \subseteq verified \cup Readable("statement")
  BY <1>1 DEF IInv, TrustInv, PastSignature, PastSigner
<1>3. CASE holds
  <2>1. stage' = "decode" /\ UNCHANGED <<bundle, policy>> /\ verified' = verified \cup {}
    BY <1>1, <1>3, CheckMoves, Follows
  <2>2. ChecksInv' /\ TrustInv'
    BY <1>1, <1>3, <2>1 DEF IInv, ChecksInv, TrustInv, Verifying, PastAge, PastEnvelope,
       PastSignature, PastSigner, PastStatement, PastChain, PastReport
  <2>3. After("statement") \in PastAge
    BY Follows DEF PastAge, PastEnvelope, PastSignature, PastSigner, PastStatement
  <2>4. QED
    BY <1>1, <1>2, <1>3, <2>2, <2>3, CheckHolds
<1>4. QED
  BY <1>1, <1>2, <1>3, CheckFails

LEMMA DecodeReportInv == ASSUME IInv, DecodeReport PROVE IInv'
<1>1. PICK holds : Check("decode", holds, {}, {"report"})
  BY DEF DecodeReport
<1>2. stage = "decode" /\ "decode" \in Verifying \ {"accepted"}
  BY <1>1 DEF Check, Verifying, PastAge, PastEnvelope, PastSignature, PastSigner, PastStatement
<1>3. {"report"} \subseteq verified \cup Readable("decode")
  BY DEF Readable
<1>4. CASE holds
  <2>1. stage' = "chain" /\ UNCHANGED <<bundle, policy>> /\ verified' = verified \cup {}
    BY <1>1, <1>4, CheckMoves, Follows
  <2>2. ChecksInv' /\ TrustInv'
    BY <1>2, <2>1 DEF IInv, ChecksInv, TrustInv, Verifying, PastAge, PastEnvelope,
       PastSignature, PastSigner, PastStatement, PastChain, PastReport
  <2>3. After("decode") \in PastAge
    BY Follows DEF PastAge, PastEnvelope, PastSignature, PastSigner, PastStatement
  <2>4. QED
    BY <1>1, <1>2, <1>3, <1>4, <2>2, <2>3, CheckHolds
<1>5. QED
  BY <1>1, <1>2, <1>3, <1>4, CheckFails

LEMMA ChainVcekInv == ASSUME IInv, ChainVcek PROVE IInv'
<1> DEFINE verifies == {"vcek"}
<1>0. PICK holds : Check("chain", holds, verifies, {})
  BY DEF ChainVcek
<1>1. Check("chain", holds, verifies, {}) /\ stage = "chain"
      /\ "chain" \in Verifying \ {"accepted"} /\ verifies \in SUBSET Parts
  BY <1>0 DEF Check, Verifying, PastAge, PastEnvelope, PastSignature, PastSigner,
     PastStatement, Parts
<1>2. CASE holds
  <2>1. stage' = "report" /\ UNCHANGED <<bundle, policy>> /\ verified' = verified \cup verifies
    BY <1>1, <1>2, CheckMoves, Follows
  <2>2. ChecksInv' /\ TrustInv'
    BY <1>1, <1>2, <2>1 DEF IInv, ChecksInv, TrustInv, Verifying, PastAge, PastEnvelope,
       PastSignature, PastSigner, PastStatement, PastChain, PastReport
  <2>3. After("chain") \in PastAge
    BY Follows DEF PastAge, PastEnvelope, PastSignature, PastSigner, PastStatement, PastChain
  <2>4. {} \subseteq verified \cup Readable("chain")
    OBVIOUS
  <2> HIDE DEF verifies
  <2>5. QED
    BY <1>1, <1>2, <2>2, <2>3, <2>4, CheckHolds
<1>3. QED
  BY <1>1, <1>2, CheckFails

LEMMA VerifyReportInv == ASSUME IInv, VerifyReport PROVE IInv'
<1> DEFINE relies == {"statement", "vcek", "report"}
<1>0. PICK holds : /\ Check("report", holds, {"report"}, relies)
                   /\ holds => MachineIsVouched(bundle, policy)
  BY DEF VerifyReport, MachineIsVouched
<1>1. Check("report", holds, {"report"}, relies) /\ stage = "report"
      /\ "report" \in Verifying \ {"accepted"} /\ {"report"} \in SUBSET Parts
  BY <1>0 DEF Check, Verifying, PastAge, PastEnvelope, PastSignature, PastSigner,
     PastStatement, PastChain, Parts
<1>2. relies \subseteq verified \cup Readable("report")
  BY <1>1 DEF IInv, Readable, TrustInv, PastSignature, PastSigner, PastStatement, PastChain
<1> HIDE DEF relies
<1>3. CASE holds
  <2>1. stage' = "certificate" /\ UNCHANGED <<bundle, policy>>
        /\ verified' = verified \cup {"report"}
    BY <1>1, <1>3, CheckMoves, Follows
  <2>2. MachineIsVouched(bundle, policy)
    BY <1>0, <1>3
  <2>3. ChecksInv' /\ TrustInv'
    BY <1>1, <2>1, <2>2 DEF IInv, ChecksInv, TrustInv, MachineIsVouched, Verifying, PastAge,
       PastEnvelope, PastSignature, PastSigner, PastStatement, PastChain, PastReport
  <2>4. After("report") \in PastAge
    BY Follows DEF PastAge, PastEnvelope, PastSignature, PastSigner, PastStatement, PastChain
  <2>5. QED
    BY <1>1, <1>2, <1>3, <2>3, <2>4, CheckHolds
<1>4. QED
  BY <1>1, <1>2, <1>3, CheckFails

LEMMA CheckCertificateInv == ASSUME IInv, CheckCertificate PROVE IInv'
<1> DEFINE covered == /\ bundle.certKey = bundle.tlsKey
                      /\ \E n \in bundle.san : DnsNameMatches(n, bundle.domain)
<1>1. PICK holds, relies : /\ Check("certificate", holds, {}, relies)
                           /\ relies \subseteq Unsigned
                           /\ holds /\ policy.checkEnclaveCertificate => covered
  <2>1. CASE policy.checkEnclaveCertificate
    BY <2>1 DEF CheckCertificate, Unsigned
  <2>2. CASE ~policy.checkEnclaveCertificate
    BY <2>2 DEF CheckCertificate, Unsigned
  <2>3. QED
    BY <2>1, <2>2
<1>2. stage = "certificate" /\ "certificate" \in Verifying \ {"accepted"}
  BY <1>1 DEF Check, Verifying, PastAge, PastEnvelope, PastSignature, PastSigner,
     PastStatement, PastChain
<1>3. relies \subseteq verified \cup Readable("certificate")
  BY <1>1 DEF Readable
<1>4. CASE holds
  <2>1. stage' = "accepted" /\ UNCHANGED <<bundle, policy>> /\ verified' = verified \cup {}
    BY <1>1, <1>4, CheckMoves, Follows
  <2>2. ChecksInv' /\ TrustInv'
    BY <1>1, <1>2, <1>4, <2>1 DEF IInv, ChecksInv, TrustInv, MachineIsVouched, Verifying, PastAge,
       PastEnvelope, PastSignature, PastSigner, PastStatement, PastChain, PastReport
  <2>3. After("certificate") \in PastAge
    BY Follows DEF PastAge, PastEnvelope, PastSignature, PastSigner, PastStatement, PastChain
  <2>4. QED
    BY <1>1, <1>2, <1>3, <1>4, <2>2, <2>3, CheckHolds
<1>5. QED
  BY <1>1, <1>2, <1>3, <1>4, CheckFails

-----------------------------------------------------------------------------
LEMMA StepInv == IInv /\ [Next]_vars => IInv'
<1> SUFFICES ASSUME IInv, [Next]_vars PROVE IInv'
  OBVIOUS
<1>1. CASE UNCHANGED vars
  <2>1. UNCHANGED <<stage, body, bundle, policy, verified, relied>>
    BY <1>1 DEF vars, inputVars, trustVars
  <2>2. TypeOK' /\ BundleBounded' /\ TrustInv' /\ CertUnread' /\ ReliesOnVerified'
    BY <2>1 DEF IInv, TypeOK, BundleBounded, TrustInv, CertUnread, ReliesOnVerified
  <2>3. ChecksInv'
    BY <2>1 DEF IInv, ChecksInv
  <2>4. QED
    BY <2>2, <2>3 DEF IInv
<1>2. CASE FetchFails \/ FetchHead \/ FetchChunk \/ FetchEnd
  BY <1>2, FetchInv, FetchEndInv
<1>3. CASE CheckAge \/ CheckEnvelope \/ VerifySignature
  BY <1>3, CheckAgeInv, CheckEnvelopeInv, VerifySignatureInv
<1>4. CASE CheckSigner \/ CheckStatement \/ DecodeReport
  BY <1>4, CheckSignerInv, CheckStatementInv, DecodeReportInv
<1>5. CASE ChainVcek \/ VerifyReport \/ CheckCertificate
  BY <1>5, ChainVcekInv, VerifyReportInv, CheckCertificateInv
<1>6. QED
  BY <1>1, <1>2, <1>3, <1>4, <1>5 DEF Next, Returned

THEOREM Invariance == Spec => []IInv
<1>1. Init => IInv
  BY AttestationAssumption DEF Init, IInv, TypeOK, BundleBounded, ChecksInv, TrustInv, CertUnread,
     ReliesOnVerified, Verifying, PastAge, PastEnvelope, PastSignature, PastSigner, PastStatement,
     PastChain, PastReport, Order
<1>2. QED
  BY <1>1, StepInv, PTL DEF Spec

\* bundle.rs:105-113: only what parsed as a bundle is ever verified.
THEOREM TypeCorrect == Spec => []TypeOK
BY Invariance, PTL DEF IInv

\* bundle.rs:67-73: the cap holds for any lengths, advertised or delivered.
THEOREM BodyIsCapped == Spec => []BundleBounded
BY Invariance, PTL DEF IInv

\* mod.rs:84-88, sigstore.rs:121 and 134: the signer, the statement and the VCEK are
\* believed only once verified; what the log's time and the report said unsigned is
\* verified before the report's keys are compared or handed out.
THEOREM ClaimsAreVerified == Spec => []ReliesOnVerified
BY Invariance, PTL DEF IInv

-----------------------------------------------------------------------------
\* An envelope with one signature, one of which is valid, has just a valid one.
LEMMA OneValidSignature ==
    ASSUME NEW s \in Seq(BOOLEAN), Len(s) = 1, NEW i \in DOMAIN s, s[i]
    PROVE  s = <<TRUE>>
<1>1. i = 1
  OBVIOUS
<1>2. s[1] = TRUE
  BY <1>1, ElementOfSeq
<1>3. <<TRUE>> \in Seq(BOOLEAN) /\ Len(<<TRUE>>) = 1 /\ <<TRUE>>[1] = TRUE
  OBVIOUS
<1>4. ASSUME NEW j \in 1..Len(s) PROVE s[j] = <<TRUE>>[j]
  <2>1. j = 1
    OBVIOUS
  <2>2. QED
    BY <1>2, <1>3, <2>1
<1>5. QED
  BY <1>3, <1>4, SeqEqual

\* The age rule, as the sum the contract states it with.
LEMMA RecentEnough ==
    ASSUME NEW at \in Nat, NEW maxAge \in Nat \cup {NoLimit}, AgeAllowed(at, maxAge, Now)
    PROVE  /\ at <= Now + FutureTolerance
           /\ maxAge # NoLimit => Now <= at + maxAge
BY AttestationAssumption, RulesAssumption DEF AgeAllowed, Since

\* mod.rs:43-58: what is accepted is a build the policy trusts, on hardware that
\* says it runs that build, whose certificate carries the attested key.
THEOREM AcceptedIsVouched == Spec => []OnlyVouchedAccepted
<1>1. IInv => OnlyVouchedAccepted
  <2> SUFFICES ASSUME IInv, stage = "accepted"
               PROVE  /\ BuildIsVouched(bundle, policy) /\ MachineIsVouched(bundle, policy)
                      /\ policy.checkEnclaveCertificate =>
                            /\ bundle.certKey = bundle.tlsKey
                            /\ \E n \in bundle.san : DnsNameMatches(n, bundle.domain)
    BY DEF OnlyVouchedAccepted
  <2> USE DEF Verifying, PastAge, PastEnvelope, PastSignature, PastSigner, PastStatement,
              PastChain, PastReport
  <2>1. bundle \in Bundles /\ policy \in Policies
    BY DEF IInv, ChecksInv, TypeOK
  <2>2. bundle.signatures = <<TRUE>>
    BY <2>1, OneValidSignature, AttestationAssumption DEF IInv, ChecksInv
  <2>3. /\ bundle.integratedTime <= Now + FutureTolerance
        /\ policy.maxAge # NoLimit => Now <= bundle.integratedTime + policy.maxAge
    BY <2>1, RecentEnough, AttestationAssumption DEF IInv, ChecksInv
  <2>4. Len(bundle.subject) > 0 /\ bundle.subject[1] = bundle.digest /\ bundle.predicateIsSnp
    <3>1. bundle.subject \in Seq(STRING) /\ bundle.subject # <<>>
      BY <2>1, AttestationAssumption DEF IInv, ChecksInv
    <3>2. Len(bundle.subject) \in Nat \ {0} /\ Head(bundle.subject) = bundle.subject[1]
      BY <3>1, EmptySeq
    <3>3. Len(bundle.subject) > 0
      BY <3>2
    <3>4. Head(bundle.subject) = bundle.digest /\ bundle.predicateIsSnp
      BY DEF IInv, ChecksInv
    <3>5. QED
      BY <3>2, <3>3, <3>4
  <2>5. BuildIsVouched(bundle, policy)
    BY <2>2, <2>3, <2>4 DEF BuildIsVouched, IInv, ChecksInv
  <2>6. QED
    BY <2>5 DEF IInv, ChecksInv
<1>2. QED
  BY <1>1, Invariance, PTL

-----------------------------------------------------------------------------
(* The rules, on every input: names of any length, and any times. *)
SameLetter(x, y) == {x, y} \subseteq {"a", "A"} \/ x = y

LEMMA IgnoringCase ==
    ASSUME NEW s \in Seq(Labels), NEW t \in Seq(Labels)
    PROVE  EqIgnoreCase(s, t) <=>
               Len(s) = Len(t) /\ \A i \in 1..Len(s) : SameLetter(s[i], t[i])
<1> DEFINE Low(x) == IF x = "A" THEN "a" ELSE x
<1>1. /\ DOMAIN s = 1..Len(s) /\ DOMAIN t = 1..Len(t) /\ Len(s) \in Nat /\ Len(t) \in Nat
  BY LenProperties
<1>2. /\ ToLower(s) = [i \in 1..Len(s) |-> Low(s[i])]
      /\ ToLower(t) = [i \in 1..Len(t) |-> Low(t[i])]
  BY <1>1 DEF ToLower
<1>3. \A x, y : Low(x) = Low(y) <=> SameLetter(x, y)
  BY DEF SameLetter
<1> HIDE DEF Low
<1>4. ASSUME ToLower(s) = ToLower(t)
      PROVE  Len(s) = Len(t) /\ \A i \in 1..Len(s) : SameLetter(s[i], t[i])
  <2>1. 1..Len(s) = 1..Len(t)
    BY <1>2, <1>4
  <2>2. Len(s) = Len(t)
    <3>1. ASSUME NEW m \in Nat, NEW n \in Nat, 1..m = 1..n PROVE m = n
      <4>1. m \in 1..m \/ m = 0
        OBVIOUS
      <4>2. n \in 1..n \/ n = 0
        OBVIOUS
      <4>3. m <= n /\ n <= m
        BY <3>1, <4>1, <4>2
      <4>4. QED
        BY <4>3
    <3>2. Len(s) \in Nat /\ Len(t) \in Nat
      BY LenProperties
    <3>3. QED
      BY <2>1, <3>1, <3>2
  <2>3. ASSUME NEW i \in 1..Len(s) PROVE Low(s[i]) = Low(t[i])
    <3>1. ToLower(s)[i] = Low(s[i]) /\ ToLower(t)[i] = Low(t[i])
      BY <1>2, <2>2
    <3>2. QED
      BY <1>4, <3>1
  <2>4. QED
    BY <1>3, <2>2, <2>3
<1>5. ASSUME Len(s) = Len(t), \A i \in 1..Len(s) : SameLetter(s[i], t[i])
      PROVE  ToLower(s) = ToLower(t)
  <2>1. \A i \in 1..Len(s) : Low(s[i]) = Low(t[i])
    BY <1>3, <1>5
  <2>2. QED
    BY <1>2, <1>5, <2>1
<1>6. QED
  BY <1>4, <1>5 DEF EqIgnoreCase

LEMMA PlainNames ==
    ASSUME NEW s \in Seq(Labels)
    PROVE  IsPlainName(s) <=> \A i \in 1..Len(s) : s[i] \in {"a", "A", "b"}
<1>1. DOMAIN s = 1..Len(s) /\ \A i \in 1..Len(s) : s[i] \in Labels
  BY LenProperties, ElementOfSeq
<1>2. \A x \in Labels : x \notin Wildcard \cup {"", "non-ascii"} <=> x \in {"a", "A", "b"}
  BY DEF Labels, Wildcard
<1>3. QED
  BY <1>1, <1>2 DEF IsPlainName

LEMMA TailLabels ==
    ASSUME NEW s \in Seq(Labels), Len(s) > 1
    PROVE  /\ Tail(s) \in Seq(Labels) /\ Len(Tail(s)) = Len(s) - 1 /\ Head(s) = s[1]
           /\ \A i \in 1..(Len(s) - 1) : Tail(s)[i] = s[i + 1]
<1>1. s # <<>> /\ Len(s) \in Nat
  BY EmptySeq, LenProperties
<1>2. /\ Tail(s) \in Seq(Labels) /\ Len(Tail(s)) = Len(s) - 1
      /\ \A i \in 1..Len(Tail(s)) : Tail(s)[i] = s[i + 1]
  BY <1>1, HeadTailProperties
<1>3. QED
  BY <1>1, <1>2

\* domain.rs:185-205: a name covers a host label by label, but for a whole leftmost
\* wildcard label in front of two others at least, which covers one label.
THEOREM NamesMatchByLabel ==
    ASSUME NEW pattern \in Seq(Labels), NEW host \in Seq(Labels), host # <<>>
    PROVE  DnsNameMatches(pattern, host) <=> Covers(pattern, host)
<1> DEFINE Letters == {"a", "A", "b"}
           wild == Len(pattern) > 1 /\ pattern[1] = "*"
<1>1. /\ DOMAIN pattern = 1..Len(pattern) /\ DOMAIN host = 1..Len(host)
      /\ Len(pattern) \in Nat /\ Len(host) \in Nat /\ Len(host) >= 1
  BY LenProperties, EmptySeq
<1>2. Covers(pattern, host) <=>
          /\ Len(pattern) = Len(host)
          /\ \A i \in 1..Len(host) : host[i] \in Letters
          /\ \A i \in 1..Len(pattern) : \/ SameLetter(pattern[i], host[i])
                                        \/ pattern[i] = "*" /\ i = 1 /\ Len(pattern) > 2
  BY <1>1 DEF Covers, SameLetter
<1>3. IsPlainName(host) <=> \A i \in 1..Len(host) : host[i] \in Letters
  BY PlainNames
<1>4. \A x, y : y \in Letters /\ SameLetter(x, y) => x \in Letters /\ x # "*"
  BY DEF SameLetter
<1>5. Len(pattern) \in Nat /\ Len(host) \in Nat /\ Len(host) >= 1
  BY <1>1
<1>6. CASE wild
  <2> DEFINE p == Tail(pattern)
             h == Tail(host)
  <2>1. /\ p \in Seq(Labels) /\ Len(p) = Len(pattern) - 1 /\ Head(pattern) = "*"
        /\ \A i \in 1..(Len(pattern) - 1) : p[i] = pattern[i + 1]
    BY <1>6, TailLabels
  <2>2. DnsNameMatches(pattern, host) <=>
            /\ IsPlainName(host) /\ IsPlainName(p) /\ Len(p) >= 2
            /\ Len(host) > 1 /\ EqIgnoreCase(h, p)
    BY <1>6, <2>1 DEF DnsNameMatches, WildcardCovers
  <2>3. Len(host) > 1 =>
            /\ h \in Seq(Labels) /\ Len(h) = Len(host) - 1
            /\ \A i \in 1..(Len(host) - 1) : h[i] = host[i + 1]
    BY TailLabels
  <2> HIDE DEF p, h
  <2>4. Len(p) = Len(pattern) - 1 /\ (Len(host) > 1 => Len(h) = Len(host) - 1)
    BY <2>1, <2>3
  <2>5. IsPlainName(p) <=> \A i \in 1..Len(p) : p[i] \in Letters
    BY <2>1, PlainNames
  <2>6. Len(host) > 1 =>
           (EqIgnoreCase(h, p) <=> Len(h) = Len(p) /\ \A i \in 1..Len(h) : SameLetter(h[i], p[i]))
    BY <2>1, <2>3, IgnoringCase
  <2>7. ASSUME DnsNameMatches(pattern, host) PROVE Covers(pattern, host)
    <3>1. /\ \A i \in 1..Len(host) : host[i] \in Letters
          /\ Len(p) >= 2 /\ Len(host) > 1 /\ Len(h) = Len(p)
          /\ \A i \in 1..Len(h) : SameLetter(h[i], p[i])
      BY <1>3, <2>2, <2>6, <2>7
    <3>2. Len(pattern) = Len(host) /\ Len(pattern) > 2
      <4>1. Len(p) >= 2 /\ Len(host) > 1 /\ Len(h) = Len(p)
        BY <3>1
      <4>2. QED
        BY <1>5, <2>4, <4>1
    <3>3. ASSUME NEW i \in 1..Len(pattern), i # 1 PROVE SameLetter(pattern[i], host[i])
      <4>1. i - 1 \in 1..(Len(pattern) - 1) /\ i - 1 + 1 = i
        BY <1>1, <3>3
      <4>2. p[i - 1] = pattern[i] /\ h[i - 1] = host[i] /\ SameLetter(h[i - 1], p[i - 1])
        BY <2>1, <2>3, <3>1, <3>2, <4>1
      <4>3. QED
        BY <4>2 DEF SameLetter
    <3>4. QED
      BY <1>2, <1>6, <3>1, <3>2, <3>3
  <2>8. ASSUME Covers(pattern, host) PROVE DnsNameMatches(pattern, host)
    <3>1. /\ Len(pattern) = Len(host) /\ \A i \in 1..Len(host) : host[i] \in Letters
          /\ \A i \in 1..Len(pattern) : \/ SameLetter(pattern[i], host[i])
                                        \/ pattern[i] = "*" /\ i = 1 /\ Len(pattern) > 2
      BY <1>2, <2>8
    <3>2. Len(pattern) > 2
      <4>1. 1 \in 1..Len(pattern) /\ 1 \in 1..Len(host)
        BY <1>1, <1>6
      <4>2. ~SameLetter(pattern[1], host[1])
        BY <1>4, <1>6, <3>1, <4>1
      <4>3. QED
        BY <3>1, <4>1, <4>2
    <3>3. Len(host) > 1 /\ Len(p) >= 2 /\ Len(h) = Len(p)
      <4>1. Len(pattern) = Len(host)
        BY <3>1
      <4>2. QED
        BY <1>5, <2>4, <3>2, <4>1
    <3>4. ASSUME NEW i \in 1..Len(p)
          PROVE  p[i] \in Letters /\ SameLetter(h[i], p[i])
      <4>1. /\ i + 1 \in 1..Len(pattern) /\ i + 1 \in 1..Len(host) /\ i + 1 # 1
            /\ i \in 1..(Len(pattern) - 1) /\ i \in 1..(Len(host) - 1)
        BY <1>1, <2>1, <3>1, <3>4
      <4>2. p[i] = pattern[i + 1] /\ h[i] = host[i + 1]
        BY <2>1, <2>3, <3>3, <4>1
      <4>3. SameLetter(pattern[i + 1], host[i + 1]) /\ host[i + 1] \in Letters
        BY <3>1, <4>1
      <4>4. p[i] \in Letters
        BY <1>4, <4>2, <4>3
      <4>5. SameLetter(h[i], p[i])
        BY <4>2, <4>3 DEF SameLetter
      <4>6. QED
        BY <4>4, <4>5
    <3>5. QED
      BY <1>3, <2>2, <2>5, <2>6, <3>1, <3>3, <3>4
  <2>9. QED
    BY <2>7, <2>8
<1>7. CASE ~wild
  <2>1. ~(Len(pattern) > 1 /\ Head(pattern) = "*")
    <3>1. Len(pattern) > 1 => Head(pattern) = pattern[1]
      BY TailLabels
    <3>2. QED
      BY <1>7, <3>1
  <2>2. DnsNameMatches(pattern, host) <=>
            IsPlainName(host) /\ IsPlainName(pattern) /\ EqIgnoreCase(pattern, host)
    BY <2>1 DEF DnsNameMatches
  <2>3. IsPlainName(pattern) <=> \A i \in 1..Len(pattern) : pattern[i] \in Letters
    BY PlainNames
  <2>4. EqIgnoreCase(pattern, host) <=>
            /\ Len(pattern) = Len(host)
            /\ \A i \in 1..Len(pattern) : SameLetter(pattern[i], host[i])
    BY IgnoringCase
  <2>5. ASSUME DnsNameMatches(pattern, host) PROVE Covers(pattern, host)
    BY <1>2, <1>3, <2>2, <2>4, <2>5
  <2>6. ASSUME Covers(pattern, host) PROVE DnsNameMatches(pattern, host)
    <3>1. /\ Len(pattern) = Len(host) /\ \A i \in 1..Len(host) : host[i] \in Letters
          /\ \A i \in 1..Len(pattern) : \/ SameLetter(pattern[i], host[i])
                                        \/ pattern[i] = "*" /\ i = 1 /\ Len(pattern) > 2
      BY <1>2, <2>6
    <3>2. \A i \in 1..Len(pattern) : SameLetter(pattern[i], host[i])
      BY <1>1, <1>7, <3>1
    <3>3. \A i \in 1..Len(pattern) : pattern[i] \in Letters
      BY <1>4, <3>1, <3>2
    <3>4. QED
      BY <1>3, <2>2, <2>3, <2>4, <3>1, <3>2, <3>3
  <2>7. QED
    BY <2>5, <2>6
<1>8. QED
  BY <1>6, <1>7

\* sigstore.rs:260-263: a timestamp that is accepted once is refused for good when the
\* maximum age and the tolerance have both gone by.
THEOREM NothingStaysFresh ==
    ASSUME NEW at \in Nat, NEW maxAge \in Nat, NEW now \in Nat, NEW later \in Nat,
           AgeAllowed(at, maxAge, now), later > now + maxAge + FutureTolerance
    PROVE  ~AgeAllowed(at, maxAge, later)
<1>1. at <= now + FutureTolerance /\ FutureTolerance \in Nat
  BY RulesAssumption DEF AgeAllowed, Since
<1>2. later > at + maxAge
  BY <1>1
<1>3. Since(later, at) > maxAge
  BY <1>2 DEF Since
<1>4. QED
  BY <1>2, <1>3, RulesAssumption DEF AgeAllowed, Since

-----------------------------------------------------------------------------
(* The rollback rule: packing four components and the reserved bytes. *)
LEMMA Digits ==
    ASSUME NEW m \in Nat \ {0}, NEW low \in 0..(m - 1), NEW high \in Nat
    PROVE  (low + m * high) \div m = high
OBVIOUS

LEMMA LowDigit ==
    ASSUME NEW low \in 0..(Base - 1), NEW high \in Nat
    PROVE  (low + Base * high) % Base = low
BY RulesAssumption

\* Low digits below a higher one stay below its weight and their number together.
LEMMA Below ==
    ASSUME NEW m \in Nat \ {0}, NEW n \in Nat \ {0}, NEW low \in 0..(m - 1), NEW d \in 0..(n - 1)
    PROVE  m * n \in Nat \ {0} /\ low + m * d \in 0..(m * n - 1)
<1>1. m * d <= m * (n - 1)
  OBVIOUS
<1>2. m * (n - 1) = m * n - m
  OBVIOUS
<1>3. m * d \in Nat /\ m * n \in Nat /\ m * n >= m
  BY <1>1, <1>2
<1>4. QED
  BY <1>1, <1>2, <1>3

LEMMA Weights ==
    /\ Byte2 \in Nat \ {0} /\ Byte2 * Byte2 \in Nat \ {0}
    /\ Byte6 \in Nat \ {0} /\ Byte7 \in Nat \ {0}
<1>1. Byte2 \in Nat \ {0}
  BY RulesAssumption DEF Byte2
<1>2. Byte2 * Byte2 \in Nat \ {0}
  BY <1>1
<1>3. Byte6 \in Nat \ {0}
  BY <1>1, <1>2 DEF Byte6
<1>4. Byte7 \in Nat \ {0}
  BY <1>3, RulesAssumption DEF Byte7
<1>5. QED
  BY <1>1, <1>2, <1>3, <1>4

\* Each component is read where it was packed, whatever the other bytes are.
LEMMA Unpacks ==
    ASSUME NEW c \in Tcb
    PROVE  /\ Component(Pack(c), 1) = c.boot /\ Component(Pack(c), Base) = c.tee
           /\ Component(Pack(c), Byte6) = c.snp /\ Component(Pack(c), Byte7) = c.microcode
<1> DEFINE boot == c.boot
           tee  == c.tee
           res  == c.reserved
           snp  == c.snp
           mc   == c.microcode
           b4   == Byte2 * Byte2
           low2 == boot + Base * tee
           low6 == low2 + Byte2 * res
           low7 == low6 + Byte6 * snp
<1>1. /\ Base \in Nat \ {0} /\ b4 \in Nat \ {0} /\ boot \in 0..(Base - 1) /\ tee \in 0..(Base - 1)
      /\ snp \in 0..(Base - 1) /\ mc \in 0..(Base - 1) /\ res \in 0..(b4 - 1)
  BY RulesAssumption, Weights DEF Tcb, Byte
<1>2. low2 \in 0..(Byte2 - 1)
  BY <1>1, Below DEF Byte2
<1>3. Byte2 * b4 = Byte6
  BY Weights DEF Byte6
<1>4. low6 \in 0..(Byte6 - 1)
  BY <1>1, <1>2, <1>3, Weights, Below
<1>5. low7 \in 0..(Byte7 - 1)
  BY <1>1, <1>4, Weights, Below DEF Byte7
<1>6. Pack(c) = low7 + Byte7 * mc
  BY <1>1, Weights DEF Pack
<1> DEFINE h2 == res + b4 * snp + (Base * b4) * mc
           h1 == tee + Base * h2
           h6 == snp + Base * mc
<1>7. h2 \in Nat /\ h1 \in Nat /\ h6 \in Nat
  <2>1. /\ b4 * snp \in Nat /\ Base * b4 \in Nat /\ Base * mc \in Nat
    BY <1>1
  <2>2. (Base * b4) * mc \in Nat
    BY <1>1, <2>1
  <2>3. h2 \in Nat
    BY <1>1, <2>1, <2>2
  <2>4. Base * h2 \in Nat
    BY <1>1, <2>3
  <2>5. QED
    BY <1>1, <2>1, <2>3, <2>4
<1>8. Pack(c) = low6 + Byte6 * h6
  <2>1. Byte7 * mc = Byte6 * (Base * mc)
    BY <1>1, Weights DEF Byte7
  <2>2. Byte6 * h6 = Byte6 * snp + Byte6 * (Base * mc)
    BY <1>1, Weights
  <2>3. QED
    BY <1>1, <1>2, <1>4, <1>6, <2>1, <2>2, Weights
<1>9. Pack(c) = boot + Base * h1
  <2>1. Byte2 * res = Base * (Base * res)
    BY <1>1 DEF Byte2
  <2>2. Byte6 * snp = Base * (Base * (b4 * snp))
    <3>1. Byte6 = (Base * Base) * b4
      BY <1>3 DEF Byte2
    <3>2. QED
      BY <1>1, <3>1
  <2>3. Byte7 * mc = Base * (Base * ((Base * b4) * mc))
    <3>1. Byte7 = (Base * Base) * (Base * b4)
      <4>1. Byte6 = (Base * Base) * b4
        BY <1>3 DEF Byte2
      <4>2. QED
        BY <1>1, <4>1 DEF Byte7
    <3>2. Base * b4 \in Nat
      BY <1>1
    <3>3. QED
      BY <1>1, <3>1, <3>2
  <2>4. Base * h2 = Base * res + Base * (b4 * snp) + Base * ((Base * b4) * mc)
    BY <1>1, <1>7
  <2>5. Base * h1 = Base * tee + Base * (Base * h2)
    BY <1>1, <1>7
  <2>6. Base * (Base * h2) = Base * (Base * res) + Base * (Base * (b4 * snp))
                             + Base * (Base * ((Base * b4) * mc))
    BY <1>1, <2>4
  <2>7. QED
    BY <1>1, <1>6, <2>1, <2>2, <2>3, <2>5, <2>6
<1>10. Component(Pack(c), 1) = boot
  <2>1. Pack(c) \in Nat /\ Pack(c) \div 1 = Pack(c)
    <3>1. Base * h1 \in Nat
      BY <1>1, <1>7
    <3>2. QED
      BY <1>1, <1>9, <3>1
  <2>2. QED
    BY <1>1, <1>7, <1>9, <2>1, LowDigit DEF Component
<1>11. Component(Pack(c), Base) = tee
  <2>1. Pack(c) \div Base = h1
    <3>1. h1 \in Nat /\ boot \in 0..(Base - 1) /\ Base \in Nat \ {0}
      BY <1>1, <1>7
    <3> HIDE DEF h1, boot
    <3>2. (boot + Base * h1) \div Base = h1
      BY <3>1, Digits
    <3>3. QED
      BY <1>9, <3>2
  <2>2. h1 % Base = tee
    <3> HIDE DEF h2
    <3>1. h2 \in Nat
      BY <1>7
    <3>2. QED
      BY <1>1, <3>1, LowDigit
  <2>3. QED
    BY <2>1, <2>2 DEF Component
<1>12. Component(Pack(c), Byte6) = snp
  <2>1. Pack(c) \div Byte6 = h6
    BY <1>4, <1>7, <1>8, Weights, Digits
  <2>2. h6 % Base = snp
    <3>1. mc \in Nat
      BY <1>1
    <3> HIDE DEF mc, snp
    <3>2. QED
      BY <1>1, <3>1, LowDigit
  <2>3. QED
    BY <2>1, <2>2 DEF Component
<1>13. Component(Pack(c), Byte7) = mc
  <2>1. mc \in Nat /\ mc % Base = mc
    BY <1>1
  <2>2. Pack(c) \div Byte7 = mc
    <3> HIDE DEF low7, mc
    <3>1. QED
      BY <1>5, <1>6, <2>1, Weights, Digits
  <2>3. QED
    BY <2>1, <2>2 DEF Component
<1>14. QED
  BY <1>10, <1>11, <1>12, <1>13

\* verify.rs:99-102: for any bytes, a platform is rolled back exactly if one of the four
\* components is below the committed one, whatever the others and the reserved bytes say.
THEOREM RollbackIsSeen == NoHiddenRollback
<1> SUFFICES ASSUME NEW r \in Tcb, NEW c \in Tcb
             PROVE  RolledBack(Pack(r), Pack(c)) <=>
                        \E f \in {"boot", "tee", "snp", "microcode"} : r[f] < c[f]
  BY DEF NoHiddenRollback
<1>1. /\ Component(Pack(r), 1) = r.boot /\ Component(Pack(r), Base) = r.tee
      /\ Component(Pack(r), Byte6) = r.snp /\ Component(Pack(r), Byte7) = r.microcode
  BY Unpacks
<1>2. /\ Component(Pack(c), 1) = c.boot /\ Component(Pack(c), Base) = c.tee
      /\ Component(Pack(c), Byte6) = c.snp /\ Component(Pack(c), Byte7) = c.microcode
  BY Unpacks
<1>3. RolledBack(Pack(r), Pack(c)) <=>
          \/ r.boot < c.boot \/ r.tee < c.tee \/ r.snp < c.snp \/ r.microcode < c.microcode
  BY <1>1, <1>2 DEF RolledBack, TcbComponentShifts
<1>4. (\E f \in {"boot", "tee", "snp", "microcode"} : r[f] < c[f]) <=>
          \/ r.boot < c.boot \/ r.tee < c.tee \/ r.snp < c.snp \/ r.microcode < c.microcode
  OBVIOUS
<1>5. QED
  BY <1>3, <1>4

\* The three rules, for any radix, and for names and times up to any bound: every
\* attestation that begins is decided by what their comments promise.
THEOREM RulesAreKept == Spec => []RulesKeepTheirWord
<1>1. DnsNameMatchesCovers
  <2> SUFFICES ASSUME NEW pattern \in Names(MaxLabels), NEW host \in Names(MaxLabels + 1)
               PROVE  DnsNameMatches(pattern, host) <=> Covers(pattern, host)
    BY DEF DnsNameMatchesCovers
  <2>1. ASSUME NEW max \in Nat, NEW s \in Names(max) PROVE s \in Seq(Labels) /\ s # <<>>
    <3>1. PICK n \in 1..max : s \in [1..n -> Labels]
      BY <2>1 DEF Names
    <3>2. s \in Seq(Labels) /\ Len(s) = n
      BY <3>1
    <3>3. QED
      BY <3>1, <3>2, EmptySeq
  <2>2. QED
    BY <2>1, BoundsAssumption, NamesMatchByLabel
<1>2. NeverImmortal
  <2>1. ASSUME NEW at \in 0..MaxTime, NEW maxAge \in 0..MaxTime, NEW now \in 0..MaxTime,
               NEW later \in 0..MaxTime, AgeAllowed(at, maxAge, now),
               later > now + maxAge + FutureTolerance
        PROVE  ~AgeAllowed(at, maxAge, later)
    BY <2>1, BoundsAssumption, NothingStaysFresh
  <2>2. QED
    BY <2>1 DEF NeverImmortal
<1>3. RulesKeepTheirWord
  BY <1>1, <1>2, RollbackIsSeen DEF RulesKeepTheirWord
<1>4. QED
  BY <1>3, PTL

=============================================================================
