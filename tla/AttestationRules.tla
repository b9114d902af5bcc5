-------------------------- MODULE AttestationRules --------------------------
(* The three rules of attestation that are algorithms rather than lookups:    *)
(* host name matching, firmware rollback and the age of a build attestation.  *)
(* A name is the sequence of labels that splitting at the dots yields, so the *)
(* empty string is <<"">>, and a label is known by what the rules can see.    *)
EXTENDS Naturals, Sequences, FiniteSets

CONSTANTS
    Base,              \* the radix of a TCB_VERSION component (256)
    FutureTolerance,   \* how far ahead of our clock a timestamp may be
    NoLimit            \* a policy's max_attestation_age when it has none

ASSUME RulesAssumption == Base \in Nat \ {0, 1} /\ FutureTolerance \in Nat /\ NoLimit \notin Nat

(* ------------------------------ domain.rs --------------------------------- *)
\* Labels: two letters, one of them in both cases, a wildcard, a partial
\* wildcard, an empty label and one that is not ASCII.
Labels   == {"a", "A", "b", "*", "w*", "", "non-ascii"}
Wildcard == {"*", "w*"}

ToLower(name) == [i \in DOMAIN name |-> IF name[i] = "A" THEN "a" ELSE name[i]]
EqIgnoreCase(s, t) == ToLower(s) = ToLower(t)

IsPlainName(s) == \A i \in DOMAIN s : s[i] \notin Wildcard \cup {"", "non-ascii"}

\* Bug: the wildcard may stand for any number of labels.
WildcardCoversAny(suffix, host) ==
    \E k \in 1..(Len(host) - 1) : EqIgnoreCase(SubSeq(host, k + 1, Len(host)), suffix)

\* `split_once` takes exactly one label off the host.
WildcardCovers(suffix, host) == Len(host) > 1 /\ EqIgnoreCase(Tail(host), suffix)

DnsNameMatches(pattern, host) ==
    /\ IsPlainName(host)
    /\ IF Len(pattern) > 1 /\ Head(pattern) = "*"
       THEN /\ IsPlainName(Tail(pattern))
            /\ Len(Tail(pattern)) >= 2
            /\ WildcardCovers(Tail(pattern), host)
       ELSE IsPlainName(pattern) /\ EqIgnoreCase(pattern, host)

(* ---------------------------- snp/verify.rs ------------------------------- *)
\* What a byte is worth in a packed TCB_VERSION: a shift divides by it.
Byte2 == Base * Base
Byte6 == Byte2 * Byte2 * Byte2
Byte7 == Byte6 * Base

\* The component bytes: bootloader, TEE, SNP, microcode.
TcbComponentShifts == {1, Base, Byte6, Byte7}

Component(tcb, shift) == (tcb \div shift) % Base

\* Bug: two TCB versions are compared as numbers.
RolledBackNumber(reported, committed) == reported < committed

RolledBack(reported, committed) ==
    \E s \in TcbComponentShifts : Component(reported, s) < Component(committed, s)

(* ----------------------------- sigstore.rs -------------------------------- *)
\* duration_since, which is Err for a time that is not in the past.
Since(later, earlier) == IF later > earlier THEN later - earlier ELSE 0

\* Bug: a timestamp in the future counts as fresh.
AgeAllowedFuture(integratedAt, maxAge, now) ==
    maxAge = NoLimit \/ Since(now, integratedAt) <= maxAge

AgeAllowed(integratedAt, maxAge, now) ==
    /\ Since(integratedAt, now) <= FutureTolerance
    /\ maxAge = NoLimit \/ Since(now, integratedAt) <= maxAge

=============================================================================
