---------------------------- MODULE MCAttestation ----------------------------
(* Attestation over every bundle that differs from a good one in at most two  *)
(* fields, under every policy that differs from the default in any; and the    *)
(* rules it uses against what their comments promise, over every input up to   *)
(* a bound.                                                                   *)
EXTENDS Attestation

CONSTANTS
    MaxLabels,    \* bound: labels in a pattern
    MaxTime       \* bound: the clock of AgeAllowed

ASSUME BoundsAssumption == MaxLabels \in Nat /\ MaxTime \in Nat

Good == [integratedTime |-> Now, dsse |-> TRUE,            signatures |-> <<TRUE>>,
         digest |-> "d",         digestIsHex |-> TRUE,     certified |-> TRUE,
         issuer |-> "github",    repositories |-> <<"router">>, subject |-> <<"d">>,
         predicateIsSnp |-> TRUE, stated |-> [len |-> 48, of |-> "new"],
         reportLen |-> ReportSize, version |-> 2,          measurement |-> [len |-> 48, of |-> "new"],
         debug |-> FALSE,        vmpl |-> 0,               reportedTcb |-> 1,
         committedTcb |-> 1,     reportSigned |-> TRUE,    vcek |-> "Milan",
         certKey |-> "k",        tlsKey |-> "k",           san |-> {<<"*", "b", "a">>},
         domain |-> <<"a", "b", "A">>]

\* What each field may be instead.
Other(f) ==
    CASE f = "integratedTime" -> {Absent} \cup 0..(Now + FutureTolerance + 1)
      [] f = "signatures"     -> {<<>>, <<FALSE>>, <<TRUE, FALSE>>, <<FALSE, TRUE>>}
      [] f = "digest"         -> {"e"}
      [] f = "repositories"   -> {<<>>, <<"">>, <<"fork">>, <<"router", "fork">>}
      [] f = "issuer"         -> {"gitlab"}
      [] f = "subject"        -> {<<>>, <<"e">>, <<"e", "d">>, <<"d", "e">>}
      [] f = "stated"         -> {[len |-> n, of |-> "old"] : n \in {47, 48}}
      [] f = "measurement"    -> {[len |-> 48, of |-> "old"]}
      [] f = "reportLen"      -> {0} \cup ((ReportSize - 1)..(ReportSize + 2))
      [] f = "version"        -> {1, 3}
      [] f = "vmpl"           -> {1}
      [] f = "reportedTcb"    -> {0, Base, Byte7}
      [] f = "committedTcb"   -> {0, Base, Byte2}
      [] f = "vcek"           -> {"Genoa", "Turin", "unknown"}
      [] f \in {"certKey", "tlsKey"} -> {"l"}
      [] f = "san"            -> {{}, {<<"*", "a">>}, {<<"b">>, <<"a", "b", "a">>}}
      [] f = "domain"         -> {<<"b", "a">>, <<"a", "b", "b", "a">>, <<"a", "b", "">>}
      [] OTHER                -> BOOLEAN

Altered(bs) ==
    bs \cup UNION {{[b EXCEPT ![f] = v] : v \in Other(f)} : b \in bs, f \in DOMAIN Good}

MCBundles  == Altered(Altered({Good}))
MCPolicies == [signerRepository : {"router", ""}, oidcIssuer : {"github"},
               maxAge : {1, NoLimit}, requireDebugDisabled : BOOLEAN, checkEnclaveCertificate : BOOLEAN]

(* ------------------------------ the rules --------------------------------- *)
Names(max) == UNION {[1..n -> Labels] : n \in 1..max}
Byte       == 0..(Base - 1)
Tcb        == [boot : Byte, tee : Byte, reserved : 0..(Byte2 * Byte2 - 1), snp : Byte, microcode : Byte]

Pack(c) == c.boot + c.tee * Base + c.reserved * Byte2
           + c.snp * Byte6 + c.microcode * Byte7

Covers(pattern, host) ==
    /\ Len(pattern) = Len(host)
    /\ \A i \in DOMAIN host : host[i] \in {"a", "A", "b"}
    /\ \A i \in DOMAIN pattern :
          \/ {pattern[i], host[i]} \subseteq {"a", "A"} \/ pattern[i] = host[i]
          \/ pattern[i] = "*" /\ i = 1 /\ Len(pattern) > 2

\* domain.rs:185-205 in terms of names, not of strings: a name covers a host
\* label by label, except that its whole leftmost label may be a wildcard for
\* one label of the host, if at least two labels follow it.  A host may have a
\* label more than any pattern, so that a wildcard could take two.
DnsNameMatchesCovers ==
    \A pattern \in Names(MaxLabels), host \in Names(MaxLabels + 1) :
        DnsNameMatches(pattern, host) <=> Covers(pattern, host)

\* verify.rs:99-102: "Every component has to be at least the committed value",
\* whatever the more significant components and the reserved bytes say.
NoHiddenRollback ==
    \A r, c \in Tcb :
        RolledBack(Pack(r), Pack(c)) <=>
            \E f \in {"boot", "tee", "snp", "microcode"} : r[f] < c[f]

\* sigstore.rs:260-263: no timestamp is accepted for ever.  One that is accepted
\* at some time is refused at any time later by more than the maximum age and
\* the tolerance together.
NeverImmortal ==
    \A at, maxAge, now, later \in 0..MaxTime :
        AgeAllowed(at, maxAge, now) /\ later > now + maxAge + FutureTolerance
            => ~AgeAllowed(at, maxAge, later)

\* domain.rs:185-205, verify.rs:99-102, sigstore.rs:260-263: the three rules compute
\* what their comments promise, on every input up to the bounds.  They are what every
\* attestation that begins will be decided by.
RulesKeepTheirWord ==
    stage = "head" => DnsNameMatchesCovers /\ NoHiddenRollback /\ NeverImmortal

=============================================================================
