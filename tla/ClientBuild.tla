----------------------------- MODULE ClientBuild -----------------------------
(* PpqClientBuilder::build in client.rs: attest, then fetch the advertised key   *)
(* configuration, take it apart (ehbp/keyconfig.rs) and compare the two keys.    *)
(* A configuration is a string of bytes; bytes are in base Radix, and a public   *)
(* key is KeyLen of them.                                                       *)
EXTENDS Naturals, Sequences

CONSTANTS
    Radix,    \* 256
    KeyLen,   \* 32: bytes in an X25519 public key
    Keys,     \* the keys an attestation may prove
    Raws      \* what the response body of hpke-keys may be

ASSUME BuildAssumption ==
    /\ Radix \in Nat \ {0} /\ KeyLen \in Nat \ {0}
    /\ Keys \subseteq [1..KeyLen -> 0..(Radix - 1)] /\ Raws \subseteq Seq(0..(Radix - 1))

VARIABLES
    stage,    \* what is to be done next, or how build returned
    proved,   \* the key the attestation proves
    raw,      \* the body fetched; empty before, and once the client is built
    reach,    \* history: the furthest byte of raw that parse has read
    bound     \* the key the client seals to, empty before

vars == <<stage, proved, raw, reach, bound>>

Errs == {"Http", "Json", "Ehbp", "Attestation"}

\* The identifiers, as bytes: X25519-HKDF-SHA256 (whose low byte, 0x20, is 2 here
\* to fit a small Radix), HKDF-SHA256 and AES-256-GCM.
Kem  == <<0, 2>>
Kdf  == <<0, 1>>
Aead == <<0, 2>>

\* Where parse finds things in raw, which it reads without looking at its length.
Byte(i)     == IF i \in DOMAIN raw THEN raw[i] ELSE 0
Field(i, n) == [j \in 1..n |-> Byte(i + j - 1)]
U16(i)      == Byte(i) * Radix + Byte(i + 1)
KemAt       == 2
KeyAt       == 4
SuitesLenAt == KeyAt + KeyLen
SuitesAt    == SuitesLenAt + 2
MinLen      == SuitesAt + 3

Proceed(to, upTo) ==
    /\ stage' = to
    /\ reach' = IF upTo > reach THEN upTo ELSE reach
    /\ UNCHANGED <<proved, raw, bound>>

(* ------------------------------ steps ------------------------------------- *)
\* No API key is configured, or reqwest cannot be set up.
Unconfigured ==
    /\ stage = "configure"
    /\ \E e \in {"Attestation", "Http"} : Proceed(e, 0)

\* attest, which Attestation models: it proves a key, or fails.
AttestOk ==
    /\ stage = "configure"
    /\ proved' \in Keys
    /\ stage' = "fetch" /\ UNCHANGED <<raw, reach, bound>>

AttestFails ==
    /\ stage = "configure"
    /\ \E e \in {"Http", "Json", "Attestation"} : Proceed(e, 0)

\* The endpoint may be another deployment by now, or somebody on the way.
Fetch ==
    /\ stage = "fetch"
    /\ raw' \in Raws
    /\ stage' = "length" /\ UNCHANGED <<proved, reach, bound>>

FetchFails == stage = "fetch" /\ Proceed("Http", 0)

\* Bug: only the part of fixed length is checked here, and without the length of
\* the list that ends it.
CheckLengthLoose ==
    /\ stage = "length"
    /\ Proceed(IF Len(raw) < SuitesLenAt THEN "Ehbp" ELSE "kem", 0)

CheckLength ==
    /\ stage = "length"
    /\ Proceed(IF Len(raw) < MinLen THEN "Ehbp" ELSE "kem", 0)

CheckKem ==
    /\ stage = "kem"
    /\ Proceed(IF Field(KemAt, 2) # Kem THEN "Ehbp" ELSE "suites", KemAt + 1)

\* Bug: the list must be one suite and nothing else.
CheckSuitesLenExact ==
    /\ stage = "suites"
    /\ Proceed(IF U16(SuitesLenAt) # 4 \/ Len(raw) < SuitesAt - 1 + U16(SuitesLenAt)
               THEN "Ehbp" ELSE "suite", SuitesLenAt + 1)

\* The list has a suite, and is there in full.  What follows it is not looked at.
CheckSuitesLen ==
    /\ stage = "suites"
    /\ Proceed(IF U16(SuitesLenAt) < 4 \/ Len(raw) < SuitesAt - 1 + U16(SuitesLenAt)
               THEN "Ehbp" ELSE "suite", SuitesLenAt + 1)

\* Bug: the suite is not looked at, since there is only one.
CheckSuiteAny == stage = "suite" /\ Proceed("compare", SuitesAt + 3)

\* Only the first suite counts.
CheckSuite ==
    /\ stage = "suite"
    /\ Proceed(IF Field(SuitesAt, 2) # Kdf \/ Field(SuitesAt + 2, 2) # Aead
               THEN "Ehbp" ELSE "compare", SuitesAt + 3)

Built(key) ==
    /\ stage' = "built" /\ bound' = key
    /\ raw' = <<>> /\ reach' = 0 /\ UNCHANGED proved

\* Bug: the client is bound to the key that is advertised.
CompareNothing == stage = "compare" /\ Built(Field(KeyAt, KeyLen))

Compare ==
    /\ stage = "compare"
    /\ IF Field(KeyAt, KeyLen) = proved THEN Built(proved)
       ELSE Proceed("Attestation", KeyAt + KeyLen - 1)

Init == stage = "configure" /\ proved = <<>> /\ raw = <<>> /\ reach = 0 /\ bound = <<>>

Next ==
    \/ Unconfigured \/ AttestOk \/ AttestFails \/ Fetch \/ FetchFails
    \/ CheckLength \/ CheckKem \/ CheckSuitesLen \/ CheckSuite \/ Compare
    \/ stage \in Errs \cup {"built"} /\ UNCHANGED vars

Spec == Init /\ [][Next]_vars

(* ------------------------------ properties -------------------------------- *)
\* The layout of keyconfig.rs:7-10, written down as an encoder.
Encode(id, key, suites) ==
    <<id>> \o Kem \o key \o <<Len(suites) \div Radix, Len(suites) % Radix>> \o suites

\* A configuration the enclave could have published for `key`: the suite in use
\* first, then perhaps others, and perhaps further bytes behind the list.
Publishes(r, key) ==
    \E n \in 4..(Len(r) + 1 - SuitesAt) :
        LET suites == SubSeq(r, SuitesAt, SuitesAt - 1 + n)
        IN /\ SubSeq(suites, 1, 4) = Kdf \o Aead
           /\ SubSeq(r, 1, SuitesAt - 1 + n) = Encode(r[1], key, suites)

\* What a step may do with a body that has arrived.
StepIsRight ==
    /\ reach' <= Len(raw')
    /\ stage' = "built" /\ stage # "built" => bound' = proved /\ Publishes(raw, proved)
    /\ stage' \in {"Ehbp", "Attestation"} /\ raw' # <<>> => ~Publishes(raw', proved')

\* keyconfig.rs:20-46, client.rs:425-447: whatever bytes arrive, parse reads none
\* beyond their end; a client is built only if the endpoint published the very key
\* that was proved, for the suite requests are sealed with, and is bound to it; and
\* whoever does publish it is not refused, whatever else the configuration holds.
BuiltIffPublished == [][StepIsRight]_vars

=============================================================================
