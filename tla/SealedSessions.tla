--------------------------- MODULE SealedSessions ---------------------------
(* Several sealed calls at once (ehbp/seal.rs, and the key derivation of       *)
(* ehbp/open.rs), over an intermediary that may repeat requests, hand a call   *)
(* the head of any response, and put any frame under it.  Every attempt of a    *)
(* request is a call of its own: seal sets up a fresh sender context each time. *)
(* Within a call, FrameChannel has the details of the framing.                 *)
EXTENDS Naturals, Sequences, FiniteSets

CONSTANTS
    Calls,           \* the calls of seal, each with an encapsulated key of its own
    NonceLen,        \* 12: bytes in an AES-GCM nonce
    SeqLen,          \* 8: bytes in a sequence number
    LastSeq,         \* u64::MAX
    BeBytes,         \* u64::to_be_bytes, of every sequence number
    MaxResponses,    \* bound: how many requests the enclave answers
    MaxFrames        \* bound: how many frames it seals in one response

VARIABLES
    base,         \* the nonce base: the same for every key, the worst HKDF can do
    session,      \* per call: "none", "sealed", "open" or "failed"
    responses,    \* the responses begun by the enclave; its nonces are their numbers
    opener,       \* per call: the FrameOpener
    got           \* per call: the words decrypted so far

vars == <<base, session, responses, opener, got>>

Bytes     == 0..1    \* a byte, reduced to one bit
Xor(a, b) == (a + b) % 2

\* Sequence numbers fit into nonces, no two have the same bytes, and frames have
\* sequence numbers.
SessionsAssumption ==
    /\ NonceLen \in Nat /\ SeqLen \in 1..NonceLen /\ LastSeq \in Nat
    /\ BeBytes \in [0..LastSeq -> [1..SeqLen -> Bytes]]
    /\ \A x, y \in 0..LastSeq : BeBytes[x] = BeBytes[y] => x = y
    /\ MaxResponses \in Nat /\ MaxFrames \in 0..(LastSeq + 1)

\* HPKE's exporter: a secret that only the sender of `c` and the enclave know.
Export(c) == c

\* Bug: the response nonce is not mixed in.
DeriveWithoutNonce(secret, enc, nonce) == <<secret, enc>>
\* derive: HKDF with the salt enc || response_nonce is a different key for each.
Derive(secret, enc, nonce) == <<secret, enc, nonce>>

\* Bug: only the last byte of the sequence number reaches the nonce.
FrameNonceLastByte(b, seq) ==
    [i \in 1..NonceLen |-> IF i = NonceLen THEN Xor(b[i], BeBytes[seq][SeqLen]) ELSE b[i]]

\* frame_nonce: the sequence number is XORed into the last SeqLen bytes.
FrameNonce(b, seq) ==
    [i \in 1..NonceLen |->
        IF i > NonceLen - SeqLen THEN Xor(b[i], BeBytes[seq][i - (NonceLen - SeqLen)])
        ELSE b[i]]

\* The frames of response n: what the enclave has sealed, from sequence number 0.
Word(n, i) == <<n, i>>
FrameOf(n, i) ==
    LET enc == responses[n].enc
    IN [key |-> Derive(Export(enc), enc, n), nonce |-> FrameNonce(base, i - 1), word |-> Word(n, i)]
Frames == UNION {{FrameOf(n, i) : i \in 1..responses[n].sealed} : n \in DOMAIN responses}

Opens(f, o) == f.key = o.key /\ f.nonce = FrameNonce(base, o.seq)

(* ------------------------------ actions ----------------------------------- *)
Seal(c) ==
    /\ session[c] = "none"
    /\ session' = [session EXCEPT ![c] = "sealed"]
    /\ UNCHANGED <<base, responses, opener, got>>

\* The enclave receives the request of call c, once or again, draws a fresh
\* response nonce and starts to answer.
Serve(c) ==
    /\ session[c] # "none" /\ Len(responses) < MaxResponses
    /\ responses' = Append(responses, [enc |-> c, sealed |-> 0])
    /\ UNCHANGED <<base, session, opener, got>>

SealFrame(n) ==
    /\ responses[n].sealed < MaxFrames
    /\ responses' = [responses EXCEPT ![n].sealed = @ + 1]
    /\ UNCHANGED <<base, session, opener, got>>

\* ResponseSession::opener over whatever nonce the head carries.
ReadHead(c) ==
    /\ session[c] = "sealed"
    /\ session' = [session EXCEPT ![c] = "open"]
    /\ \E nonce \in 0..Len(responses) :
          opener' = [opener EXCEPT ![c] = [key |-> Derive(Export(c), c, nonce), seq |-> 0]]
    /\ UNCHANGED <<base, responses, got>>

BadHead(c) ==
    /\ session[c] = "sealed"
    /\ session' = [session EXCEPT ![c] = "failed"]
    /\ UNCHANGED <<base, responses, opener, got>>

\* open_frame authenticates, and the sequence number moves on.
OpenFrame(c, f) ==
    /\ session[c] = "open" /\ Opens(f, opener[c]) /\ opener[c].seq < LastSeq
    /\ opener' = [opener EXCEPT ![c].seq = @ + 1]
    /\ got' = [got EXCEPT ![c] = Append(@, f.word)]
    /\ UNCHANGED <<base, session, responses>>

\* Bug: a frame that is refused takes a sequence number.
RejectFrameCounts(c) ==
    /\ session[c] = "open"
    /\ opener' = [opener EXCEPT ![c].seq = @ + 1]
    /\ session' = [session EXCEPT ![c] = "failed"]
    /\ UNCHANGED <<base, responses, got>>

\* Any other frame, one nobody sealed, or the one that exhausts the sequence
\* ends the call.
RejectFrame(c) ==
    /\ session[c] = "open"
    /\ session' = [session EXCEPT ![c] = "failed"]
    /\ UNCHANGED <<base, responses, opener, got>>

Init ==
    /\ base \in [1..NonceLen -> Bytes]
    /\ session = [c \in Calls |-> "none"]
    /\ responses = <<>>
    /\ opener = [c \in Calls |-> [key |-> <<>>, seq |-> 0]]
    /\ got = [c \in Calls |-> <<>>]

Next ==
    \/ \E c \in Calls : Seal(c) \/ Serve(c) \/ ReadHead(c) \/ BadHead(c) \/ RejectFrame(c)
    \/ \E c \in Calls, f \in Frames : OpenFrame(c, f)
    \/ \E n \in DOMAIN responses : SealFrame(n)

Spec == Init /\ [][Next]_vars

(* ------------------------------ properties -------------------------------- *)
TypeOK ==
    /\ base \in [1..NonceLen -> Bytes]
    /\ session \in [Calls -> {"none", "sealed", "open", "failed"}]
    /\ responses \in Seq([enc : Calls, sealed : 0..MaxFrames])
    /\ \A c \in Calls : opener[c].seq = Len(got[c])

\* open.rs:3-5, 103-104: what a call decrypts is the beginning of one response
\* the enclave made to that very call, whatever requests were repeated, heads
\* exchanged and frames mixed.
OneOwnResponse ==
    \A c \in Calls : got[c] # <<>> =>
        \E n \in DOMAIN responses :
            /\ responses[n].enc = c
            /\ Len(got[c]) <= responses[n].sealed
            /\ got[c] = [i \in DOMAIN got[c] |-> Word(n, i)]

\* open.rs:92-94, 129-131: the enclave never seals two frames under one key and
\* one nonce, whatever the base and however many frames its answers have.
KeyNonceUnique ==
    \A f, g \in Frames : f.key = g.key /\ f.nonce = g.nonce => f = g

=============================================================================
