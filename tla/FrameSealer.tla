----------------------------- MODULE FrameSealer -----------------------------
(* The enclave's half of an EHBP response: FrameSealer in ehbp/open.rs, and   *)
(* the writes the enclave's application makes.  A frame is known by its       *)
(* ciphertext length, the sequence number its nonce was made from and the     *)
(* write it carries; a write is known by its number.                          *)
EXTENDS Naturals, Sequences

CONSTANTS
    SeqMax,         \* u64::MAX, the last sequence number
    MaxFrameLen,    \* MAX_FRAME_LEN: the decoder's cap, not the sealer's
    MaxWrites       \* bound: how often the application writes

ASSUME SealerAssumption ==
    SeqMax \in Nat /\ MaxFrameLen \in Nat \ {0} /\ MaxWrites \in Nat

VARIABLES
    sealSeq,    \* FrameSealer::seq, Poisoned for None
    writes,     \* how many times the application has written
    nonces,     \* history: the sequence numbers encrypted under, in order
    sealed      \* the frames seal_frame returned, in order

sealerVars == <<sealSeq, writes, nonces, sealed>>

Poisoned == SeqMax + 1
Seqs     == 0..SeqMax

\* u64::checked_add(1)
CheckedAdd(s) == IF s < SeqMax THEN s + 1 ELSE Poisoned

\* A ciphertext is never empty, and the sealer lets it be longer than what the
\* decoder accepts.
CiphertextLens == 1..(MaxFrameLen + 1)

\* seal_frame returns a frame: the number is burnt first, restored plus one last.
SealFrame(len) ==
    /\ writes < MaxWrites
    /\ writes' = writes + 1
    /\ sealSeq # Poisoned
    /\ nonces' = Append(nonces, sealSeq)
    /\ sealed' = Append(sealed, [len |-> len, seq |-> sealSeq, payload |-> writes'])
    /\ sealSeq' = CheckedAdd(sealSeq)

\* Bug: a failed seal gives its sequence number back.
SealFailsUnburnt ==
    /\ writes < MaxWrites
    /\ writes' = writes + 1
    /\ sealSeq # Poisoned
    /\ nonces' = Append(nonces, sealSeq)
    /\ UNCHANGED <<sealSeq, sealed>>

\* Encryption fails, or the ciphertext is too long to frame: poisoned for good.
SealFails ==
    /\ writes < MaxWrites
    /\ writes' = writes + 1
    /\ sealSeq # Poisoned
    /\ nonces' = Append(nonces, sealSeq)
    /\ sealSeq' = Poisoned
    /\ UNCHANGED sealed

\* A write to a poisoned sealer is an error and encrypts nothing.
SealRefused ==
    /\ writes < MaxWrites
    /\ writes' = writes + 1
    /\ sealSeq = Poisoned
    /\ UNCHANGED <<sealSeq, nonces, sealed>>

SealerInit == sealSeq = 0 /\ writes = 0 /\ nonces = <<>> /\ sealed = <<>>

SealerNext == (\E len \in CiphertextLens : SealFrame(len)) \/ SealFails \/ SealRefused

(* ------------------------------ properties -------------------------------- *)
\* open.rs:172-177: no failure, retry or exhausted counter makes the sealer
\* encrypt twice under one nonce.
NonceNeverReused ==
    \A i, j \in DOMAIN nonces : nonces[i] = nonces[j] => i = j

=============================================================================
