---------------------------- MODULE MCPpqClient ------------------------------
(* PpqClient over every key configuration that begins like a published one, of   *)
(* one suite or two, and differs from it in at most two bytes.                  *)
EXTENDS PpqClient

\* They differ in their last byte only.
MCKeys == {k \in [1..KeyLen -> {1, 2}] : \A i \in 1..(KeyLen - 1) : k[i] = 1}

Published ==
    {Encode(0, k, s) \o more : k \in MCKeys, s \in {Kdf \o Aead, Kdf \o Aead \o Kdf \o Aead},
                               more \in {<<>>, <<1>>}}

Prefixes(s) == {SubSeq(s, 1, n) : n \in 0..Len(s)}

Altered(rs) ==
    rs \cup UNION {{[r EXCEPT ![i] = b] : i \in DOMAIN r, b \in 0..(Radix - 1)} : r \in rs}

\* Big-endian, over bytes of one bit.
MCBeBytes == [seq \in 0..LastSeq |-> [i \in 1..SeqLen |-> (seq \div 2^(SeqLen - i)) % 2]]

MCRaws == Altered(Altered(UNION {Prefixes(r) : r \in Published}))

=============================================================================
