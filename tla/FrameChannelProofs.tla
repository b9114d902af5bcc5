------------------------- MODULE FrameChannelProofs -------------------------
(* Safety of a sealed response body for any sequence space, any frame sizes,  *)
(* any transport and any number of pushes.                                    *)
EXTENDS FrameChannel, SequenceTheorems, FiniteSetTheorems, TLAPS

FrameType == [len : Nat, seq : 0..Poisoned, payload : Nat]

\* The sealer: what it encrypted under, and what it returned, are numbered
\* from 0, and its counter is the next number while it has one.
SealerInv ==
    /\ writes \in Nat
    /\ sealSeq \in 0..Poisoned
    /\ nonces \in Seq(Nat)
    /\ sealed \in Seq(FrameType)
    /\ \A i \in 1..Len(nonces) : nonces[i] = i - 1
    /\ \A i \in 1..Len(sealed) : sealed[i].seq = i - 1
    /\ sealSeq # Poisoned => Len(nonces) = sealSeq /\ Len(sealed) = sealSeq

\* Frame k + 1 of the wire starts at byte off[k].
Layout(off) ==
    /\ off[0] = 0
    /\ \A k \in 1..Len(wire) : off[k] = off[k - 1] + HeaderLen + wire[k].len

\* A healthy decoder: buf and the cursor stand where the bytes read and parsed
\* so far put them.
Stands(off) ==
    ~failed => /\ off[drained] + bufLen + unread = off[Len(wire)]
               /\ off[drained] + pos = off[cur]

\* The transport: it makes up no sealed frame, and a healthy decoder has read
\* all that came before.
WireInv ==
    /\ wire \in Seq(FrameType)
    /\ \A i \in 1..Len(wire) : wire[i] \in SealedFrames \cup Foreign
    /\ \E off \in [0..Len(wire) -> Nat] :
          /\ Layout(off)
          /\ Stands(off)

\* push has returned what it parsed, or is still parsing, only on a healthy
\* decoder; between two pushes that one buffers less than a frame.
PhaseInv ==
    /\ phase = "err" => failed
    /\ phase \in {"loop", "ok"} => ~failed
    /\ phase \in {"idle", "ok"} /\ ~failed => bufLen < HeaderLen + MaxFrameLen

Running == phase \in {"loop", "ok"}

\* The opener's number counts what was returned and what this push decrypted,
\* and both are the enclave's frames, in its order.
OutputInv ==
    /\ out \in Seq(Nat) /\ emitted \in Seq(Nat)
    /\ phase = "idle" /\ ~failed => openSeq = Len(emitted)
    /\ Running => /\ openSeq = Len(emitted) + Len(out)
                  /\ openSeq <= Len(sealed)
                  /\ \A k \in 1..Len(out) : out[k] = sealed[Len(emitted) + k].payload
    /\ Len(emitted) <= Len(sealed)
    /\ \A i \in 1..Len(emitted) : emitted[i] = sealed[i].payload

ChannelInv == ChannelTypeOK /\ SealerInv /\ WireInv /\ PhaseInv /\ OutputInv

-----------------------------------------------------------------------------
\* The constants are numbers, and no sequence number is the poisoned one.
LEMMA Bounds ==
    /\ SeqMax \in Nat /\ MaxFrameLen \in Nat \ {0} /\ HeaderLen \in Nat \ {0}
    /\ Poisoned \in Nat /\ Poisoned \notin Seqs
BY SealerAssumption, ChannelAssumption DEF Poisoned, Seqs

\* A newly created channel satisfies the invariant.
LEMMA InitInv == ChannelInit => ChannelInv
<1> SUFFICES ASSUME ChannelInit PROVE ChannelInv
  OBVIOUS
<1> USE Bounds DEF ChannelInit, SealerInit
<1>0. Len(wire) = 0
  OBVIOUS
<1>1. ChannelTypeOK
  <2>0. phase = "idle" /\ failed \in BOOLEAN
    OBVIOUS
  <2>1. sealSeq \in Seqs /\ openSeq \in Seqs
    BY DEF Seqs
  <2>2. /\ bufLen \in Nat /\ unread \in Nat /\ pos \in 0..bufLen
        /\ drained \in 0..cur /\ cur \in 0..Len(wire)
    BY <1>0
  <2>3. QED
    BY <2>0, <2>1, <2>2 DEF ChannelTypeOK
<1>2. SealerInv
  BY DEF SealerInv, Poisoned
<1>3. WireInv
  <2> DEFINE off == [k \in 0..0 |-> 0]
  <2>1. off \in [0..Len(wire) -> Nat]
    BY <1>0
  <2>2. Layout(off)
    BY <1>0 DEF Layout
  <2>3. Stands(off)
    BY <1>0 DEF Stands
  <2>4. wire \in Seq(FrameType) /\ \A i \in 1..Len(wire) : wire[i] \in SealedFrames \cup Foreign
    BY <1>0
  <2>5. QED
    BY <2>1, <2>2, <2>3, <2>4 DEF WireInv
<1>4. PhaseInv /\ OutputInv
  BY DEF PhaseInv, OutputInv, Running
<1>5. QED
  BY <1>1, <1>2, <1>3, <1>4 DEF ChannelInv

-----------------------------------------------------------------------------
\* A sealer's step extends what it has sealed and keeps the numbering.
LEMMA SealerStep ==
    ASSUME SealerInv, SealerNext
    PROVE  /\ SealerInv'
           /\ sealed' \in Seq(FrameType)
           /\ Len(sealed) <= Len(sealed')
           /\ \A i \in 1..Len(sealed) : sealed'[i] = sealed[i]
<1> USE Bounds DEF SealerInv
<1>1. ASSUME NEW len \in CiphertextLens, SealFrame(len) PROVE SealerInv'
  <2> DEFINE f == [len |-> len, seq |-> sealSeq, payload |-> writes']
  <2>1. f \in FrameType /\ sealSeq \in Nat /\ sealSeq # Poisoned
    BY <1>1 DEF SealFrame, FrameType, CiphertextLens
  <2>2. sealed' = Append(sealed, f) /\ nonces' = Append(nonces, sealSeq)
    BY <1>1 DEF SealFrame
  <2>3. Len(sealed) = sealSeq /\ Len(nonces) = sealSeq
    BY <2>1
  <2>4. sealSeq' \in 0..Poisoned /\ (sealSeq' # Poisoned => sealSeq' = sealSeq + 1)
    BY <1>1 DEF SealFrame, CheckedAdd, Poisoned
  <2>5. writes' \in Nat
    BY <1>1 DEF SealFrame
  <2>6. sealed' \in Seq(FrameType) /\ nonces' \in Seq(Nat)
        /\ Len(sealed') = sealSeq + 1 /\ Len(nonces') = sealSeq + 1
    BY <2>1, <2>2, <2>3
  <2>7. \A i \in 1..Len(nonces') : nonces'[i] = i - 1
    BY <2>1, <2>2, <2>3
  <2>8. \A i \in 1..Len(sealed') : sealed'[i].seq = i - 1
    <3> SUFFICES ASSUME NEW i \in 1..Len(sealed') PROVE sealed'[i].seq = i - 1
      OBVIOUS
    <3>1. CASE i = sealSeq + 1
      BY <3>1, <2>2, <2>3, <2>1
    <3>2. CASE i \in 1..Len(sealed)
      BY <3>2, <2>2, <2>3, <2>1
    <3>3. QED
      BY <3>1, <3>2, <2>3, <2>6, <2>1
  <2>9. QED
    BY <2>4, <2>5, <2>6, <2>7, <2>8
<1>2. ASSUME SealFails PROVE SealerInv'
  <2>1. sealSeq \in Nat /\ sealSeq' = Poisoned /\ writes' \in Nat
    BY <1>2 DEF SealFails
  <2>2. nonces' = Append(nonces, sealSeq) /\ Len(nonces) = sealSeq /\ sealed' = sealed
    BY <1>2 DEF SealFails
  <2>3. QED
    BY <2>1, <2>2
<1>3. ASSUME SealRefused PROVE SealerInv'
  BY <1>3 DEF SealRefused
<1>4. ASSUME NEW len \in CiphertextLens, SealFrame(len)
      PROVE Len(sealed) <= Len(sealed') /\ \A i \in 1..Len(sealed) : sealed'[i] = sealed[i]
  <2>1. [len |-> len, seq |-> sealSeq, payload |-> writes'] \in FrameType
    BY <1>4 DEF SealFrame, FrameType, CiphertextLens
  <2>2. QED
    BY <1>4, <2>1 DEF SealFrame
<1>5. ASSUME SealFails \/ SealRefused PROVE sealed' = sealed
  BY <1>5 DEF SealFails, SealRefused
<1>6. QED
  BY <1>1, <1>2, <1>3, <1>4, <1>5 DEF SealerNext

\* Sealing more leaves what was carried and what was decrypted true.
LEMMA SealInv == ASSUME ChannelInv, Seal PROVE ChannelInv'
<1> USE Bounds DEF ChannelInv
<1>1. SealerNext /\ UNCHANGED <<wireVars, decoderVars, emitted>>
  BY DEF Seal
<1>2. SealerInv' /\ Len(sealed) <= Len(sealed') /\ sealed' \in Seq(FrameType)
      /\ \A i \in 1..Len(sealed) : sealed'[i] = sealed[i]
  BY <1>1, SealerStep
<1>3. sealed \in Seq(FrameType) /\ Len(sealed) \in Nat /\ Len(sealed') \in Nat
  BY <1>2 DEF SealerInv
<1>4. ChannelTypeOK'
  BY <1>1, <1>2 DEF ChannelTypeOK, SealerInv, wireVars, decoderVars, Seqs, Poisoned
<1>5. WireInv'
  <2>1. SealedFrames \subseteq SealedFrames'
    BY <1>2, <1>3 DEF SealedFrames
  <2>2. QED
    BY <1>1, <2>1 DEF WireInv, Layout, Stands, wireVars, decoderVars, Foreign, Empty
<1>6. PhaseInv'
  BY <1>1 DEF PhaseInv, wireVars, decoderVars
<1>7. OutputInv'
  <2>1. UNCHANGED <<out, emitted, phase, failed, openSeq>>
    BY <1>1 DEF wireVars, decoderVars
  <2>2. ASSUME Running, NEW k \in 1..Len(out)
        PROVE  out'[k] = sealed'[Len(emitted') + k].payload
    <3>1. Len(emitted) + k \in 1..Len(sealed)
      BY <2>2, <1>3 DEF OutputInv
    <3>2. QED
      BY <3>1, <2>1, <2>2, <1>2 DEF OutputInv
  <2>3. ASSUME NEW i \in 1..Len(emitted) PROVE emitted'[i] = sealed'[i].payload
    <3>1. i \in 1..Len(sealed)
      BY <1>3 DEF OutputInv
    <3>2. QED
      BY <3>1, <2>1, <1>2 DEF OutputInv
  <2>4. openSeq \in Nat /\ Len(emitted) \in Nat
    BY DEF ChannelTypeOK, OutputInv, Seqs
  <2>5. Len(emitted) <= Len(sealed') /\ (Running => openSeq <= Len(sealed'))
    BY <2>4, <1>2, <1>3 DEF OutputInv
  <2>6. Running' <=> Running
    BY <2>1 DEF Running
  <2>7. \A i \in 1..Len(emitted') : emitted'[i] = sealed'[i].payload
    BY <2>1, <2>3
  <2>8. Running' => /\ openSeq' = Len(emitted') + Len(out')
                    /\ openSeq' <= Len(sealed')
                    /\ \A k \in 1..Len(out') : out'[k] = sealed'[Len(emitted') + k].payload
    <3>1. ASSUME Running PROVE openSeq' = Len(emitted') + Len(out')
      BY <3>1, <2>1 DEF OutputInv
    <3>2. QED
      BY <3>1, <2>1, <2>2, <2>5, <2>6
  <2>9. QED
    BY <2>1, <2>5, <2>7, <2>8 DEF OutputInv
<1>8. QED
  BY <1>2, <1>4, <1>5, <1>6, <1>7

\* Every frame the transport can carry is a frame.
LEMMA Carried ==
    ASSUME SealerInv, NEW f \in SealedFrames \cup Foreign
    PROVE  f \in FrameType
<1>1. CASE f \in SealedFrames
  BY <1>1 DEF SealerInv, SealedFrames
<1>2. CASE f \in Foreign
  BY <1>2, Bounds DEF Foreign, Empty, FrameType
<1>3. QED
  BY <1>1, <1>2

\* One more frame at the end of the wire moves no byte before it.
LEMMA CarryInv == ASSUME ChannelInv, Carry PROVE ChannelInv'
<1> USE Bounds DEF ChannelInv
<1>1. PICK f \in SealedFrames \cup Foreign :
        wire' = Append(wire, f) /\ unread' = unread + HeaderLen + f.len
  BY DEF Carry
<1>2. f \in FrameType /\ f.len \in Nat
  <2>1. f \in FrameType
    BY Carried
  <2>2. QED
    BY <2>1 DEF FrameType
<1>3. UNCHANGED <<sealerVars, decoderVars, emitted>>
  BY DEF Carry
<1>4. wire \in Seq(FrameType) /\ wire' \in Seq(FrameType) /\ Len(wire') = Len(wire) + 1
      /\ Len(wire) \in Nat /\ wire'[Len(wire) + 1] = f
      /\ \A i \in 1..Len(wire) : wire'[i] = wire[i]
  BY <1>1, <1>2 DEF WireInv
<1>5. ChannelTypeOK'
  BY <1>1, <1>2, <1>3, <1>4 DEF ChannelTypeOK, sealerVars, decoderVars, Seqs, Poisoned
<1>6. SealerInv' /\ PhaseInv' /\ OutputInv'
  BY <1>3 DEF SealerInv, PhaseInv, OutputInv, Running, sealerVars, decoderVars
<1>7. WireInv'
  <2>1. PICK off \in [0..Len(wire) -> Nat] :
          /\ Layout(off)
          /\ Stands(off)
    BY DEF WireInv
  <2> DEFINE end == off[Len(wire)] + HeaderLen + f.len
  <2>2. end \in Nat
    BY <1>2, <1>4
  <2>3. PICK g \in [0..Len(wire') -> Nat] :
          g[Len(wire')] = end /\ \A k \in 0..Len(wire) : g[k] = off[k]
    <3> DEFINE h == [k \in 0..Len(wire') |-> IF k = Len(wire') THEN end ELSE off[k]]
    <3>1. h \in [0..Len(wire') -> Nat]
      BY <2>2, <1>4
    <3>2. h[Len(wire')] = end /\ \A k \in 0..Len(wire) : h[k] = off[k]
      BY <1>4
    <3>3. QED
      BY <3>1, <3>2
  <2>4. Layout(g)'
    <3>1. g[0] = 0
      BY <2>1, <2>3, <1>4 DEF Layout
    <3>2. ASSUME NEW k \in 1..Len(wire')
          PROVE  g[k] = g[k - 1] + HeaderLen + wire'[k].len
      <4>1. CASE k \in 1..Len(wire)
        <5>1. k \in 0..Len(wire) /\ k - 1 \in 0..Len(wire) /\ wire'[k] = wire[k]
          BY <4>1, <1>4
        <5>2. g[k] = off[k] /\ g[k - 1] = off[k - 1]
          BY <5>1, <2>3
        <5>3. QED
          BY <4>1, <5>1, <5>2, <2>1 DEF Layout
      <4>2. CASE k = Len(wire) + 1
        <5>1. g[k] = end /\ g[k - 1] = off[Len(wire)] /\ wire'[k] = f
          BY <4>2, <2>3, <1>4
        <5>2. QED
          BY <5>1
      <4>3. QED
        BY <4>1, <4>2, <1>4
    <3>3. QED
      BY <3>1, <3>2 DEF Layout
  <2>5. UNCHANGED <<drained, bufLen, pos, cur, sealed, failed>>
    BY <1>3 DEF sealerVars, decoderVars
  <2>6. Stands(g)'
    <3>1. /\ drained \in 0..Len(wire) /\ cur \in 0..Len(wire)
          /\ bufLen \in Nat /\ unread \in Nat
      BY <1>4 DEF ChannelTypeOK
    <3>2. g[drained] = off[drained] /\ g[cur] = off[cur] /\ off[drained] \in Nat
      BY <2>3, <3>1
    <3>3. ASSUME ~failed PROVE off[drained] + bufLen + unread' = end
      <4>1. off[drained] + bufLen + unread = off[Len(wire)]
        BY <2>1, <3>3 DEF Stands
      <4>2. unread' = unread + HeaderLen + f.len
        BY <1>1
      <4> DEFINE start == off[drained]
                 len == f.len
      <4>3. start \in Nat /\ bufLen \in Nat /\ unread \in Nat /\ len \in Nat
        BY <3>1, <3>2, <1>2
      <4> HIDE DEF start, len, ChannelInv
      <4>4. start + bufLen + (unread + HeaderLen + len)
                = (start + bufLen + unread) + HeaderLen + len
        BY <4>3
      <4>5. QED
        BY <4>1, <4>2, <4>4 DEF start, len
    <3>4. QED
      BY <2>1, <2>3, <2>5, <3>2, <3>3 DEF Stands
  <2>7. \A i \in 1..Len(wire') : wire'[i] \in (SealedFrames \cup Foreign)'
    <3>1. (SealedFrames \cup Foreign)' = SealedFrames \cup Foreign
      BY <2>5 DEF SealedFrames, Foreign, Empty
    <3>2. \A i \in 1..Len(wire) : wire[i] \in SealedFrames \cup Foreign
      BY DEF WireInv
    <3>3. \A i \in 1..Len(wire') : i \in 1..Len(wire) \/ i = Len(wire) + 1
      BY <1>4
    <3> HIDE DEF ChannelInv
    <3>4. \A i \in 1..Len(wire') : wire'[i] \in SealedFrames \cup Foreign
      BY <3>2, <3>3, <1>4
    <3>5. QED
      BY <3>1, <3>4
  <2>8. QED
    BY <2>3, <2>4, <2>6, <2>7, <1>4 DEF WireInv
<1>8. QED
  BY <1>5, <1>6, <1>7

-----------------------------------------------------------------------------
\* A push appends the bytes it was given and starts at the front of buf.
LEMMA PushInv == ASSUME ChannelInv, Push PROVE ChannelInv'
<1> USE Bounds DEF ChannelInv
<1>1. PICK n \in 1..unread : PushBegin(n) \/ PushPoisoned(n)
  BY DEF Push
<1>2. UNCHANGED <<sealerVars, emitted, wire>>
  BY <1>1 DEF Push, PushBegin, PushPoisoned
<1>3. unread \in Nat /\ bufLen \in Nat /\ n \in Nat
  BY <1>1 DEF ChannelTypeOK
<1>4. ChannelTypeOK'
  BY <1>1, <1>2, <1>3 DEF ChannelTypeOK, PushBegin, PushPoisoned, sealerVars, Seqs, Poisoned
<1>5. SealerInv'
  BY <1>2 DEF SealerInv, sealerVars
<1>6. PhaseInv'
  BY <1>1 DEF PhaseInv, PushBegin, PushPoisoned
<1>7. OutputInv'
  <2>1. openSeq \in Nat /\ Len(emitted) \in Nat /\ Len(sealed) \in Nat
    BY DEF ChannelTypeOK, OutputInv, SealerInv, Seqs
  <2>2. CASE PushBegin(n)
    BY <2>1, <2>2, <1>2 DEF OutputInv, Running, PushBegin, sealerVars
  <2>3. CASE PushPoisoned(n)
    BY <2>1, <2>3, <1>2 DEF OutputInv, Running, PushPoisoned, sealerVars
  <2>4. QED
    BY <1>1, <2>2, <2>3
<1>8. WireInv'
  <2>1. PICK off \in [0..Len(wire) -> Nat] :
          /\ Layout(off)
          /\ Stands(off)
    BY DEF WireInv
  <2>2. drained \in 0..Len(wire) /\ off[drained] \in Nat
    BY DEF ChannelTypeOK, WireInv
  <2>3. Stands(off)'
    <3>1. CASE PushBegin(n)
      BY <3>1, <2>1, <2>2, <1>3 DEF PushBegin, Stands
    <3>2. CASE PushPoisoned(n)
      BY <3>2 DEF PushPoisoned, Stands
    <3>3. QED
      BY <1>1, <3>1, <3>2
  <2>4. Layout(off)'
    BY <2>1, <1>2 DEF Layout
  <2>5. QED
    BY <2>1, <2>3, <2>4, <1>2 DEF WireInv, SealedFrames, Foreign, Empty, sealerVars
<1>9. QED
  BY <1>4, <1>5, <1>6, <1>7, <1>8

-----------------------------------------------------------------------------
\* What every turn of the loop leaves alone keeps its part of the invariant.
LEMMA LoopKeeps ==
    ASSUME ChannelInv, UNCHANGED <<sealerVars, emitted, wire>>
    PROVE  /\ SealerInv'
           /\ wire' \in Seq(FrameType)
           /\ \A i \in 1..Len(wire') : wire'[i] \in (SealedFrames \cup Foreign)'
           /\ \A off : Layout(off) => Layout(off)'
BY DEF ChannelInv, SealerInv, WireInv, Layout, SealedFrames, Foreign, Empty, sealerVars

\* A complete header under the cursor of a healthy decoder belongs to a frame
\* of the wire.
LEMMA FrameThere ==
    ASSUME ChannelInv, phase = "loop", HasHeader
    PROVE  /\ cur < Len(wire) /\ cur + 1 \in 1..Len(wire)
           /\ Frame \in SealedFrames \cup Foreign
           /\ Frame \in FrameType /\ Frame.len \in Nat
<1> USE Bounds DEF ChannelInv
<1>1. PICK off \in [0..Len(wire) -> Nat] : Layout(off) /\ Stands(off)
  BY DEF WireInv
<1>2. wire \in Seq(FrameType) /\ Len(wire) \in Nat
  BY DEF WireInv
<1>3. /\ drained \in 0..Len(wire) /\ cur \in 0..Len(wire)
      /\ bufLen \in Nat /\ unread \in Nat /\ pos \in Nat
  BY <1>2 DEF ChannelTypeOK
<1>4. ~failed
  BY DEF PhaseInv
<1>5. cur # Len(wire)
  <2>1. off[drained] \in Nat /\ off[cur] \in Nat /\ off[Len(wire)] \in Nat
    BY <1>2, <1>3
  <2>2. bufLen - pos >= HeaderLen
    BY DEF HasHeader, Remaining
  <2>3. QED
    BY <1>1, <1>3, <1>4, <2>1, <2>2 DEF Stands
<1>6. cur + 1 \in 1..Len(wire)
  BY <1>2, <1>3, <1>5
<1>7. Frame \in SealedFrames \cup Foreign /\ Frame \in FrameType
  BY <1>2, <1>6 DEF WireInv, Frame
<1>8. QED
  BY <1>2, <1>3, <1>6, <1>7 DEF FrameType

\* Moving the cursor past the frame under it keeps the layout.
LEMMA SkipKeeps ==
    ASSUME ChannelInv, phase = "loop", HasHeader, HasFrame, Skip,
           UNCHANGED <<sealerVars, emitted, wireVars, bufLen, drained, failed>>
    PROVE  WireInv' /\ pos' \in 0..bufLen' /\ drained' \in 0..cur' /\ cur' \in 0..Len(wire')
<1> USE Bounds DEF ChannelInv
<1>1. PICK off \in [0..Len(wire) -> Nat] : Layout(off) /\ Stands(off)
  BY DEF WireInv
<1>2. cur + 1 \in 1..Len(wire) /\ Frame.len \in Nat
  BY FrameThere
<1>3. /\ drained \in Nat /\ cur \in Nat /\ bufLen \in Nat /\ unread \in Nat
      /\ pos \in Nat /\ drained <= cur
  BY DEF ChannelTypeOK
<1>4. UNCHANGED <<wire, unread, sealerVars, emitted, bufLen, drained, failed>>
  BY DEF wireVars
<1>5. pos' = pos + HeaderLen + Frame.len /\ cur' = cur + 1
  BY DEF Skip
<1>6. off[cur + 1] = off[cur] + HeaderLen + Frame.len
  BY <1>1, <1>2, <1>3 DEF Layout, Frame
<1>7. Stands(off)'
  <2>1. drained \in 0..Len(wire) /\ cur \in 0..Len(wire)
    BY <1>2, <1>3
  <2>2. off[drained] \in Nat /\ off[cur] \in Nat
    BY <2>1
  <2>3. ASSUME ~failed PROVE off[drained] + pos' = off[cur']
    <3>1. off[drained] + pos = off[cur]
      BY <1>1, <2>3 DEF Stands
    <3>2. off[cur'] = off[cur] + HeaderLen + Frame.len
      BY <1>5, <1>6
    <3>3. /\ off[drained] \in Nat /\ pos \in Nat /\ HeaderLen \in Nat
          /\ Frame.len \in Nat
      BY <1>2, <1>3, <2>2
    <3> HIDE DEF ChannelInv
    <3>4. off[drained] + (pos + HeaderLen + Frame.len)
              = (off[drained] + pos) + HeaderLen + Frame.len
      BY <3>3
    <3>5. QED
      BY <1>5, <3>1, <3>2, <3>4
  <2>4. ~failed => off[drained] + bufLen + unread = off[Len(wire)]
    BY <1>1 DEF Stands
  <2>5. QED
    BY <1>4, <2>3, <2>4 DEF Stands
<1>8. pos' \in 0..bufLen'
  <2>1. bufLen - pos >= HeaderLen + Frame.len
    BY DEF HasFrame, Remaining
  <2>2. QED
    BY <2>1, <1>2, <1>3, <1>5
<1>9. WireInv'
  BY <1>1, <1>4, <1>7, LoopKeeps DEF WireInv
<1>10. QED
  BY <1>2, <1>3, <1>4, <1>5, <1>8, <1>9

\* An error in the loop poisons the decoder.
LEMMA LoopErrInv ==
    ASSUME ChannelInv, LoopTooLong \/ LoopReject, UNCHANGED <<sealerVars, emitted>>
    PROVE  ChannelInv'
<1> USE Bounds DEF ChannelInv
<1>1. /\ failed' = TRUE /\ phase' = "err"
      /\ UNCHANGED <<wire, unread, sealerVars, emitted, bufLen, pos, drained, cur, openSeq, out>>
  BY DEF LoopTooLong, LoopReject, wireVars
<1>2. ChannelTypeOK'
  BY <1>1 DEF ChannelTypeOK, sealerVars, Seqs, Poisoned
<1>3. SealerInv' /\ WireInv'
  BY <1>1, LoopKeeps DEF WireInv, Stands
<1>4. PhaseInv'
  BY <1>1 DEF PhaseInv
<1>5. OutputInv'
  BY <1>1 DEF OutputInv, Running, sealerVars
<1>6. QED
  BY <1>2, <1>3, <1>4, <1>5

\* An empty frame moves the cursor and nothing else.
LEMMA LoopEmptyInv ==
    ASSUME ChannelInv, LoopEmpty, UNCHANGED <<sealerVars, emitted>>
    PROVE  ChannelInv'
<1> USE Bounds DEF ChannelInv
<1>1. /\ phase = "loop" /\ HasHeader /\ HasFrame /\ Skip
      /\ UNCHANGED <<wireVars, phase, bufLen, drained, openSeq, failed, out, sealerVars, emitted>>
  BY DEF LoopEmpty
<1>2. UNCHANGED <<wire, unread>>
  BY <1>1 DEF wireVars
<1>3. WireInv' /\ pos' \in 0..bufLen' /\ drained' \in 0..cur' /\ cur' \in 0..Len(wire')
  BY <1>1, SkipKeeps
<1>4. ChannelTypeOK'
  BY <1>1, <1>2, <1>3 DEF ChannelTypeOK, sealerVars, Seqs, Poisoned
<1>5. SealerInv'
  BY <1>1, <1>2, LoopKeeps
<1>6. PhaseInv' /\ OutputInv'
  BY <1>1 DEF PhaseInv, OutputInv, Running, sealerVars
<1>7. QED
  BY <1>3, <1>4, <1>5, <1>6

\* A frame that opens is the next one the enclave sealed.
LEMMA OpensNext ==
    ASSUME ChannelInv, phase = "loop", HasHeader, Opens
    PROVE  /\ openSeq + 1 \in Seqs
           /\ openSeq + 1 \in 1..Len(sealed)
           /\ Frame = sealed[openSeq + 1]
           /\ Frame.payload \in Nat
<1> USE Bounds DEF ChannelInv
<1>1. openSeq \in Seqs /\ openSeq \in Nat /\ openSeq # Poisoned
  BY DEF ChannelTypeOK, Seqs
<1>2. Frame.seq = openSeq /\ openSeq + 1 \in Seqs
  BY <1>1 DEF Opens, CheckedAdd, Seqs
<1>3. Frame \in SealedFrames \cup Foreign /\ Frame \in FrameType
  BY FrameThere
<1>4. Frame \in SealedFrames
  BY <1>1, <1>2, <1>3 DEF Foreign, Empty
<1>5. sealed \in Seq(FrameType) /\ \A i \in 1..Len(sealed) : sealed[i].seq = i - 1
  BY DEF SealerInv
<1>6. PICK i \in 1..Len(sealed) : Frame = sealed[i]
  BY <1>4, <1>5 DEF SealedFrames
<1>7. i = openSeq + 1
  BY <1>1, <1>2, <1>5, <1>6
<1>8. QED
  BY <1>2, <1>3, <1>6, <1>7 DEF FrameType

\* A decrypted frame is appended to this push's output.
LEMMA LoopOpenInv ==
    ASSUME ChannelInv, LoopOpen, UNCHANGED <<sealerVars, emitted>>
    PROVE  ChannelInv'
<1> USE Bounds DEF ChannelInv
<1>1. /\ phase = "loop" /\ HasHeader /\ HasFrame /\ Opens /\ Skip
      /\ out' = Append(out, Frame.payload) /\ openSeq' = openSeq + 1
      /\ UNCHANGED <<wireVars, phase, bufLen, drained, failed, sealerVars, emitted>>
  BY DEF LoopOpen
<1>2. UNCHANGED <<wire, unread, sealed>>
  BY <1>1 DEF wireVars, sealerVars
<1>3. WireInv' /\ pos' \in 0..bufLen' /\ drained' \in 0..cur' /\ cur' \in 0..Len(wire')
  BY <1>1, SkipKeeps
<1>4. /\ openSeq' \in Seqs /\ openSeq' \in 1..Len(sealed)
      /\ Frame = sealed[openSeq'] /\ Frame.payload \in Nat
  BY <1>1, OpensNext
<1>5. ChannelTypeOK'
  BY <1>1, <1>2, <1>3, <1>4 DEF ChannelTypeOK, sealerVars, Seqs, Poisoned
<1>6. SealerInv'
  BY <1>1, <1>2, LoopKeeps
<1>7. PhaseInv'
  BY <1>1 DEF PhaseInv
<1>8. OutputInv'
  <2>1. /\ out \in Seq(Nat) /\ emitted \in Seq(Nat)
        /\ Len(out) \in Nat /\ Len(emitted) \in Nat
        /\ openSeq = Len(emitted) + Len(out) /\ Len(sealed) \in Nat
    BY <1>1 DEF OutputInv, Running, SealerInv
  <2>2. out' \in Seq(Nat) /\ Len(out') = Len(out) + 1 /\ out'[Len(out) + 1] = Frame.payload
        /\ \A k \in 1..Len(out) : out'[k] = out[k]
    BY <1>1, <1>4, <2>1
  <2>3. ASSUME NEW k \in 1..Len(out') PROVE out'[k] = sealed[Len(emitted) + k].payload
    <3>1. CASE k \in 1..Len(out)
      BY <3>1, <2>2, <1>1 DEF OutputInv, Running
    <3>2. CASE k = Len(out) + 1
      <4>1. Len(emitted) + k = openSeq'
        BY <3>2, <2>1, <1>1
      <4>2. QED
        BY <3>2, <4>1, <2>2, <1>4
    <3>3. QED
      BY <3>1, <3>2, <2>1, <2>2
  <2>4. openSeq' = Len(emitted) + Len(out') /\ openSeq' <= Len(sealed)
    BY <1>1, <1>4, <2>1, <2>2
  <2>5. emitted' = emitted /\ sealed' = sealed /\ phase' = "loop"
    BY <1>1, <1>2
  <2>6. QED
    BY <2>1, <2>2, <2>3, <2>4, <2>5 DEF OutputInv, Running
<1>9. QED
  BY <1>3, <1>5, <1>6, <1>7, <1>8

\* Returning drains what was parsed; what is left is part of one frame.
LEMMA LoopBreakInv ==
    ASSUME ChannelInv, LoopBreak, UNCHANGED <<sealerVars, emitted>>
    PROVE  ChannelInv'
<1> USE Bounds DEF ChannelInv
<1>1. /\ phase = "loop" /\ phase' = "ok"
      /\ bufLen' = bufLen - pos /\ pos' = 0 /\ drained' = cur
      /\ UNCHANGED <<wire, unread, cur, openSeq, failed, out, sealerVars, emitted>>
  BY DEF LoopBreak, wireVars
<1>2. bufLen \in Nat /\ pos \in 0..bufLen /\ bufLen - pos \in Nat /\ unread \in Nat
      /\ drained \in Nat /\ cur \in Nat /\ drained <= cur
  BY DEF ChannelTypeOK
<1>3. ChannelTypeOK'
  BY <1>1, <1>2 DEF ChannelTypeOK, sealerVars, Seqs, Poisoned
<1>4. WireInv'
  <2>1. PICK off \in [0..Len(wire) -> Nat] : Layout(off) /\ Stands(off)
    BY DEF WireInv
  <2>2. drained \in 0..Len(wire) /\ cur \in 0..Len(wire) /\ Len(wire) \in Nat
    BY <1>2 DEF ChannelTypeOK, WireInv
  <2>3. off[drained] \in Nat /\ off[cur] \in Nat /\ off[Len(wire)] \in Nat
    BY <2>2
  <2>4. Stands(off)'
    <3> SUFFICES ASSUME ~failed
                 PROVE  /\ off[cur] + (bufLen - pos) + unread = off[Len(wire)]
                        /\ off[cur] + 0 = off[cur]
      BY <1>1 DEF Stands
    <3>1. off[drained] + bufLen + unread = off[Len(wire)] /\ off[drained] + pos = off[cur]
      BY <2>1 DEF Stands
    <3> DEFINE start == off[drained]
               here == off[cur]
    <3>2. start \in Nat /\ here \in Nat /\ bufLen \in Nat /\ unread \in Nat /\ pos \in Nat
      BY <1>2, <2>3
    <3>3. here = start + pos
      BY <3>1
    <3> HIDE DEF start, here, ChannelInv
    <3>4. here + (bufLen - pos) + unread = start + bufLen + unread /\ here + 0 = here
      BY <3>2, <3>3
    <3>5. QED
      BY <3>1, <3>4 DEF start, here
  <2>5. QED
    BY <1>1, <2>1, <2>4, LoopKeeps DEF WireInv
<1>5. bufLen' < HeaderLen + MaxFrameLen
  <2>1. CASE ~HasHeader
    BY <2>1, <1>1, <1>2 DEF HasHeader, Remaining
  <2>2. CASE HasHeader
    <3>1. Frame.len \in Nat
      BY <1>1, <2>2, FrameThere
    <3>2. ~TooLong /\ ~HasFrame
      BY <2>2 DEF LoopBreak
    <3>3. QED
      BY <3>1, <3>2, <1>1, <1>2 DEF TooLong, HasFrame, Remaining
  <2>3. QED
    BY <2>1, <2>2
<1>6. PhaseInv'
  BY <1>1, <1>5 DEF PhaseInv
<1>7. OutputInv'
  BY <1>1 DEF OutputInv, Running, sealerVars
<1>8. QED
  BY <1>1, <1>3, <1>4, <1>6, <1>7, LoopKeeps

\* What a push returns is appended to what the caller holds.
LEMMA ReturnInv == ASSUME ChannelInv, Return PROVE ChannelInv'
<1> USE Bounds DEF ChannelInv
<1>1. /\ phase \in {"ok", "err"} /\ phase' = "idle"
      /\ emitted' = IF phase = "ok" THEN emitted \o out ELSE emitted
      /\ UNCHANGED <<sealerVars, wire, unread, bufLen, pos, drained, cur, openSeq, failed, out>>
  BY DEF Return, wireVars
<1>2. ChannelTypeOK'
  BY <1>1 DEF ChannelTypeOK, sealerVars, Seqs, Poisoned
<1>3. SealerInv'
  BY <1>1 DEF SealerInv, sealerVars
<1>4. WireInv'
  BY <1>1 DEF WireInv, Stands, Layout, SealedFrames, Foreign, Empty, sealerVars
<1>5. PhaseInv'
  BY <1>1 DEF PhaseInv
<1>6. OutputInv'
  <2>1. /\ out \in Seq(Nat) /\ emitted \in Seq(Nat)
        /\ Len(out) \in Nat /\ Len(emitted) \in Nat /\ sealed' = sealed
    BY <1>1 DEF OutputInv, sealerVars
  <2>2. CASE phase = "ok"
    <3>1. emitted' = emitted \o out
      BY <1>1, <2>2
    <3>2. /\ emitted' \in Seq(Nat) /\ Len(emitted') = Len(emitted) + Len(out)
          /\ \A i \in 1..Len(emitted') :
                emitted'[i] = IF i <= Len(emitted) THEN emitted[i] ELSE out[i - Len(emitted)]
      BY <3>1, <2>1, ConcatProperties
    <3>3. /\ openSeq = Len(emitted) + Len(out) /\ openSeq <= Len(sealed)
          /\ \A k \in 1..Len(out) : out[k] = sealed[Len(emitted) + k].payload
          /\ \A i \in 1..Len(emitted) : emitted[i] = sealed[i].payload
      BY <2>2 DEF OutputInv, Running
    <3> HIDE DEF ChannelInv
    <3>4. ASSUME NEW i \in 1..Len(emitted') PROVE emitted'[i] = sealed[i].payload
      <4>1. CASE i <= Len(emitted)
        <5>1. i \in 1..Len(emitted)
          BY <4>1, <2>1, <3>2
        <5>2. emitted'[i] = emitted[i]
          BY <4>1, <3>2
        <5>3. QED
          BY <5>1, <5>2, <3>3
      <4>2. CASE i > Len(emitted)
        <5>1. i - Len(emitted) \in 1..Len(out) /\ Len(emitted) + (i - Len(emitted)) = i
          BY <4>2, <2>1, <3>2
        <5>2. out[i - Len(emitted)] = sealed[Len(emitted) + (i - Len(emitted))].payload
          BY <5>1, <3>3
        <5>3. QED
          BY <5>1, <5>2, <4>2, <2>1, <3>2
      <4>3. QED
        BY <4>1, <4>2, <2>1, <3>2
    <3>5. QED
      BY <1>1, <2>1, <3>2, <3>3, <3>4 DEF OutputInv, Running
  <2>3. CASE phase = "err"
    BY <1>1, <2>1, <2>3 DEF OutputInv, Running, PhaseInv
  <2>4. QED
    BY <1>1, <2>2, <2>3
<1>7. QED
  BY <1>2, <1>3, <1>4, <1>5, <1>6

-----------------------------------------------------------------------------
\* A step that changes nothing keeps the invariant.
LEMMA StutterInv == ASSUME ChannelInv, UNCHANGED channelVars PROVE ChannelInv'
<1>1. /\ UNCHANGED <<sealSeq, writes, nonces, sealed, wire, unread, phase, bufLen, pos>>
      /\ UNCHANGED <<drained, cur, openSeq, failed, out, emitted>>
  BY DEF channelVars, sealerVars, wireVars, decoderVars
<1>2. ChannelTypeOK'
  BY <1>1 DEF ChannelInv, ChannelTypeOK, Seqs, Poisoned
<1>3. SealerInv' /\ PhaseInv' /\ OutputInv'
  BY <1>1 DEF ChannelInv, SealerInv, PhaseInv, OutputInv, Running
<1>4. WireInv'
  BY <1>1 DEF ChannelInv, WireInv, Stands, Layout, SealedFrames, Foreign, Empty
<1>5. QED
  BY <1>2, <1>3, <1>4 DEF ChannelInv

\* Every step keeps the invariant.
LEMMA StepInv == ChannelInv /\ [ChannelNext]_channelVars => ChannelInv'
<1> SUFFICES ASSUME ChannelInv, [ChannelNext]_channelVars PROVE ChannelInv'
  OBVIOUS
<1>1. CASE Seal
  BY <1>1, SealInv
<1>2. CASE Carry
  BY <1>2, CarryInv
<1>3. CASE Push
  BY <1>3, PushInv
<1>4. CASE Decode
  BY <1>4, LoopErrInv, LoopEmptyInv, LoopOpenInv, LoopBreakInv DEF Decode, Loop
<1>5. CASE Return
  BY <1>5, ReturnInv
<1>6. CASE Exhausted \/ UNCHANGED channelVars
  BY <1>6, StutterInv DEF Exhausted
<1>7. QED
  BY <1>1, <1>2, <1>3, <1>4, <1>5, <1>6 DEF ChannelNext

\* The channel never leaves the invariant (all of the safety below rests on it).
THEOREM ChannelInvariance == ChannelSpec => []ChannelInv
BY InitInv, StepInv, PTL DEF ChannelSpec

\* stream.rs, open.rs: the cursor stays inside buf and both sequence numbers
\* inside their range, whatever the frames declare.
THEOREM ChannelTypeCorrect == ChannelSpec => []ChannelTypeOK
<1>1. ChannelInv => ChannelTypeOK
  BY DEF ChannelInv
<1>2. QED
  BY <1>1, ChannelInvariance, PTL

\* open.rs:172-177: the sealer never encrypts twice under one nonce, whatever
\* fails and however often it is called.
THEOREM NoncesUnique == ChannelSpec => []NonceNeverReused
<1>1. ChannelInv => NonceNeverReused
  <2> SUFFICES ASSUME ChannelInv, NEW i \in DOMAIN nonces, NEW j \in DOMAIN nonces,
                      nonces[i] = nonces[j]
               PROVE  i = j
    BY DEF NonceNeverReused
  <2>1. i \in 1..Len(nonces) /\ j \in 1..Len(nonces) /\ Len(nonces) \in Nat
    BY DEF ChannelInv, SealerInv
  <2>2. nonces[i] = i - 1 /\ nonces[j] = j - 1
    BY <2>1 DEF ChannelInv, SealerInv
  <2>3. i - 1 = j - 1
    BY <2>2
  <2>4. i \in Int /\ j \in Int
    BY <2>1
  <2>5. QED
    BY <2>3, <2>4
<1>2. QED
  BY <1>1, ChannelInvariance, PTL

\* stream.rs:17-18, open.rs:103-104: what the decoder's pushes returned is a
\* prefix of what the enclave sealed, whatever the transport does.
THEOREM EnclaveOutputOnly == ChannelSpec => []OnlyEnclaveOutput
<1>1. ChannelInv => OnlyEnclaveOutput
  <2> SUFFICES ASSUME ChannelInv PROVE OnlyEnclaveOutput
    OBVIOUS
  <2>1. DOMAIN emitted = 1..Len(emitted)
    BY DEF ChannelInv, OutputInv
  <2>2. QED
    BY <2>1 DEF ChannelInv, OutputInv, OnlyEnclaveOutput
<1>2. QED
  BY <1>1, ChannelInvariance, PTL

\* stream.rs:4-12: a healthy decoder holds less than one frame of the largest
\* size between two pushes.
THEOREM BufferIsBounded == ChannelSpec => []BufferBounded
<1>1. ChannelInv => BufferBounded
  BY DEF ChannelInv, PhaseInv, BufferBounded
<1>2. QED
  BY <1>1, ChannelInvariance, PTL

\* stream.rs:20-34: a decoder that has failed once never parses again.
THEOREM FailureIsFinal == ChannelSpec => PoisonedForever
<1>1. ChannelInv => (phase = "err" => failed) /\ (failed => phase # "loop")
  BY DEF ChannelInv, PhaseInv
<1>2. failed /\ [ChannelNext]_channelVars => failed'
  <2> SUFFICES ASSUME failed, [ChannelNext]_channelVars PROVE failed'
    OBVIOUS
  <2> USE DEF channelVars, decoderVars
  <2>1. ASSUME Seal \/ Carry \/ Return \/ Exhausted \/ UNCHANGED channelVars PROVE failed'
    BY <2>1 DEF Seal, Carry, Return, Exhausted
  <2>2. ASSUME Push PROVE failed'
    BY <2>2 DEF Push, PushBegin, PushPoisoned
  <2>3. ASSUME Decode PROVE failed'
    BY <2>3 DEF Decode, Loop, LoopTooLong, LoopEmpty, LoopOpen, LoopReject, LoopBreak
  <2>4. QED
    BY <2>1, <2>2, <2>3 DEF ChannelNext
<1>3. QED
  BY <1>1, <1>2, ChannelInvariance, PTL DEF ChannelSpec, PoisonedForever

-----------------------------------------------------------------------------
(* An honest stream is never refused. *)

\* The opener has opened as many frames as it passed that are not empty; it failed
\* at the frame under the cursor, for a cause that what is still to come cannot cure.
AlarmInv ==
    /\ phase \in {"idle", "ok"} /\ ~failed => drained = cur
    /\ openSeq = DataFrames(wire, cur)
    /\ failed => /\ cur + 1 \in 1..Len(wire)
                 /\ \/ Frame.len > MaxFrameLen
                    \/ openSeq = SeqMax
                    \/ Frame.len > 0 /\ Frame.seq # openSeq

LEMMA CountNext ==
    ASSUME NEW w, NEW n \in Nat
    PROVE  /\ DataFrames(w, n) \in Nat
           /\ DataFrames(w, n + 1) = IF w[n + 1].len > 0 THEN DataFrames(w, n) + 1
                                     ELSE DataFrames(w, n)
<1> DEFINE S == {i \in 1..n : w[i].len > 0}
<1> DEFINE T == {i \in 1..(n + 1) : w[i].len > 0}
<1>1. IsFiniteSet(S)
  <2>1. 1 \in Int /\ n \in Int
    OBVIOUS
  <2>2. IsFiniteSet(1..n)
    BY <2>1, FS_Interval
  <2>3. S \in SUBSET (1..n)
    OBVIOUS
  <2> HIDE DEF S
  <2>4. QED
    BY <2>2, <2>3, FS_Subset
<1>2. n + 1 \notin S /\ (w[n + 1].len > 0 => T = S \cup {n + 1})
      /\ (~(w[n + 1].len > 0) => T = S)
  OBVIOUS
<1>3. Cardinality(S) \in Nat /\ Cardinality(S \cup {n + 1}) = Cardinality(S) + 1
  <2> HIDE DEF S
  <2>1. QED
    BY <1>1, <1>2, FS_CardinalityType, FS_AddElement
<1>4. QED
  BY <1>2, <1>3 DEF DataFrames

\* Only the frames counted matter.
LEMMA CountSame ==
    ASSUME NEW v, NEW w, NEW n \in Nat, \A i \in 1..n : v[i] = w[i]
    PROVE  DataFrames(v, n) = DataFrames(w, n)
<1>1. {i \in 1..n : v[i].len > 0} = {i \in 1..n : w[i].len > 0}
  OBVIOUS
<1>2. QED
  BY <1>1 DEF DataFrames

LEMMA AlarmInit == ChannelInit => AlarmInv
<1> SUFFICES ASSUME ChannelInit PROVE AlarmInv
  OBVIOUS
<1>1. {i \in 1..0 : wire[i].len > 0} = {}
  OBVIOUS
<1>2. DataFrames(wire, 0) = 0
  BY <1>1, FS_EmptySet DEF DataFrames
<1>3. QED
  BY <1>2 DEF ChannelInit, AlarmInv

\* Where the decoder stands does not depend on what is sealed or still to arrive.
LEMMA AlarmStays ==
    ASSUME ChannelInv, AlarmInv, UNCHANGED <<phase, failed, drained, cur, openSeq>>,
           Len(wire') \in Nat, Len(wire) <= Len(wire'), \A i \in 1..Len(wire) : wire'[i] = wire[i]
    PROVE  AlarmInv'
<1>1. cur \in Nat /\ cur <= Len(wire) /\ Len(wire) \in Nat
  BY DEF ChannelInv, ChannelTypeOK, WireInv
<1>2. DataFrames(wire', cur) = DataFrames(wire, cur)
  BY <1>1, CountSame
<1>3. cur + 1 \in 1..Len(wire) => wire'[cur + 1] = wire[cur + 1] /\ cur + 1 \in 1..Len(wire')
  BY <1>1
<1>4. DataFrames(wire, cur)' = DataFrames(wire', cur)
  BY DEF DataFrames
<1>5. QED
  BY <1>2, <1>3, <1>4 DEF AlarmInv, Frame

LEMMA AlarmDecode == ASSUME ChannelInv, AlarmInv, Loop PROVE AlarmInv'
<1> USE Bounds DEF ChannelInv
<1>1. phase = "loop" /\ UNCHANGED wire /\ ~failed /\ cur \in Nat
  BY DEF Loop, LoopTooLong, LoopEmpty, LoopOpen, LoopReject, LoopBreak, wireVars, PhaseInv,
     ChannelTypeOK
<1>2. CASE LoopTooLong \/ LoopReject
  <2>1. /\ HasHeader /\ phase' = "err" /\ failed' = TRUE /\ UNCHANGED <<cur, openSeq>>
        /\ TooLong \/ (Frame.len > 0 /\ ~Opens)
    BY <1>2 DEF LoopTooLong, LoopReject
  <2>2. cur + 1 \in 1..Len(wire)
    BY <1>1, <2>1, FrameThere
  <2>3. openSeq \in Seqs
    BY DEF ChannelTypeOK
  <2>4. ~Opens => Frame.seq # openSeq \/ openSeq = SeqMax
    BY <2>3 DEF Opens, CheckedAdd, Seqs, Poisoned
  <2>5. QED
    BY <1>1, <2>1, <2>2, <2>4 DEF AlarmInv, TooLong, Frame, DataFrames
<1>3. CASE LoopEmpty \/ LoopOpen
  <2>1. /\ HasHeader /\ cur' = cur + 1 /\ UNCHANGED <<phase, failed>>
        /\ IF Frame.len > 0 THEN openSeq' = openSeq + 1 ELSE openSeq' = openSeq
    BY <1>3 DEF LoopEmpty, LoopOpen, Skip
  <2>2. DataFrames(wire, cur + 1) = openSeq'
    BY <1>1, <2>1, CountNext DEF AlarmInv, Frame
  <2>3. DataFrames(wire, cur)' = DataFrames(wire, cur + 1)
    BY <1>1, <2>1 DEF DataFrames
  <2>4. QED
    BY <1>1, <2>1, <2>2, <2>3 DEF AlarmInv
<1>4. CASE LoopBreak
  BY <1>1, <1>4 DEF LoopBreak, AlarmInv, DataFrames, Frame
<1>5. QED
  BY <1>2, <1>3, <1>4 DEF Loop

LEMMA AlarmStep == ChannelInv /\ AlarmInv /\ [ChannelNext]_channelVars => AlarmInv'
<1> SUFFICES ASSUME ChannelInv, AlarmInv, [ChannelNext]_channelVars PROVE AlarmInv'
  OBVIOUS
<1>0. wire \in Seq(FrameType) /\ Len(wire) \in Nat
  BY DEF ChannelInv, WireInv
<1>1. CASE Seal \/ Exhausted \/ UNCHANGED channelVars
  <2>1. UNCHANGED <<phase, failed, drained, cur, openSeq, wire>>
    BY <1>1 DEF Seal, Exhausted, channelVars, wireVars, decoderVars
  <2>2. QED
    BY <1>0, <2>1, AlarmStays
<1>2. CASE Carry
  <2>1. PICK f \in SealedFrames \cup Foreign : wire' = Append(wire, f)
    BY <1>2 DEF Carry
  <2>2. f \in FrameType
    BY Carried DEF ChannelInv
  <2>3. Len(wire') = Len(wire) + 1 /\ \A i \in 1..Len(wire) : wire'[i] = wire[i]
    BY <1>0, <2>1, <2>2, AppendProperties
  <2>4. UNCHANGED <<phase, failed, drained, cur, openSeq>>
    BY <1>2 DEF Carry, decoderVars
  <2>5. QED
    BY <1>0, <2>3, <2>4, AlarmStays
<1>3. CASE Push
  <2>1. /\ phase = "idle" /\ UNCHANGED <<failed, drained, openSeq, wire>>
        /\ \/ ~failed /\ cur' = drained /\ phase' = "loop"
           \/ failed /\ cur' = cur /\ phase' = "err"
    BY <1>3 DEF Push, PushBegin, PushPoisoned
  <2>2. cur' = cur
    BY <2>1 DEF AlarmInv
  <2>3. QED
    BY <2>1, <2>2 DEF AlarmInv, DataFrames, Frame
<1>4. CASE Decode
  BY <1>4, AlarmDecode DEF Decode
<1>5. CASE Return
  BY <1>5 DEF Return, wireVars, AlarmInv, DataFrames, Frame, ChannelInv, PhaseInv
<1>6. QED
  BY <1>1, <1>2, <1>3, <1>4, <1>5 DEF ChannelNext

\* stream.rs:94-96, open.rs:122-123: an honest stream is never refused, for any cut, any
\* empty frames and any frame sizes, short of the cap and of the last sequence number.
THEOREM HonestIsNotRefused == ChannelSpec => []NoFalseAlarm
<1>1. ChannelInv /\ AlarmInv => NoFalseAlarm
  <2> SUFFICES ASSUME ChannelInv, AlarmInv, phase = "err", ~(Frame.len > MaxFrameLen),
                      openSeq # SeqMax, Faithful(SubSeq(wire, 1, cur + 1))
               PROVE  FALSE
    BY DEF NoFalseAlarm, Frame
  <2> DEFINE w == SubSeq(wire, 1, cur + 1)
  <2>1. /\ cur \in Nat /\ wire \in Seq(FrameType) /\ Len(wire) \in Nat
        /\ cur + 1 \in 1..Len(wire) /\ Frame.len > 0 /\ Frame.seq # openSeq
    BY DEF ChannelInv, ChannelTypeOK, WireInv, PhaseInv, AlarmInv
  <2>2. \A i \in 1..(cur + 1) : wire[i] \in FrameType
    BY <2>1, ElementOfSeq
  <2>3. w \in Seq(FrameType) /\ Len(w) = cur + 1 /\ \A i \in 1..(cur + 1) : w[i] = wire[i]
    BY <2>1, <2>2, SubSeqProperties
  <2>4. DataFrames(w, cur + 1) = openSeq + 1
    <3>1. DataFrames(w, cur + 1) = DataFrames(wire, cur + 1)
      <4>1. cur + 1 \in Nat
        BY <2>1
      <4> HIDE DEF w
      <4>2. QED
        BY <2>3, <4>1, CountSame
    <3>2. QED
      BY <2>1, <3>1, CountNext DEF AlarmInv, Frame
  <2>5. cur + 1 \in DOMAIN w /\ w[cur + 1] = Frame
    BY <2>1, <2>3 DEF Frame
  <2>6. openSeq + 1 <= Len(sealed) /\ Frame = sealed[openSeq + 1]
    BY <2>1, <2>4, <2>5 DEF Faithful
  <2>7. openSeq \in Nat /\ Len(sealed) \in Nat /\ \A i \in 1..Len(sealed) : sealed[i].seq = i - 1
    BY DEF ChannelInv, ChannelTypeOK, SealerInv, Seqs
  <2>8. QED
    BY <2>1, <2>6, <2>7
<1>2. QED
  BY <1>1, AlarmInit, AlarmStep, ChannelInvariance, PTL DEF ChannelSpec

-----------------------------------------------------------------------------
(* push comes to an end. *)

\* A turn of the loop that is not the last parses at least a header of what is buffered.
ParsesOn == phase = "loop" /\ phase' = "loop" =>
                bufLen' = bufLen /\ pos' \in (pos + HeaderLen)..bufLen

\* stream.rs:76-107: whatever lengths the frames declare, zero included, a turn of push's
\* loop parses a header's bytes at least or is the last, so that push comes to an end.
THEOREM PushComesToAnEnd == ChannelSpec => [][ParsesOn]_decoderVars
<1>1. ChannelInv /\ [ChannelNext]_channelVars => [ParsesOn]_decoderVars
  <2> SUFFICES ASSUME ChannelInv, ChannelNext, phase = "loop", phase' = "loop",
                      ~UNCHANGED decoderVars
               PROVE  ParsesOn
    BY DEF channelVars, ParsesOn
  <2>1. LoopEmpty \/ LoopOpen
    BY DEF ChannelNext, Seal, Carry, Push, PushBegin, PushPoisoned, Decode, Loop, LoopTooLong,
       LoopReject, LoopBreak, Return, Exhausted, channelVars
  <2>2. /\ HasHeader /\ HasFrame /\ pos' = pos + HeaderLen + Frame.len /\ bufLen' = bufLen
    BY <2>1 DEF LoopEmpty, LoopOpen, Skip
  <2>3. bufLen \in Nat /\ pos \in 0..bufLen /\ Frame.len \in Nat /\ HeaderLen \in Nat
    BY <2>2, FrameThere, Bounds DEF ChannelInv, ChannelTypeOK
  <2>4. QED
    BY <2>2, <2>3 DEF ParsesOn, HasFrame, Remaining
<1>2. QED
  BY <1>1, ChannelInvariance, PTL DEF ChannelSpec

=============================================================================
