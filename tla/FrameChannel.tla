---------------------------- MODULE FrameChannel ----------------------------
(* One sealed response body: the enclave's sealer, a transport that may lose, *)
(* reorder, repeat, corrupt or invent frames and cut them anywhere, and the   *)
(* client's FrameDecoder (ehbp/stream.rs) over its FrameOpener (ehbp/open.rs).*)
(* Any byte string is a sequence of length-prefixed frames followed by a part *)
(* of one, so the wire is a sequence of frames read byte by byte.  A step is  *)
(* a call of `push`, one turn of its loop, or its return.                     *)
EXTENDS FrameSealer, FiniteSets

CONSTANTS
    HeaderLen,    \* bytes in the length prefix
    MaxWire       \* bound: how many frames the transport carries

ASSUME ChannelAssumption == HeaderLen \in Nat \ {0} /\ MaxWire \in Nat

VARIABLES
    wire,       \* the frames the transport carries, in order of arrival
    unread,     \* how many bytes of them the client has not read yet
    phase,      \* where `push` is: not running, looping, or how it returned
    bufLen,     \* buf.len()
    pos,        \* the cursor into buf
    drained,    \* how many frames of the wire precede buf
    cur,        \* how many frames of the wire precede the cursor
    openSeq,    \* FrameOpener::seq
    failed,     \* FrameDecoder::failed
    out,        \* the writes decrypted by the running push
    emitted     \* the writes returned by every push so far

wireVars    == <<wire, unread>>
decoderVars == <<phase, bufLen, pos, drained, cur, openSeq, failed, out>>
channelVars == <<sealerVars, wireVars, decoderVars, emitted>>

\* Frames the enclave did not seal: an empty application write, a corrupted
\* frame and a length prefix above the cap.
Empty    == [len |-> 0, seq |-> Poisoned, payload |-> 0]
Foreign  == {Empty} \cup
            {[len |-> n, seq |-> Poisoned, payload |-> 0] : n \in {1, MaxFrameLen + 1}}
SealedFrames == {sealed[i] : i \in DOMAIN sealed}

Carry ==
    /\ Len(wire) < MaxWire
    /\ \E f \in SealedFrames \cup Foreign :
          /\ wire' = Append(wire, f)
          /\ unread' = unread + HeaderLen + f.len
    /\ UNCHANGED <<sealerVars, decoderVars, emitted>>

(* ------------------------------ push -------------------------------------- *)
Remaining == bufLen - pos
Frame     == wire[cur + 1]     \* the frame under the cursor

\* push(chunk) on a healthy decoder: append, and start at the front of buf.
PushBegin(n) ==
    /\ phase = "idle" /\ ~failed
    /\ n \in 1..unread
    /\ unread' = unread - n
    /\ bufLen' = bufLen + n
    /\ pos' = 0 /\ cur' = drained /\ out' = <<>>
    /\ phase' = "loop"
    /\ UNCHANGED <<wire, drained, openSeq, failed>>

\* push(chunk) on a poisoned decoder: an error at once.
PushPoisoned(n) ==
    /\ phase = "idle" /\ failed
    /\ n \in 1..unread
    /\ unread' = unread - n
    /\ phase' = "err"
    /\ UNCHANGED <<wire, bufLen, pos, drained, cur, openSeq, failed, out>>

HasHeader == Remaining >= HeaderLen
HasFrame  == Remaining >= HeaderLen + Frame.len
\* Bug: the length is not checked until the whole frame is there.
TooLongLate == HasFrame /\ Frame.len > MaxFrameLen
TooLong     == Frame.len > MaxFrameLen

\* Bug: a frame is accepted under any number its sealer used.
OpensAnyFrame == Frame.seq # Poisoned /\ CheckedAdd(openSeq) # Poisoned

\* open_frame authenticates a frame under the current number only, and then
\* needs a next number.
Opens == Frame.seq = openSeq /\ CheckedAdd(openSeq) # Poisoned

Skip == pos' = pos + HeaderLen + Frame.len /\ cur' = cur + 1

\* A declared length above the cap poisons the decoder at the header.
LoopTooLong ==
    /\ phase = "loop" /\ HasHeader /\ TooLong
    /\ failed' = TRUE
    /\ phase' = "err"
    /\ UNCHANGED <<wireVars, bufLen, pos, drained, cur, openSeq, out>>

\* Bug: an empty frame advances the AEAD sequence.
LoopEmptyCounts ==
    /\ phase = "loop" /\ HasHeader /\ ~TooLong /\ HasFrame
    /\ Frame.len = 0
    /\ Skip
    /\ openSeq' = CheckedAdd(openSeq)
    /\ UNCHANGED <<wireVars, phase, bufLen, drained, failed, out>>

\* An empty frame is skipped and does not advance the AEAD sequence.
LoopEmpty ==
    /\ phase = "loop" /\ HasHeader /\ ~TooLong /\ HasFrame
    /\ Frame.len = 0
    /\ Skip
    /\ UNCHANGED <<wireVars, phase, bufLen, drained, openSeq, failed, out>>

LoopOpen ==
    /\ phase = "loop" /\ HasHeader /\ ~TooLong /\ HasFrame
    /\ Frame.len > 0 /\ Opens
    /\ out' = Append(out, Frame.payload)
    /\ openSeq' = openSeq + 1
    /\ Skip
    /\ UNCHANGED <<wireVars, phase, bufLen, drained, failed>>

\* Bug: a rejected frame is reported but does not poison the decoder.
LoopRejectOnly ==
    /\ phase = "loop" /\ HasHeader /\ ~TooLong /\ HasFrame
    /\ Frame.len > 0 /\ ~Opens
    /\ phase' = "err"
    /\ UNCHANGED <<wireVars, bufLen, pos, drained, cur, openSeq, failed, out>>

\* A frame that does not authenticate, or the last sequence number, poisons the
\* decoder; what this push had decrypted is dropped, what it parsed is not.
LoopReject ==
    /\ phase = "loop" /\ HasHeader /\ ~TooLong /\ HasFrame
    /\ Frame.len > 0 /\ ~Opens
    /\ failed' = TRUE
    /\ phase' = "err"
    /\ UNCHANGED <<wireVars, bufLen, pos, drained, cur, openSeq, out>>

\* Bug: the parsed bytes are drained and the cursor is left where it was.
LoopBreakKeepsPos ==
    /\ phase = "loop"
    /\ HasHeader => ~TooLong /\ ~HasFrame
    /\ bufLen' = bufLen - pos /\ pos' = pos /\ drained' = cur
    /\ phase' = "ok"
    /\ UNCHANGED <<wireVars, cur, openSeq, failed, out>>

\* The frame under the cursor is not complete: drain what was parsed, return it.
LoopBreak ==
    /\ phase = "loop"
    /\ HasHeader => ~TooLong /\ ~HasFrame
    /\ bufLen' = bufLen - pos /\ pos' = 0 /\ drained' = cur
    /\ phase' = "ok"
    /\ UNCHANGED <<wireVars, cur, openSeq, failed, out>>

Loop == LoopTooLong \/ LoopEmpty \/ LoopOpen \/ LoopReject \/ LoopBreak

\* finish(): Ok only for a healthy decoder with nothing buffered.
FinishOk == ~failed /\ bufLen = 0

(* --------------------- a caller that keeps pushing ------------------------ *)
Push ==
    /\ \E n \in 1..unread : PushBegin(n) \/ PushPoisoned(n)
    /\ UNCHANGED <<sealerVars, emitted>>

Decode == Loop /\ UNCHANGED <<sealerVars, emitted>>

\* push returns: its plaintext is used if it is Ok, and the caller goes on
\* even if it is an error.
Return ==
    /\ phase \in {"ok", "err"}
    /\ phase' = "idle"
    /\ emitted' = IF phase = "ok" THEN emitted \o out ELSE emitted
    /\ UNCHANGED <<sealerVars, wireVars, bufLen, pos, drained, cur, openSeq, failed, out>>

Seal == SealerNext /\ UNCHANGED <<wireVars, decoderVars, emitted>>

ChannelInit ==
    /\ SealerInit
    /\ wire = <<>> /\ unread = 0
    /\ phase = "idle" /\ bufLen = 0 /\ pos = 0 /\ drained = 0 /\ cur = 0
    /\ openSeq = 0 /\ failed = FALSE /\ out = <<>> /\ emitted = <<>>

Exhausted ==
    /\ writes = MaxWrites /\ Len(wire) = MaxWire /\ unread = 0 /\ phase = "idle"
    /\ UNCHANGED channelVars

ChannelNext == Seal \/ Carry \/ Push \/ Decode \/ Return \/ Exhausted

ChannelSpec == ChannelInit /\ [][ChannelNext]_channelVars

(* ------------------------------ properties -------------------------------- *)
ChannelTypeOK ==
    /\ sealSeq \in Seqs \cup {Poisoned} /\ openSeq \in Seqs
    /\ phase \in {"idle", "loop", "ok", "err"} /\ failed \in BOOLEAN
    /\ bufLen \in Nat /\ unread \in Nat /\ pos \in 0..bufLen
    /\ drained \in 0..cur /\ cur \in 0..Len(wire)

\* stream.rs:17-18, open.rs:103-104: whatever the transport did, the caller
\* holds a prefix of what the enclave wrote: nothing forged, nothing twice,
\* nothing missing in between, nothing out of order.
OnlyEnclaveOutput ==
    /\ Len(emitted) <= Len(sealed)
    /\ \A i \in DOMAIN emitted : emitted[i] = sealed[i].payload

\* How many of the first n frames of w are not empty.
DataFrames(w, n) == Cardinality({i \in 1..n : w[i].len > 0})

\* The non-empty frames of w are the enclave's first ones, in its order.
Faithful(w) ==
    \A i \in DOMAIN w : w[i].len > 0 =>
        DataFrames(w, i) <= Len(sealed) /\ w[i] = sealed[DataFrames(w, i)]

\* stream.rs:94-96, open.rs:122-123: an honest stream is never refused, however
\* it is cut and whatever empty frames it carries, unless a frame is above the
\* cap or the last sequence number is reached.
NoFalseAlarm ==
    phase = "err" =>
        \/ ~Faithful(SubSeq(wire, 1, cur + 1))
        \/ wire[cur + 1].len > MaxFrameLen
        \/ openSeq = SeqMax

\* stream.rs:4-12: between pushes a healthy decoder buffers less than one frame
\* of the largest size, whatever lengths the transport declares.
BufferBounded == phase = "idle" /\ ~failed => bufLen < HeaderLen + MaxFrameLen

\* stream.rs:20-34: after an error no push parses the buffer again.
PoisonedForever == [](phase = "err" => [](phase # "loop"))

=============================================================================
