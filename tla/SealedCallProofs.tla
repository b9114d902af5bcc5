-------------------------- MODULE SealedCallProofs --------------------------
(* Safety of one sealed call for any sequence space, any frame sizes and any  *)
(* transport: from the invariant of the channel below it, and as a refinement *)
(* of the contract ChatCall.                                                  *)
EXTENDS FrameChannelProofs, SealedCallRefinement

CallErrors == {"Http", "Ehbp", "Attestation", "InvalidModelId", "UnauthenticatedUpstream"}

\* Before a response head nothing has come of the call.
QuietInv ==
    stage \in {"prepare", "sent"} =>
        returned = Nothing /\ ending = Nothing /\ emitted = <<>> /\ ~success

\* While the body is read the call has returned if, and only if, it hands out a
\* stream, and nothing has ended.
BodyInv ==
    stage = "body" =>
        /\ returned = IF HandsOutStream THEN "Ok" ELSE Nothing
        /\ ending = Nothing

\* What the pushes returned is in one place only.
PlaceInv ==
    /\ items = IF HandsOutStream THEN emitted ELSE <<>>
    /\ body = IF HandsOutStream THEN <<>> ELSE emitted

CallInv ==
    /\ ChannelInv /\ QuietInv /\ BodyInv /\ PlaceInv
    /\ TypeOK /\ ErrorIsNoCompletion /\ NoPartialFrame

-----------------------------------------------------------------------------
\* Every step of the call is a step of its channel, or leaves it alone.
LEMMA ChannelStep == ASSUME [Next]_allVars PROVE [ChannelNext]_channelVars
<1>1. CASE Chunk
  BY <1>1 DEF Chunk, ChannelNext, Push
<1>2. CASE DecodeChunk \/ SealMore \/ CarryMore
  BY <1>2 DEF DecodeChunk, SealMore, CarryMore, ChannelNext
<1>3. CASE ChunkOk
  BY <1>3 DEF ChunkOk, ChannelNext, Return
<1>4. CASE UNCHANGED channelVars
  BY <1>4
<1>5. CASE Refuse \/ Send \/ HeadLost \/ HeadNoNonce \/ HeadBadNonce \/ HeadSealed
  BY <1>5 DEF Refuse, Send, HeadLost, HeadNoNonce, HeadBadNonce, HeadSealed
<1>6. CASE ChunkErr \/ BodyLost \/ Eof \/ Finished \/ UNCHANGED allVars
  BY <1>6 DEF ChunkErr, BodyLost, Eof, Finished, allVars
<1>7. QED
  BY <1>1, <1>2, <1>3, <1>5, <1>6 DEF Next, Client

LEMMA ChannelKept == ASSUME CallInv, [Next]_allVars PROVE ChannelInv'
BY ChannelStep, StepInv DEF CallInv

LEMMA CallInitInv == Init => CallInv
<1> SUFFICES ASSUME Init PROVE CallInv
  OBVIOUS
<1>1. ChannelInv
  BY InitInv DEF Init
<1>2. emitted = <<>>
  BY DEF Init, ChannelInit
<1>3. QuietInv /\ BodyInv /\ PlaceInv
  BY <1>2 DEF Init, QuietInv, BodyInv, PlaceInv, HandsOutStream
<1>4. TypeOK /\ ErrorIsNoCompletion /\ NoPartialFrame
  BY <1>1 DEF Init, ChannelInv, TypeOK, ErrorIsNoCompletion, NoPartialFrame, Nothing
<1>5. QED
  BY <1>1, <1>3, <1>4 DEF CallInv

-----------------------------------------------------------------------------
\* While the body is being read the call itself does not change.
LEMMA ReadingKeeps ==
    ASSUME CallInv, ChannelInv', stage = "body", UNCHANGED callVars, UNCHANGED emitted
    PROVE  CallInv'
<1>1. UNCHANGED <<stage, streaming, success, returned, body, items, ending, emitted>>
  BY DEF callVars
<1>2. returned # "Enclave" /\ returned # "Json" /\ ending # "end" /\ (returned = "Ok" => streaming)
  BY DEF CallInv, BodyInv, HandsOutStream, Nothing
<1>3. QuietInv' /\ BodyInv' /\ PlaceInv' /\ ErrorIsNoCompletion'
  BY <1>1 DEF CallInv, QuietInv, BodyInv, PlaceInv, HandsOutStream, ErrorIsNoCompletion
<1>4. TypeOK' /\ NoPartialFrame'
  BY <1>1, <1>2 DEF CallInv, ChannelInv, TypeOK, NoPartialFrame
<1>5. QED
  BY <1>3, <1>4 DEF CallInv

LEMMA ReadInv ==
    ASSUME CallInv, ChannelInv', Chunk \/ DecodeChunk \/ SealMore \/ CarryMore PROVE CallInv'
<1>1. stage = "body" /\ UNCHANGED callVars /\ UNCHANGED emitted
  BY DEF Chunk, Reading, DecodeChunk, Decode, SealMore, Seal, CarryMore, Carry
<1>2. QED
  BY <1>1, ReadingKeeps

\* A call that ends with an error before its response has a head.
LEMMA EarlyEndInv ==
    ASSUME CallInv, ChannelInv', stage \in {"prepare", "sent"}, UNCHANGED channelVars,
           NEW o \in CallErrors, CallReturns(o)
    PROVE  CallInv'
<1>1. /\ stage' = "done" /\ returned' = o /\ UNCHANGED <<streaming, success, body, items, ending>>
      /\ UNCHANGED <<emitted, bufLen, failed>>
  BY DEF CallReturns, channelVars, decoderVars
<1>2. ending' = Nothing /\ o \notin {"Ok", "Json", "Enclave"}
  BY <1>1 DEF CallInv, QuietInv, CallErrors
<1>3. QuietInv' /\ BodyInv' /\ PlaceInv' /\ ErrorIsNoCompletion' /\ NoPartialFrame'
  BY <1>1, <1>2 DEF CallInv, QuietInv, BodyInv, PlaceInv, HandsOutStream, ErrorIsNoCompletion,
     NoPartialFrame, Nothing
<1>4. TypeOK'
  BY <1>1 DEF CallInv, ChannelInv, TypeOK, CallErrors
<1>5. QED
  BY <1>3, <1>4 DEF CallInv

LEMMA HeadInv ==
    ASSUME CallInv, ChannelInv',
           Refuse \/ Send \/ HeadLost \/ HeadNoNonce \/ HeadBadNonce \/ HeadSealed
    PROVE  CallInv'
<1>1. ASSUME Refuse \/ HeadLost \/ HeadNoNonce \/ HeadBadNonce PROVE CallInv'
  <2>1. stage \in {"prepare", "sent"} /\ UNCHANGED channelVars
    BY <1>1 DEF Refuse, HeadLost, HeadNoNonce, HeadBadNonce
  <2>2. \E o \in CallErrors : CallReturns(o)
    BY <1>1 DEF Refuse, HeadLost, HeadNoNonce, HeadBadNonce, CallErrors
  <2>3. QED
    BY <2>1, <2>2, EarlyEndInv
<1>2. ASSUME Send PROVE CallInv'
  <2>1. /\ stage = "prepare" /\ stage' = "sent"
        /\ UNCHANGED <<streaming, success, returned, body, items, ending, emitted>>
        /\ UNCHANGED <<bufLen, failed>>
    BY <1>2 DEF Send, channelVars, decoderVars
  <2>2. QED
    BY <2>1 DEF CallInv, ChannelInv, QuietInv, BodyInv, PlaceInv, HandsOutStream, TypeOK,
       ErrorIsNoCompletion, NoPartialFrame
<1>3. ASSUME HeadSealed PROVE CallInv'
  <2>1. /\ stage = "sent" /\ stage' = "body" /\ success' \in BOOLEAN
        /\ returned' = IF HandsOutStream' THEN "Ok" ELSE Nothing
        /\ UNCHANGED <<streaming, body, items, ending, emitted>>
    BY <1>3 DEF HeadSealed, channelVars
  <2>2. emitted = <<>> /\ ending = Nothing /\ items = <<>> /\ body = <<>>
    BY <2>1 DEF CallInv, QuietInv, PlaceInv
  <2>3. QuietInv' /\ BodyInv' /\ PlaceInv'
    BY <2>1, <2>2 DEF QuietInv, BodyInv, PlaceInv
  <2>4. TypeOK' /\ ErrorIsNoCompletion' /\ NoPartialFrame'
    BY <2>1, <2>2 DEF CallInv, ChannelInv, TypeOK, ErrorIsNoCompletion, NoPartialFrame, Nothing,
       HandsOutStream
  <2>5. QED
    BY <2>3, <2>4 DEF CallInv
<1>4. QED
  BY <1>1, <1>2, <1>3

\* A push returned plaintext, which goes where the call puts it.
LEMMA ChunkOkInv == ASSUME CallInv, ChannelInv', ChunkOk PROVE CallInv'
<1>1. /\ stage = "body" /\ emitted' = emitted \o out
      /\ UNCHANGED <<stage, streaming, success, returned, ending>>
      /\ IF HandsOutStream THEN items' = items \o out /\ UNCHANGED body
                           ELSE body' = body \o out /\ UNCHANGED items
  BY DEF ChunkOk
<1>2. returned \notin {"Enclave", "Json"} /\ ending # "end" /\ (returned = "Ok" => HandsOutStream)
  BY <1>1 DEF CallInv, BodyInv, Nothing
<1>3. QuietInv' /\ BodyInv' /\ PlaceInv'
  BY <1>1 DEF CallInv, QuietInv, BodyInv, PlaceInv, HandsOutStream
<1>4. ErrorIsNoCompletion' /\ NoPartialFrame'
  BY <1>1, <1>2, <1>3 DEF PlaceInv, HandsOutStream, ErrorIsNoCompletion, NoPartialFrame
<1>5. TypeOK'
  BY <1>1 DEF CallInv, ChannelInv, TypeOK
<1>6. QED
  BY <1>3, <1>4, <1>5 DEF CallInv

-----------------------------------------------------------------------------
\* The body ends: a stream that was handed out ends with o, or else the call
\* returns o.  What ends well has nothing buffered, and the right status.
LEMMA EndBodyInv ==
    ASSUME CallInv, ChannelInv', stage = "body", UNCHANGED channelVars,
           NEW o \in {"Http", "Ehbp", "end", "Ok", "Json", "Enclave"}, EndBody(o),
           HandsOutStream => o \in {"Http", "Ehbp", "end"},
           ~HandsOutStream => o # "end",
           o \in {"end", "Ok", "Json", "Enclave"} => FinishOk,
           o \in {"Ok", "Json"} => success /\ ~streaming,
           o = "Enclave" => ~success
    PROVE  CallInv'
<1>1. /\ stage' = "done" /\ UNCHANGED <<streaming, success, body, items, emitted, bufLen, failed>>
      /\ IF HandsOutStream THEN ending' = o /\ UNCHANGED returned
                           ELSE returned' = o /\ UNCHANGED ending
  BY DEF EndBody, CallReturns, channelVars, decoderVars
<1>2. /\ returned = IF HandsOutStream THEN "Ok" ELSE Nothing
      /\ ending = Nothing
  BY DEF CallInv, BodyInv
<1>3. QuietInv' /\ BodyInv' /\ PlaceInv'
  BY <1>1 DEF CallInv, QuietInv, BodyInv, PlaceInv, HandsOutStream
<1>4. ErrorIsNoCompletion'
  BY <1>1, <1>2, <1>3 DEF PlaceInv, HandsOutStream, ErrorIsNoCompletion
<1>5. NoPartialFrame'
  BY <1>1, <1>2 DEF NoPartialFrame, HandsOutStream, FinishOk, Nothing
<1>6. TypeOK'
  BY <1>1, <1>2 DEF CallInv, ChannelInv, TypeOK
<1>7. QED
  BY <1>3, <1>4, <1>5, <1>6 DEF CallInv

\* How the body may end.
Ending(o) ==
    /\ o \in {"Http", "Ehbp", "end", "Ok", "Json", "Enclave"} /\ EndBody(o)
    /\ HandsOutStream => o \in {"Http", "Ehbp", "end"}
    /\ ~HandsOutStream => o # "end"
    /\ o \in {"end", "Ok", "Json", "Enclave"} => FinishOk
    /\ o \in {"Ok", "Json"} => success /\ ~streaming
    /\ o = "Enclave" => ~success

LEMMA BodyEnds ==
    ASSUME CallInv, ChunkErr \/ BodyLost \/ Eof
    PROVE  stage = "body" /\ UNCHANGED channelVars /\ \E o : Ending(o)
<1>1. stage = "body" /\ UNCHANGED channelVars /\ success \in BOOLEAN /\ streaming \in BOOLEAN
  BY DEF ChunkErr, BodyLost, Eof, Reading, CallInv, TypeOK
<1>2. CASE EndBody("Ehbp")
  <2>1. Ending("Ehbp")
    BY <1>2 DEF Ending
  <2>2. QED
    BY <1>1, <2>1
<1>3. CASE EndBody("Http")
  <2>1. Ending("Http")
    BY <1>3 DEF Ending
  <2>2. QED
    BY <1>1, <2>1
<1>4. CASE Eof /\ ~EndBody("Ehbp")
  <2>1. FinishOk
    BY <1>4 DEF Eof
  <2>2. CASE success /\ ~streaming /\ (CallReturns("Ok") \/ CallReturns("Json"))
    <3>1. ~HandsOutStream
      BY <2>2 DEF HandsOutStream
    <3>2. Ending("Ok") \/ Ending("Json")
      BY <2>1, <2>2, <3>1 DEF Ending, EndBody
    <3>3. QED
      BY <1>1, <3>2
  <2>3. CASE success /\ streaming /\ EndBody("end")
    <3>1. Ending("end")
      BY <2>1, <2>3 DEF Ending, HandsOutStream
    <3>2. QED
      BY <1>1, <3>1
  <2>4. CASE ~success /\ EndBody("Enclave")
    <3>1. Ending("Enclave")
      BY <2>1, <2>4 DEF Ending, HandsOutStream
    <3>2. QED
      BY <1>1, <3>1
  <2>5. QED
    BY <1>4, <2>2, <2>3, <2>4 DEF Eof
<1>5. QED
  BY <1>2, <1>3, <1>4 DEF ChunkErr, BodyLost

LEMMA BodyEndInv ==
    ASSUME CallInv, ChannelInv', ChunkErr \/ BodyLost \/ Eof PROVE CallInv'
BY BodyEnds, EndBodyInv DEF Ending

-----------------------------------------------------------------------------
LEMMA CallStepInv == CallInv /\ [Next]_allVars => CallInv'
<1> SUFFICES ASSUME CallInv, [Next]_allVars PROVE CallInv'
  OBVIOUS
<1>1. ChannelInv'
  BY ChannelKept
<1>2. CASE UNCHANGED allVars
  <2>1. UNCHANGED <<stage, streaming, success, returned, body, items, ending, emitted, bufLen,
                    failed>>
    BY <1>2 DEF allVars, callVars, channelVars, decoderVars
  <2>2. QED
    BY <1>1, <2>1 DEF CallInv, ChannelInv, QuietInv, BodyInv, PlaceInv, HandsOutStream, TypeOK,
       ErrorIsNoCompletion, NoPartialFrame
<1>3. QED
  BY <1>1, <1>2, ReadInv, HeadInv, ChunkOkInv, BodyEndInv DEF Next, Client, Finished

THEOREM CallInvariance == Spec => []CallInv
BY CallInitInv, CallStepInv, PTL DEF Spec

\* client.rs:122-141: the call's result and its stream keep their types over a channel
\* that keeps its own.
THEOREM CallTypeCorrect == Spec => []TypeOK
BY CallInvariance, PTL DEF CallInv

\* client.rs:329-333: a non-2xx never produces a stream or a completion, whatever
\* frames authenticate.
THEOREM ErrorsComplete == Spec => []ErrorIsNoCompletion
BY CallInvariance, PTL DEF CallInv

\* client.rs:335-338: what ends well has decrypted every byte it has read, for any
\* frame lengths and however the body is cut.
THEOREM NothingPartial == Spec => []NoPartialFrame
BY CallInvariance, PTL DEF CallInv

-----------------------------------------------------------------------------
(* The abstract state, written out. *)
Said      == [i \in DOMAIN sealed |-> sealed[i].payload]
CallStage == IF stage = "body" /\ HandsOutStream THEN "streaming"
             ELSE IF stage = "done" THEN "done" ELSE "calling"
Words     == IF returned \in {"Ok", "Json", "Enclave"} THEN body ELSE <<>>

\* ChatCall without its fairness, which is beyond the prover.
ChatCallSafety == Call!CallInit /\ [][Call!CallNext]_(Call!callVars)

SaidTyped == Said \in Seq(Nat) /\ Len(Said) = Len(sealed)

LEMMA SaidIsSeq == SealerInv => SaidTyped
<1> SUFFICES ASSUME SealerInv PROVE SaidTyped
  OBVIOUS
<1>1. sealed \in Seq(FrameType) /\ Len(sealed) \in Nat /\ DOMAIN sealed = 1..Len(sealed)
  BY DEF SealerInv
<1>2. ASSUME NEW i \in 1..Len(sealed) PROVE sealed[i].payload \in Nat
  <2>1. sealed[i] \in FrameType
    BY <1>1, <1>2, ElementOfSeq
  <2>2. QED
    BY <2>1 DEF FrameType
<1>3. QED
  BY <1>1, <1>2 DEF Said, SaidTyped

\* What the pushes returned is a prefix of what the enclave said.
EmittedFromSaid == emitted \in Call!PrefixesOf(Said)

LEMMA EmittedIsSaid == ChannelInv => EmittedFromSaid
<1> SUFFICES ASSUME ChannelInv PROVE EmittedFromSaid
  OBVIOUS
<1>1. /\ emitted \in Seq(Nat) /\ Len(emitted) \in Nat /\ Len(emitted) <= Len(sealed)
      /\ \A i \in 1..Len(emitted) : emitted[i] = sealed[i].payload
  BY DEF ChannelInv, OutputInv
<1>2. /\ Said \in Seq(Nat) /\ Len(Said) = Len(sealed) /\ Len(sealed) \in Nat
      /\ DOMAIN sealed = 1..Len(sealed)
  BY SaidIsSeq DEF ChannelInv, SealerInv, SaidTyped
<1>3. \A i \in 1..Len(emitted) : Said[i] \in Nat /\ Said[i] = emitted[i]
  BY <1>1, <1>2 DEF Said
<1>4. /\ SubSeq(Said, 1, Len(emitted)) \in Seq(Nat)
      /\ Len(SubSeq(Said, 1, Len(emitted))) = Len(emitted)
      /\ \A i \in 1..Len(emitted) : SubSeq(Said, 1, Len(emitted))[i] = Said[i]
  BY <1>1, <1>3, SubSeqProperties
<1>5. emitted = SubSeq(Said, 1, Len(emitted))
  BY <1>1, <1>3, <1>4, SeqEqual
<1>6. Len(emitted) \in 0..Len(Said)
  BY <1>1, <1>2
<1>7. \E n \in 0..Len(Said) : emitted = SubSeq(Said, 1, n)
  BY <1>5, <1>6
<1>8. QED
  BY <1>7 DEF Call!PrefixesOf, EmittedFromSaid

\* A step that is invisible to the caller.
LEMMA CallStutters ==
    ASSUME UNCHANGED <<streaming, sealed, CallStage, returned, Words, items, ending>>
    PROVE  UNCHANGED Call!callVars
<1>1. UNCHANGED <<streaming, CallStage, returned, Words, items, ending>>
  OBVIOUS
<1>2. UNCHANGED Said
  BY DEF Said
<1>3. QED
  BY <1>1, <1>2 DEF Call!callVars, CallStage, Words, Said, HandsOutStream

-----------------------------------------------------------------------------
\* The enclave writes, or fails to.
LEMMA SpeakRefines == ASSUME CallInv, SealMore PROVE [Call!CallNext]_(Call!callVars)
<1>1. /\ stage = "body" /\ UNCHANGED <<stage, streaming, success, returned, body, items, ending>>
      /\ SealerNext
  BY DEF SealMore, Seal, callVars
<1>2. UNCHANGED <<CallStage, Words>> /\ CallStage # "done"
  BY <1>1 DEF CallStage, Words, HandsOutStream
<1>3. CASE SealFails \/ SealRefused
  <2>1. UNCHANGED sealed
    BY <1>3 DEF SealFails, SealRefused
  <2>2. QED
    BY <1>1, <1>2, <2>1, CallStutters
<1>4. ASSUME NEW len \in CiphertextLens, SealFrame(len) PROVE Call!Speak
  <2> DEFINE f == [len |-> len, seq |-> sealSeq, payload |-> writes']
  <2>1. writes' \in 1..MaxWrites
    BY <1>4, SealerAssumption DEF SealFrame, CallInv, ChannelInv, SealerInv
  <2>2. sealed \in Seq(FrameType) /\ sealed' = Append(sealed, f) /\ f.payload = writes'
    BY <1>4 DEF SealFrame, CallInv, ChannelInv, SealerInv
  <2>3. f \in FrameType
    BY <1>4, <2>1, Bounds DEF SealFrame, FrameType, CiphertextLens, CallInv, ChannelInv, SealerInv
  <2>4. /\ sealed' \in Seq(FrameType) /\ Len(sealed') = Len(sealed) + 1 /\ Len(sealed) \in Nat
        /\ \A i \in 1..Len(sealed) : sealed'[i] = sealed[i]
        /\ sealed'[Len(sealed) + 1] = f
    BY <2>2, <2>3, AppendProperties
  <2>5. SealerInv /\ SealerInv'
    BY <1>1, SealerStep DEF CallInv, ChannelInv
  <2>6. /\ Said \in Seq(Nat) /\ Len(Said) = Len(sealed)
        /\ Said' \in Seq(Nat) /\ Len(Said') = Len(sealed) + 1
    <3>1. (SealerInv => SaidTyped) /\ (SealerInv => SaidTyped)'
      BY SaidIsSeq, PTL
    <3>2. QED
      BY <2>4, <2>5, <3>1 DEF SaidTyped
  <2>7. Append(Said, writes') \in Seq(Nat) /\ Len(Append(Said, writes')) = Len(sealed) + 1
        /\ (\A i \in 1..Len(sealed) : Append(Said, writes')[i] = Said[i])
        /\ Append(Said, writes')[Len(sealed) + 1] = writes'
    BY <2>1, <2>6, AppendProperties
  <2>8. ASSUME NEW i \in 1..Len(Said') PROVE Said'[i] = Append(Said, writes')[i]
    <3>1. DOMAIN sealed = 1..Len(sealed) /\ DOMAIN sealed' = 1..Len(sealed')
      BY <2>2, <2>4
    <3>2. CASE i \in 1..Len(sealed)
      BY <2>4, <2>7, <3>1, <3>2 DEF Said
    <3>3. CASE i = Len(sealed) + 1
      BY <2>2, <2>4, <2>7, <3>1, <3>3 DEF Said
    <3>4. QED
      BY <2>4, <2>6, <3>2, <3>3
  <2>9. Said' = Append(Said, writes')
    BY <2>6, <2>7, <2>8, SeqEqual
  <2>10. \E w \in 1..MaxWrites : Said' = Append(Said, w)
    BY <2>1, <2>9
  <2>11. UNCHANGED <<streaming, CallStage, returned, Words, items, ending>>
    BY <1>1, <1>2
  <2>12. QED
    BY <1>2, <2>10, <2>11 DEF Call!Speak, Said, CallStage, Words, HandsOutStream
<1>5. QED
  BY <1>1, <1>3, <1>4 DEF SealerNext, Call!CallNext

\* A call that ends with an error before the head has told its caller nothing.
LEMMA EarlyEndRefines ==
    ASSUME CallInv, stage \in {"prepare", "sent"}, UNCHANGED channelVars,
           NEW o \in CallErrors, CallReturns(o)
    PROVE  Call!Fail(o)
<1>1. /\ CallStage = "calling" /\ CallStage' = "done" /\ returned' = o
      /\ UNCHANGED <<streaming, sealed, items, ending>>
  BY DEF CallReturns, CallStage, channelVars, sealerVars
<1>2. Words = <<>> /\ Words' = <<>>
  BY <1>1 DEF CallInv, QuietInv, Words, Nothing, CallErrors
<1>3. QED
  BY <1>1, <1>2 DEF Call!Fail, Call!ChannelErrors, CallErrors, CallStage, Words

LEMMA HeadRefines ==
    ASSUME CallInv, Refuse \/ Send \/ HeadLost \/ HeadNoNonce \/ HeadBadNonce \/ HeadSealed
    PROVE  [Call!CallNext]_(Call!callVars)
<1>1. ASSUME Refuse \/ HeadLost \/ HeadNoNonce \/ HeadBadNonce PROVE Call!CallNext
  <2>1. stage \in {"prepare", "sent"} /\ UNCHANGED channelVars
    BY <1>1 DEF Refuse, HeadLost, HeadNoNonce, HeadBadNonce
  <2>2. \E o \in CallErrors : CallReturns(o)
    BY <1>1 DEF Refuse, HeadLost, HeadNoNonce, HeadBadNonce, CallErrors
  <2>3. \E o \in CallErrors : Call!Fail(o)
    BY <2>1, <2>2, EarlyEndRefines
  <2>4. QED
    BY <2>3 DEF Call!CallNext, Call!Returns, Call!ChannelErrors, CallErrors
<1>2. ASSUME Send PROVE UNCHANGED Call!callVars
  <2>1. UNCHANGED <<streaming, sealed, CallStage, returned, Words, items, ending>>
    BY <1>2 DEF Send, channelVars, sealerVars, CallStage, Words
  <2>2. QED
    BY <2>1, CallStutters
<1>3. ASSUME HeadSealed PROVE [Call!CallNext]_(Call!callVars)
  <2>1. /\ stage = "sent" /\ stage' = "body"
        /\ returned' = IF HandsOutStream' THEN "Ok" ELSE Nothing
        /\ UNCHANGED <<streaming, sealed, body, items, ending>>
    BY <1>3 DEF HeadSealed, channelVars, sealerVars
  <2>2. returned = Nothing /\ body = <<>> /\ Words = <<>> /\ Words' = <<>>
    BY <2>1 DEF CallInv, QuietInv, PlaceInv, Words, Nothing
  <2>3. CASE HandsOutStream'
    <3>1. CallStage = "calling" /\ CallStage' = "streaming" /\ returned' = "Ok" /\ streaming
      BY <2>1, <2>3 DEF CallStage, HandsOutStream
    <3>2. Call!Open
      BY <2>1, <2>2, <3>1 DEF Call!Open, CallStage, Words
    <3>3. QED
      BY <3>2 DEF Call!CallNext, Call!Returns
  <2>4. CASE ~HandsOutStream'
    BY <2>1, <2>2, <2>4, CallStutters DEF CallStage
  <2>5. QED
    BY <2>3, <2>4
<1>4. QED
  BY <1>1, <1>2, <1>3

LEMMA ChunkOkRefines == ASSUME CallInv, ChunkOk PROVE [Call!CallNext]_(Call!callVars)
<1>1. /\ stage = "body" /\ phase = "ok" /\ emitted' = emitted \o out
      /\ UNCHANGED <<stage, streaming, success, returned, ending, sealed>>
      /\ IF HandsOutStream THEN items' = items \o out /\ UNCHANGED body
                           ELSE body' = body \o out /\ UNCHANGED items
  BY DEF ChunkOk, sealerVars
<1>2. UNCHANGED <<CallStage, Said>>
  BY <1>1 DEF CallStage, HandsOutStream, Said
<1>3. CASE ~HandsOutStream
  <2>1. returned = Nothing
    BY <1>1, <1>3 DEF CallInv, BodyInv
  <2>2. Words = <<>> /\ Words' = <<>>
    BY <1>1, <2>1 DEF Words, Nothing
  <2>3. QED
    BY <1>1, <1>2, <1>3, <2>2, CallStutters
<1>4. CASE HandsOutStream
  <2>1. UNCHANGED Words
    BY <1>1, <1>4 DEF Words
  <2>2. items = emitted /\ items' = emitted' /\ out \in Seq(Nat) /\ items \in Seq(Nat)
    BY <1>1, <1>4 DEF CallInv, PlaceInv, ChannelInv, OutputInv
  <2>3. ChannelInv'
    <3>1. [Next]_allVars
      BY DEF Next, Client
    <3>2. QED
      BY <3>1, ChannelKept
  <2>4. items' \in Call!PrefixesOf(Said)
    <3>1. (ChannelInv => EmittedFromSaid)'
      BY EmittedIsSaid, PTL
    <3>2. Call!PrefixesOf(Said') = Call!PrefixesOf(Said)
      BY <1>2
    <3>3. QED
      BY <2>2, <2>3, <3>1, <3>2 DEF EmittedFromSaid, Call!PrefixesOf
  <2>5. CASE out = <<>>
    <3>1. items' = items
      BY <1>1, <1>4, <2>2, <2>5, ConcatEmptySeq
    <3>2. QED
      BY <1>1, <1>2, <2>1, <3>1, CallStutters
  <2>6. CASE out # <<>>
    <3>1. Len(items') > Len(items)
      BY <1>1, <1>4, <2>2, <2>6, ConcatProperties, EmptySeq
    <3>2. CallStage = "streaming"
      BY <1>1, <1>4 DEF CallStage
    <3>3. Call!Yield
      BY <1>1, <1>2, <2>1, <2>4, <3>1, <3>2 DEF Call!Yield, CallStage, Words, Said
    <3>4. QED
      BY <3>3 DEF Call!CallNext
  <2>7. QED
    BY <2>5, <2>6
<1>5. QED
  BY <1>3, <1>4

\* The body ends, and with it the stream or the call.
LEMMA BodyEndRefines ==
    ASSUME CallInv, ChunkErr \/ BodyLost \/ Eof PROVE Call!CallNext
<1>1. stage = "body" /\ UNCHANGED channelVars /\ \E o : Ending(o)
  BY BodyEnds
<1>2. PICK o : Ending(o)
  BY <1>1
<1>3. /\ stage' = "done" /\ UNCHANGED <<streaming, sealed, success, body, items>>
      /\ IF HandsOutStream THEN ending' = o /\ UNCHANGED returned
                           ELSE returned' = o /\ UNCHANGED ending
  BY <1>1, <1>2 DEF Ending, EndBody, CallReturns, channelVars, sealerVars
<1>4. CASE HandsOutStream
  <2>1. CallStage = "streaming" /\ CallStage' = "done" /\ UNCHANGED Words
    BY <1>1, <1>3, <1>4 DEF CallStage, Words
  <2>2. Call!End(o)
    BY <1>2, <1>3, <1>4, <2>1 DEF Ending, Call!End, CallStage, Words
  <2>3. QED
    BY <1>2, <1>4, <2>2 DEF Ending, Call!CallNext, Call!Ends
<1>5. CASE ~HandsOutStream
  <2>1. CallStage = "calling" /\ CallStage' = "done" /\ returned' = o /\ returned = Nothing
    BY <1>1, <1>3, <1>5 DEF CallStage, CallInv, BodyInv
  <2>2. Words = <<>>
    BY <2>1 DEF Words, Nothing
  <2>3. CASE o \in {"Http", "Ehbp"}
    <3>1. Words' = <<>>
      BY <2>1, <2>3 DEF Words
    <3>2. Call!Fail(o)
      BY <1>3, <1>5, <2>1, <2>2, <2>3, <3>1 DEF Call!Fail, Call!ChannelErrors, CallStage, Words
    <3>3. QED
      BY <2>3, <3>2 DEF Call!CallNext, Call!Returns, Call!ChannelErrors
  <2>4. CASE o \in {"Ok", "Json", "Enclave"}
    <3>1. Words' = emitted
      BY <1>3, <1>5, <2>1, <2>4 DEF Words, CallInv, PlaceInv
    <3>2. Words' \in Call!PrefixesOf(Said)
      BY <3>1, EmittedIsSaid DEF CallInv, EmittedFromSaid
    <3>3. o # "Enclave" => ~streaming
      BY <1>2, <2>4 DEF Ending
    <3>4. Call!Reply(o)
      BY <1>3, <1>5, <2>1, <2>4, <3>2, <3>3 DEF Call!Reply, CallStage, Words, Said
    <3>5. QED
      BY <2>4, <3>4 DEF Call!CallNext, Call!Returns
  <2>5. QED
    BY <1>2, <1>5, <2>3, <2>4 DEF Ending
<1>6. QED
  BY <1>4, <1>5

LEMMA CallStepRefines == CallInv /\ [Next]_allVars => [Call!CallNext]_(Call!callVars)
<1> SUFFICES ASSUME CallInv, [Next]_allVars PROVE [Call!CallNext]_(Call!callVars)
  OBVIOUS
<1>1. CASE Chunk \/ DecodeChunk \/ CarryMore \/ Finished \/ UNCHANGED allVars
  <2>1. UNCHANGED <<stage, streaming, success, returned, body, items, ending, sealed>>
    BY <1>1 DEF Chunk, DecodeChunk, Decode, CarryMore, Carry, Finished, allVars, channelVars,
       sealerVars, callVars
  <2>2. QED
    BY <2>1, CallStutters DEF CallStage, Words, HandsOutStream
<1>2. QED
  BY <1>1, SpeakRefines, HeadRefines, ChunkOkRefines, BodyEndRefines DEF Next, Client

\* client.rs:122-141, 335-339: whatever the transport does to any number of frames, a
\* caller sees a call that fails, the enclave's own words, or a stream of them in order.
THEOREM CallRefined == Spec => ChatCallSafety
<1>1. Init => Call!CallInit
  <2> SUFFICES ASSUME Init PROVE Call!CallInit
    OBVIOUS
  <2>1. sealed = <<>> /\ stage = "prepare" /\ returned = Nothing
    BY DEF Init, ChannelInit, SealerInit
  <2>2. Said = <<>> /\ CallStage = "calling" /\ Words = <<>>
    BY <2>1 DEF Said, CallStage, Words, Nothing
  <2>3. QED
    BY <2>2 DEF Init, Call!CallInit, Said, CallStage, Words, Nothing, Call!Nothing
<1>2. QED
  BY <1>1, CallInvariance, CallStepRefines, PTL DEF Spec, ChatCallSafety

=============================================================================
