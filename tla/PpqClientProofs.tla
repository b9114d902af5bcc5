-------------------------- MODULE PpqClientProofs --------------------------
(* Proofs about PpqClient: its sealed sessions, its construction and what leaves *)
(* it, for any number of calls, keys and bytes.                                *)
EXTENDS PpqClient, Integers, FiniteSetTheorems, SequenceTheorems, WellFoundedInduction, TLAPS

-----------------------------------------------------------------------------
(* SealedSessions: several calls over an intermediary. *)
ResponseType == [enc : Calls, sealed : 0..MaxFrames]

\* The opener's key is derived from the call's own secret and belongs to one response
\* at most; what it has opened are the first of that response's words.
SessionInv(c) ==
    /\ got[c] \in Seq(Nat \X Nat) /\ opener[c].seq = Len(got[c])
    /\ session[c] \in {"none", "sealed"} => got[c] = <<>>
    /\ session[c] = "open" =>
          /\ Len(got[c]) <= LastSeq
          /\ \E k \in Nat : opener[c].key = Sessions!Derive(Sessions!Export(c), c, k)
    /\ got[c] # <<>> =>
          \E n \in DOMAIN responses :
              /\ responses[n].enc = c /\ Len(got[c]) <= responses[n].sealed
              /\ opener[c].key = Sessions!Derive(Sessions!Export(c), c, n)
              /\ \A i \in 1..Len(got[c]) : got[c][i] = Sessions!Word(n, i)

SessionsInv ==
    /\ base \in NonceBase
    /\ session \in [Calls -> {"none", "sealed", "open", "failed"}]
    /\ responses \in Seq(ResponseType)
    /\ DOMAIN opener = Calls /\ DOMAIN got = Calls
    /\ \A c \in Calls : DOMAIN opener[c] = {"key", "seq"}
    /\ \A c \in Calls : SessionInv(c)

-----------------------------------------------------------------------------
LEMMA SessionBounds ==
    /\ NonceLen \in Nat /\ SeqLen \in 1..NonceLen /\ LastSeq \in Nat
    /\ BeBytes \in [0..LastSeq -> [1..SeqLen -> 0..1]]
    /\ \A x, y \in 0..LastSeq : BeBytes[x] = BeBytes[y] => x = y
    /\ MaxFrames \in 0..(LastSeq + 1)
BY PpqClientAssumption DEF Sessions!SessionsAssumption, Sessions!Bytes

\* XOR with a fixed byte is injective.
LEMMA XorInjective ==
    ASSUME NEW b \in 0..1, NEW x \in 0..1, NEW y \in 0..1, Sessions!Xor(b, x) = Sessions!Xor(b, y)
    PROVE  x = y
BY DEF Sessions!Xor

\* frame_nonce: under one base, a nonce belongs to one sequence number.
LEMMA NonceInjective ==
    ASSUME NEW b \in NonceBase, NEW x \in 0..LastSeq, NEW y \in 0..LastSeq,
           Sessions!FrameNonce(b, x) = Sessions!FrameNonce(b, y)
    PROVE  x = y
<1> USE SessionBounds
<1>1. ASSUME NEW k \in 1..SeqLen PROVE BeBytes[x][k] = BeBytes[y][k]
  <2> DEFINE i == k + (NonceLen - SeqLen)
  <2>1. i \in 1..NonceLen /\ i > NonceLen - SeqLen /\ i - (NonceLen - SeqLen) = k
    OBVIOUS
  <2>2. /\ Sessions!FrameNonce(b, x)[i] = Sessions!Xor(b[i], BeBytes[x][k])
        /\ Sessions!FrameNonce(b, y)[i] = Sessions!Xor(b[i], BeBytes[y][k])
    BY <2>1 DEF Sessions!FrameNonce
  <2>3. b[i] \in 0..1 /\ BeBytes[x][k] \in 0..1 /\ BeBytes[y][k] \in 0..1
    BY <2>1 DEF NonceBase, Sessions!Bytes
  <2>4. QED
    BY <2>2, <2>3, XorInjective
<1>2. BeBytes[x] = BeBytes[y]
  BY <1>1
<1>3. QED
  BY <1>2

\* A frame that exists, and the two numbers it is known by.
LEMMA FrameIsOf ==
    ASSUME SessionsInv, NEW f \in Sessions!Frames
    PROVE  \E n \in DOMAIN responses : \E i \in 1..responses[n].sealed :
               /\ responses[n] \in ResponseType /\ n \in Nat /\ i \in Nat /\ i - 1 \in 0..LastSeq
               /\ f = Sessions!FrameOf(n, i)
               /\ f.key = Sessions!Derive(Sessions!Export(responses[n].enc), responses[n].enc, n)
               /\ f.nonce = Sessions!FrameNonce(base, i - 1)
               /\ f.word = Sessions!Word(n, i)
<1>1. PICK n \in DOMAIN responses : f \in {Sessions!FrameOf(n, i) : i \in 1..responses[n].sealed}
  BY DEF Sessions!Frames
<1>2. PICK i \in 1..responses[n].sealed : f = Sessions!FrameOf(n, i)
  BY <1>1
<1>3. responses[n] \in ResponseType /\ n \in Nat
  BY ElementOfSeq, LenProperties DEF SessionsInv
<1>4. i \in Nat /\ i - 1 \in 0..LastSeq
  BY <1>2, <1>3, SessionBounds DEF ResponseType
<1>5. QED
  BY <1>1, <1>2, <1>3, <1>4 DEF Sessions!FrameOf

\* What another call does.
LEMMA SessionSame ==
    ASSUME NEW c, SessionInv(c), session'[c] = session[c], opener'[c] = opener[c],
           got'[c] = got[c], UNCHANGED responses
    PROVE  SessionInv(c)'
BY DEF SessionInv, Sessions!Derive, Sessions!Export, Sessions!Word

LEMMA SessionsStutter ==
    ASSUME SessionsInv, UNCHANGED sessionVars PROVE SessionsInv'
<1>1. UNCHANGED <<base, session, responses, opener, got>>
  BY DEF sessionVars
<1>2. ASSUME NEW c \in Calls PROVE SessionInv(c)'
  BY <1>1, SessionSame DEF SessionsInv
<1>3. QED
  BY <1>1, <1>2 DEF SessionsInv, NonceBase, ResponseType

\* The enclave begins to answer, or goes on: every response keeps what it was.
LEMMA ResponsesGrow ==
    ASSUME SessionsInv, UNCHANGED <<base, session, opener, got>>,
           responses' \in Seq(ResponseType), DOMAIN responses \subseteq DOMAIN responses',
           \A n \in DOMAIN responses : /\ responses'[n].enc = responses[n].enc
                                       /\ responses'[n].sealed >= responses[n].sealed
    PROVE  SessionsInv'
<1>1. ASSUME NEW c \in Calls PROVE SessionInv(c)'
  <2>1. SessionInv(c) /\ Len(got[c]) \in Nat
    BY DEF SessionsInv, SessionInv
  <2>2. ASSUME got[c] # <<>>
        PROVE  \E n \in DOMAIN responses' :
                  /\ responses'[n].enc = c /\ Len(got[c]) <= responses'[n].sealed
                  /\ opener[c].key = Sessions!Derive(Sessions!Export(c), c, n)
                  /\ \A i \in 1..Len(got[c]) : got[c][i] = Sessions!Word(n, i)
    <3>1. PICK n \in DOMAIN responses :
              /\ responses[n].enc = c /\ Len(got[c]) <= responses[n].sealed
              /\ opener[c].key = Sessions!Derive(Sessions!Export(c), c, n)
              /\ \A i \in 1..Len(got[c]) : got[c][i] = Sessions!Word(n, i)
      BY <2>1, <2>2 DEF SessionInv
    <3>2. responses[n] \in ResponseType /\ responses'[n] \in ResponseType
      BY ElementOfSeq, LenProperties DEF SessionsInv
    <3>3. Len(got[c]) <= responses'[n].sealed
      BY <2>1, <3>1, <3>2 DEF ResponseType
    <3>4. n \in DOMAIN responses' /\ responses'[n].enc = c
      BY <3>1
    <3>5. QED
      BY <3>1, <3>3, <3>4
  <2>3. QED
    BY <2>1, <2>2 DEF SessionInv, Sessions!Derive, Sessions!Export, Sessions!Word
<1>2. QED
  BY <1>1 DEF SessionsInv, NonceBase, Sessions!Bytes, ResponseType

\* A step of one call that does not decrypt anything.
LEMMA SessionMoves ==
    ASSUME SessionsInv, NEW c \in Calls,
           Sessions!Seal(c) \/ Sessions!ReadHead(c) \/ Sessions!BadHead(c) \/ Sessions!RejectFrame(c)
    PROVE  SessionsInv'
<1>1. /\ UNCHANGED <<base, responses, got>>
      /\ session[c] \notin {"none", "sealed"} => session' = [session EXCEPT ![c] = "failed"]
      /\ session' \in [Calls -> {"none", "sealed", "open", "failed"}]
      /\ \A d \in Calls \ {c} : session'[d] = session[d] /\ opener'[d] = opener[d]
      /\ DOMAIN opener' = Calls
  BY DEF Sessions!Seal, Sessions!ReadHead, Sessions!BadHead, Sessions!RejectFrame, SessionsInv
<1>2. SessionInv(c)'
  <2>1. SessionInv(c) /\ <<>> \in Seq(Nat \X Nat) /\ Len(<<>>) = 0
    BY EmptySeq DEF SessionsInv
  <2>2. CASE Sessions!Seal(c) \/ Sessions!BadHead(c) \/ Sessions!RejectFrame(c)
    <3>1. opener' = opener
      BY <2>2 DEF Sessions!Seal, Sessions!BadHead, Sessions!RejectFrame
    <3>2. session'[c] # "open" /\ (session'[c] = "sealed" => session[c] = "none")
          /\ session'[c] # "none"
      BY <2>2 DEF Sessions!Seal, Sessions!BadHead, Sessions!RejectFrame, SessionsInv
    <3>3. QED
      BY <1>1, <2>1, <3>1, <3>2 DEF SessionInv
  <2>3. CASE Sessions!ReadHead(c)
    <3>1. session'[c] = "open" /\ session[c] = "sealed" /\ opener'[c].seq = 0
      BY <2>3 DEF Sessions!ReadHead, SessionsInv
    <3>2. got[c] = <<>>
      BY <2>1, <3>1 DEF SessionInv
    <3>3. PICK nonce \in 0..Len(responses) :
              opener' = [opener EXCEPT
                  ![c] = [key |-> Sessions!Derive(Sessions!Export(c), c, nonce), seq |-> 0]]
      BY <2>3 DEF Sessions!ReadHead
    <3>4. nonce \in Nat
      BY LenProperties DEF SessionsInv
    <3>5. opener'[c].key = Sessions!Derive(Sessions!Export(c), c, nonce)
      BY <3>3 DEF SessionsInv
    <3>6. /\ got'[c] = <<>> /\ Len(got'[c]) = 0 /\ 0 <= LastSeq
      BY <1>1, <2>1, <3>2, SessionBounds
    <3>7. \E k \in Nat : opener'[c].key = Sessions!Derive(Sessions!Export(c), c, k)
      BY <3>4, <3>5
    <3>8. QED
      BY <2>1, <3>1, <3>6, <3>7 DEF SessionInv, Sessions!Derive, Sessions!Export
  <2>4. QED
    BY <2>2, <2>3
<1>3. ASSUME NEW d \in Calls PROVE SessionInv(d)' /\ DOMAIN opener'[d] = {"key", "seq"}
  <2>1. CASE d = c
    <3>1. DOMAIN opener'[c] = {"key", "seq"}
      BY DEF Sessions!Seal, Sessions!ReadHead, Sessions!BadHead, Sessions!RejectFrame, SessionsInv
    <3>2. QED
      BY <1>2, <2>1, <3>1
  <2>2. CASE d # c
    BY <1>1, <2>2, SessionSame DEF SessionsInv
  <2>3. QED
    BY <2>1, <2>2
<1>4. QED
  BY <1>1, <1>3 DEF SessionsInv, NonceBase, Sessions!Bytes, ResponseType

\* A frame that opens is the next one of the response the opener's key belongs to.
LEMMA OpensNext ==
    ASSUME SessionsInv, NEW c \in Calls, NEW f \in Sessions!Frames, Sessions!OpenFrame(c, f)
    PROVE  \E n \in DOMAIN responses :
               /\ responses[n].enc = c /\ Len(got[c]) + 1 <= responses[n].sealed
               /\ opener[c].key = Sessions!Derive(Sessions!Export(c), c, n)
               /\ f.word = Sessions!Word(n, Len(got[c]) + 1)
               /\ \A i \in 1..Len(got[c]) : got[c][i] = Sessions!Word(n, i)
<1>1. /\ session[c] = "open" /\ f.key = opener[c].key /\ opener[c].seq < LastSeq
      /\ f.nonce = Sessions!FrameNonce(base, opener[c].seq)
      /\ opener[c].seq = Len(got[c]) /\ Len(got[c]) \in Nat
  BY DEF Sessions!OpenFrame, Sessions!Opens, SessionsInv, SessionInv
<1>2. PICK n \in DOMAIN responses : \E i \in 1..responses[n].sealed :
               /\ responses[n] \in ResponseType /\ n \in Nat /\ i \in Nat /\ i - 1 \in 0..LastSeq
               /\ f = Sessions!FrameOf(n, i)
               /\ f.key = Sessions!Derive(Sessions!Export(responses[n].enc), responses[n].enc, n)
               /\ f.nonce = Sessions!FrameNonce(base, i - 1)
               /\ f.word = Sessions!Word(n, i)
  BY FrameIsOf
<1>3. PICK i \in 1..responses[n].sealed :
               /\ responses[n] \in ResponseType /\ n \in Nat /\ i \in Nat /\ i - 1 \in 0..LastSeq
               /\ f.key = Sessions!Derive(Sessions!Export(responses[n].enc), responses[n].enc, n)
               /\ f.nonce = Sessions!FrameNonce(base, i - 1)
               /\ f.word = Sessions!Word(n, i)
  BY <1>2
<1>4. i = Len(got[c]) + 1
  <2>1. Len(got[c]) \in 0..LastSeq /\ base \in NonceBase
    BY <1>1, SessionBounds DEF SessionsInv
  <2>2. i - 1 = Len(got[c])
    BY <1>1, <1>3, <2>1, NonceInjective
  <2>3. QED
    BY <1>1, <1>3, <2>2
<1>5. i <= responses[n].sealed
  BY <1>3 DEF ResponseType
<1>6. CASE got[c] = <<>>
  <2>1. Len(got[c]) = 0
    BY <1>6, EmptySeq
  <2>2. responses[n].enc = c
    <3>1. PICK k \in Nat : opener[c].key = Sessions!Derive(Sessions!Export(c), c, k)
      BY <1>1 DEF SessionsInv, SessionInv
    <3>2. Sessions!Derive(Sessions!Export(c), c, k)
            = Sessions!Derive(Sessions!Export(responses[n].enc), responses[n].enc, n)
      BY <1>1, <1>3, <3>1
    <3>3. QED
      BY <3>2 DEF Sessions!Derive
  <2>3. QED
    BY <1>1, <1>3, <1>4, <1>5, <2>1, <2>2
<1>7. CASE got[c] # <<>>
  <2>1. PICK m \in DOMAIN responses :
              /\ responses[m].enc = c /\ opener[c].key = Sessions!Derive(Sessions!Export(c), c, m)
              /\ \A k \in 1..Len(got[c]) : got[c][k] = Sessions!Word(m, k)
    <3>1. SessionInv(c)
      BY DEF SessionsInv
    <3>2. QED
      BY <1>7, <3>1 DEF SessionInv
  <2>2. m = n
    <3>1. Sessions!Derive(Sessions!Export(c), c, m)
            = Sessions!Derive(Sessions!Export(responses[n].enc), responses[n].enc, n)
      BY <1>1, <1>3, <2>1
    <3>2. QED
      BY <3>1 DEF Sessions!Derive
  <2>3. QED
    BY <1>3, <1>4, <1>5, <2>1, <2>2
<1>8. QED
  BY <1>6, <1>7

LEMMA OpenFrameKeeps ==
    ASSUME SessionsInv, NEW c \in Calls, NEW f \in Sessions!Frames, Sessions!OpenFrame(c, f)
    PROVE  SessionsInv'
<1>1. /\ session[c] = "open" /\ UNCHANGED <<base, session, responses>>
      /\ opener' = [opener EXCEPT ![c].seq = @ + 1]
      /\ got' = [got EXCEPT ![c] = Append(@, f.word)] /\ opener[c].seq < LastSeq
  BY DEF Sessions!OpenFrame
<1>2. /\ got[c] \in Seq(Nat \X Nat) /\ opener[c].seq = Len(got[c]) /\ Len(got[c]) \in Nat
      /\ DOMAIN opener[c] = {"key", "seq"} /\ DOMAIN opener = Calls /\ DOMAIN got = Calls
  BY DEF SessionsInv, SessionInv
<1>3. PICK n \in DOMAIN responses :
               /\ responses[n].enc = c /\ Len(got[c]) + 1 <= responses[n].sealed
               /\ opener[c].key = Sessions!Derive(Sessions!Export(c), c, n)
               /\ f.word = Sessions!Word(n, Len(got[c]) + 1)
               /\ \A i \in 1..Len(got[c]) : got[c][i] = Sessions!Word(n, i)
  BY OpensNext
<1>4. n \in Nat /\ f.word \in Nat \X Nat
  <2>1. n \in Nat
    BY LenProperties DEF SessionsInv
  <2>2. QED
    BY <1>2, <1>3, <2>1 DEF Sessions!Word
<1>5. /\ got'[c] = Append(got[c], f.word) /\ opener'[c].seq = opener[c].seq + 1
      /\ opener'[c].key = opener[c].key /\ DOMAIN opener'[c] = {"key", "seq"}
      /\ DOMAIN opener' = Calls /\ DOMAIN got' = Calls
      /\ \A d \in Calls \ {c} : got'[d] = got[d] /\ opener'[d] = opener[d]
  BY <1>1, <1>2
<1>6. /\ got'[c] \in Seq(Nat \X Nat) /\ Len(got'[c]) = Len(got[c]) + 1
      /\ got'[c][Len(got[c]) + 1] = f.word
      /\ \A i \in 1..Len(got[c]) : got'[c][i] = got[c][i]
  BY <1>2, <1>4, <1>5, AppendProperties
<1>7. SessionInv(c)'
  <2>1. \A i \in 1..Len(got'[c]) : got'[c][i] = Sessions!Word(n, i)
    <3> SUFFICES ASSUME NEW i \in 1..Len(got'[c]) PROVE got'[c][i] = Sessions!Word(n, i)
      OBVIOUS
    <3>1. CASE i = Len(got[c]) + 1
      BY <1>3, <1>6, <3>1
    <3>2. CASE i \in 1..Len(got[c])
      BY <1>3, <1>6, <3>2
    <3>3. QED
      BY <1>2, <1>6, <3>1, <3>2
  <2>2. \E m \in DOMAIN responses' :
              /\ responses'[m].enc = c /\ Len(got'[c]) <= responses'[m].sealed
              /\ opener'[c].key = Sessions!Derive(Sessions!Export(c), c, m)
              /\ \A i \in 1..Len(got'[c]) : got'[c][i] = Sessions!Word(m, i)
    BY <1>1, <1>3, <1>5, <1>6, <2>1
  <2>3. opener'[c].seq = Len(got'[c]) /\ session'[c] = "open" /\ Len(got'[c]) <= LastSeq
    BY <1>1, <1>2, <1>5, <1>6, SessionBounds DEF SessionsInv
  <2>4. \E k \in Nat : opener'[c].key = Sessions!Derive(Sessions!Export(c), c, k)
    BY <1>3, <1>4, <1>5
  <2>5. QED
    <3> DEFINE A(m) ==
            /\ responses'[m].enc = c /\ Len(got'[c]) <= responses'[m].sealed
            /\ opener'[c].key = Sessions!Derive(Sessions!Export(c), c, m)
            /\ \A i \in 1..Len(got'[c]) : got'[c][i] = Sessions!Word(m, i)
    <3>1. \E m \in DOMAIN responses' : A(m)
      BY <2>2
    <3> HIDE DEF A
    <3>2. /\ got'[c] \in Seq(Nat \X Nat) /\ opener'[c].seq = Len(got'[c])
          /\ session'[c] \notin {"none", "sealed"} /\ Len(got'[c]) <= LastSeq
      BY <1>6, <2>3
    <3>3. QED
      BY <2>4, <3>1, <3>2 DEF SessionInv, A
<1>8. ASSUME NEW d \in Calls PROVE SessionInv(d)' /\ DOMAIN opener'[d] = {"key", "seq"}
  <2>1. CASE d = c
    BY <1>5, <1>7, <2>1
  <2>2. CASE d # c
    BY <1>1, <1>5, <2>2, SessionSame DEF SessionsInv
  <2>3. QED
    BY <2>1, <2>2
<1>9. QED
  BY <1>1, <1>5, <1>8 DEF SessionsInv, NonceBase, Sessions!Bytes, ResponseType

LEMMA SessionsStep == ASSUME SessionsInv, Sessions!Next PROVE SessionsInv'
<1>1. ASSUME NEW c \in Calls, Sessions!Serve(c) PROVE SessionsInv'
  <2> DEFINE r == [enc |-> c, sealed |-> 0]
  <2>1. /\ responses' = Append(responses, r) /\ UNCHANGED <<base, session, opener, got>>
        /\ responses \in Seq(ResponseType) /\ r \in ResponseType
    BY <1>1, SessionBounds DEF Sessions!Serve, SessionsInv, ResponseType
  <2>2. /\ responses' \in Seq(ResponseType) /\ DOMAIN responses' = 1..(Len(responses) + 1)
        /\ DOMAIN responses = 1..Len(responses) /\ Len(responses) \in Nat
        /\ \A n \in 1..Len(responses) : responses'[n] = responses[n]
    BY <2>1, AppendProperties, LenProperties
  <2>3. \A n \in DOMAIN responses : responses[n].sealed \in Nat
    <3> SUFFICES ASSUME NEW n \in DOMAIN responses PROVE responses[n].sealed \in Nat
      OBVIOUS
    <3>1. responses[n] \in ResponseType
      BY <2>1, <2>2, ElementOfSeq
    <3>2. QED
      BY <3>1, SessionBounds DEF ResponseType
  <2>4. QED
    BY <2>1, <2>2, <2>3, ResponsesGrow
<1>2. ASSUME NEW n \in DOMAIN responses, Sessions!SealFrame(n) PROVE SessionsInv'
  <2>1. /\ responses' = [responses EXCEPT ![n].sealed = @ + 1]
        /\ UNCHANGED <<base, session, opener, got>> /\ responses[n].sealed < MaxFrames
        /\ responses \in Seq(ResponseType)
    BY <1>2 DEF Sessions!SealFrame, SessionsInv
  <2>2. DOMAIN responses = 1..Len(responses) /\ Len(responses) \in Nat
        /\ \A k \in 1..Len(responses) : responses[k] \in ResponseType
    BY <2>1, LenProperties, ElementOfSeq
  <2>3. \A k \in DOMAIN responses :
            responses'[k] = IF k = n THEN [responses[n] EXCEPT !.sealed = @ + 1] ELSE responses[k]
    BY <2>1
  <2>4. \A k \in DOMAIN responses :
            /\ responses'[k] \in ResponseType
            /\ responses'[k].enc = responses[k].enc /\ responses'[k].sealed >= responses[k].sealed
    <3> SUFFICES ASSUME NEW k \in DOMAIN responses
                 PROVE  /\ responses'[k] \in ResponseType
                        /\ responses'[k].enc = responses[k].enc
                        /\ responses'[k].sealed >= responses[k].sealed
      OBVIOUS
    <3>1. responses[k] \in ResponseType /\ MaxFrames \in Nat
      BY <2>2, SessionBounds
    <3>2. CASE k = n
      BY <2>1, <2>3, <3>1, <3>2 DEF ResponseType
    <3>3. CASE k # n
      BY <2>3, <3>1, <3>3 DEF ResponseType
    <3>4. QED
      BY <3>2, <3>3
  <2>5. responses' \in [1..Len(responses) -> ResponseType]
    BY <2>1, <2>2, <2>4
  <2>6. responses' \in Seq(ResponseType) /\ DOMAIN responses' = DOMAIN responses
    BY <2>2, <2>5
  <2>7. QED
    BY <2>1, <2>4, <2>6, ResponsesGrow
<1>3. QED
  BY <1>1, <1>2, SessionMoves, OpenFrameKeeps DEF Sessions!Next

LEMMA SessionsInit ==
    ASSUME Sessions!Init, base = [i \in 1..NonceLen |-> 0] PROVE SessionsInv
<1>1. base \in NonceBase
  BY DEF NonceBase, Sessions!Bytes
<1>2. <<>> \in Seq(Nat \X Nat) /\ Len(<<>>) = 0 /\ <<>> \in Seq(ResponseType)
  BY EmptySeq
<1>3. /\ session \in [Calls -> {"none", "sealed", "open", "failed"}] /\ responses = <<>>
      /\ DOMAIN opener = Calls /\ DOMAIN got = Calls
      /\ \A c \in Calls : DOMAIN opener[c] = {"key", "seq"}
  BY DEF Sessions!Init
<1>4. ASSUME NEW c \in Calls PROVE SessionInv(c)
  <2>1. session[c] = "none" /\ opener[c].seq = 0 /\ got[c] = <<>>
    BY DEF Sessions!Init
  <2>2. QED
    BY <1>2, <2>1 DEF SessionInv
<1>5. QED
  BY <1>1, <1>2, <1>3, <1>4 DEF SessionsInv

\* UseForSessions draws the base before anything is sealed.
LEMMA SessionsDraw ==
    ASSUME SessionsInv, base' \in NonceBase, UNCHANGED <<session, responses, opener, got>>
    PROVE  SessionsInv'
<1>1. ASSUME NEW c \in Calls PROVE SessionInv(c)'
  BY SessionSame DEF SessionsInv
<1>2. QED
  BY <1>1 DEF SessionsInv, NonceBase, ResponseType

LEMMA SessionsTyped == SessionsInv => Sessions!TypeOK
BY DEF SessionsInv, SessionInv, Sessions!TypeOK, NonceBase, ResponseType

\* The words are those of a response to the call, in order, from the first.
LEMMA SessionsOwn == SessionsInv => Sessions!OneOwnResponse
<1> SUFFICES ASSUME SessionsInv, NEW c \in Calls, got[c] # <<>>
             PROVE  \E n \in DOMAIN responses :
                       /\ responses[n].enc = c /\ Len(got[c]) <= responses[n].sealed
                       /\ got[c] = [i \in DOMAIN got[c] |-> Sessions!Word(n, i)]
  BY DEF Sessions!OneOwnResponse
<1>1. SessionInv(c) /\ got[c] \in Seq(Nat \X Nat) /\ DOMAIN got[c] = 1..Len(got[c])
  BY LenProperties DEF SessionsInv, SessionInv
<1>2. PICK n \in DOMAIN responses :
              /\ responses[n].enc = c /\ Len(got[c]) <= responses[n].sealed
              /\ \A i \in 1..Len(got[c]) : got[c][i] = Sessions!Word(n, i)
  BY <1>1 DEF SessionInv
<1>3. got[c] = [i \in DOMAIN got[c] |-> got[c][i]]
  <2>1. got[c] \in [1..Len(got[c]) -> Nat \X Nat]
    BY <1>1, LenProperties
  <2>2. QED
    BY <2>1
<1>4. got[c] = [i \in DOMAIN got[c] |-> Sessions!Word(n, i)]
  BY <1>1, <1>2, <1>3
<1>5. QED
  BY <1>2, <1>4

\* The key tells the response, and the nonce which of its frames.
LEMMA SessionsUnique == SessionsInv => Sessions!KeyNonceUnique
<1> SUFFICES ASSUME SessionsInv, NEW f \in Sessions!Frames, NEW g \in Sessions!Frames,
                    f.key = g.key, f.nonce = g.nonce
             PROVE  f = g
  BY DEF Sessions!KeyNonceUnique
<1>1. PICK n \in DOMAIN responses : \E i \in 1..responses[n].sealed :
               /\ responses[n] \in ResponseType /\ n \in Nat /\ i \in Nat /\ i - 1 \in 0..LastSeq
               /\ f = Sessions!FrameOf(n, i)
               /\ f.key = Sessions!Derive(Sessions!Export(responses[n].enc), responses[n].enc, n)
               /\ f.nonce = Sessions!FrameNonce(base, i - 1)
               /\ f.word = Sessions!Word(n, i)
  BY FrameIsOf
<1>2. PICK i \in 1..responses[n].sealed :
               /\ i \in Nat /\ i - 1 \in 0..LastSeq /\ f = Sessions!FrameOf(n, i)
               /\ f.key = Sessions!Derive(Sessions!Export(responses[n].enc), responses[n].enc, n)
               /\ f.nonce = Sessions!FrameNonce(base, i - 1)
  BY <1>1
<1>3. PICK m \in DOMAIN responses : \E j \in 1..responses[m].sealed :
               /\ responses[m] \in ResponseType /\ m \in Nat /\ j \in Nat /\ j - 1 \in 0..LastSeq
               /\ g = Sessions!FrameOf(m, j)
               /\ g.key = Sessions!Derive(Sessions!Export(responses[m].enc), responses[m].enc, m)
               /\ g.nonce = Sessions!FrameNonce(base, j - 1)
               /\ g.word = Sessions!Word(m, j)
  BY FrameIsOf
<1>4. PICK j \in 1..responses[m].sealed :
               /\ j \in Nat /\ j - 1 \in 0..LastSeq /\ g = Sessions!FrameOf(m, j)
               /\ g.key = Sessions!Derive(Sessions!Export(responses[m].enc), responses[m].enc, m)
               /\ g.nonce = Sessions!FrameNonce(base, j - 1)
  BY <1>3
<1>5. n = m
  <2>1. Sessions!Derive(Sessions!Export(responses[n].enc), responses[n].enc, n)
          = Sessions!Derive(Sessions!Export(responses[m].enc), responses[m].enc, m)
    BY <1>2, <1>4
  <2>2. QED
    BY <2>1 DEF Sessions!Derive
<1>6. i = j
  <2>1. base \in NonceBase
    BY DEF SessionsInv
  <2>2. i - 1 = j - 1
    BY <1>2, <1>4, <2>1, NonceInjective
  <2>3. QED
    BY <1>2, <1>4, <2>2
<1>7. QED
  BY <1>2, <1>4, <1>5, <1>6

-----------------------------------------------------------------------------
(* ClientBuild: taking a key configuration apart. *)

LEMMA SeqOf ==
    ASSUME NEW n \in Nat, NEW f \in [1..n -> Nat] PROVE f \in Seq(Nat) /\ Len(f) = n
OBVIOUS

LEMMA Joined ==
    ASSUME NEW a \in Seq(Nat), NEW b \in Seq(Nat)
    PROVE  /\ a \o b \in Seq(Nat) /\ Len(a \o b) = Len(a) + Len(b)
           /\ \A i \in 1..Len(a) : (a \o b)[i] = a[i]
           /\ \A i \in 1..Len(b) : (a \o b)[Len(a) + i] = b[i]
<1>1. /\ a \o b \in Seq(Nat) /\ Len(a \o b) = Len(a) + Len(b)
      /\ \A i \in 1..Len(a) + Len(b) :
            (a \o b)[i] = IF i <= Len(a) THEN a[i] ELSE b[i - Len(a)]
  BY ConcatProperties
<1>2. Len(a) \in Nat /\ Len(b) \in Nat
  OBVIOUS
<1>3. \A i \in 1..Len(a) : (a \o b)[i] = a[i]
  BY <1>1, <1>2
<1>4. ASSUME NEW i \in 1..Len(b) PROVE (a \o b)[Len(a) + i] = b[i]
  <2>1. Len(a) + i \in 1..Len(a) + Len(b) /\ ~(Len(a) + i <= Len(a)) /\ Len(a) + i - Len(a) = i
    BY <1>2
  <2>2. QED
    BY <1>1, <2>1
<1>5. QED
  BY <1>1, <1>3, <1>4

\* A length as two bytes, and back.
LEMMA TwoBytes ==
    ASSUME NEW n \in Nat
    PROVE  /\ n \div Radix \in Nat /\ n % Radix \in 0..(Radix - 1)
           /\ (n \div Radix) * Radix + (n % Radix) = n
<1>1. Radix \in Nat \ {0}
  BY BuildAssumption
<1>2. n \div Radix >= 0 /\ n \div Radix \in Int
  BY <1>1
<1>3. n % Radix \in 0..(Radix - 1)
  BY <1>1
<1>4. (n \div Radix) * Radix + (n % Radix) = n
  BY <1>1
<1>5. QED
  BY <1>2, <1>3, <1>4

LEMMA FromTwoBytes ==
    ASSUME NEW q \in Nat, NEW m \in 0..(Radix - 1)
    PROVE  /\ q * Radix + m \in Nat
           /\ (q * Radix + m) \div Radix = q /\ (q * Radix + m) % Radix = m
<1>1. Radix \in Nat \ {0}
  BY BuildAssumption
<1>2. q * Radix \in Nat
  BY <1>1
<1>3. QED
  BY <1>1, <1>2

\* The layout, byte by byte.
LEMMA Layout ==
    ASSUME NEW id \in Nat, NEW key \in Seq(Nat), Len(key) = KeyLen, NEW s \in Seq(Nat)
    PROVE  /\ Encode(id, key, s) \in Seq(Nat)
           /\ Len(Encode(id, key, s)) = 3 + KeyLen + 2 + Len(s)
           /\ Encode(id, key, s)[1] = id
           /\ Encode(id, key, s)[2] = 0 /\ Encode(id, key, s)[3] = 2
           /\ \A j \in 1..KeyLen : Encode(id, key, s)[3 + j] = key[j]
           /\ Encode(id, key, s)[3 + KeyLen + 1] = Len(s) \div Radix
           /\ Encode(id, key, s)[3 + KeyLen + 2] = Len(s) % Radix
           /\ \A j \in 1..Len(s) : Encode(id, key, s)[3 + KeyLen + 2 + j] = s[j]
<1> DEFINE a == <<id>>
           k == <<0, 2>>
           l == <<Len(s) \div Radix, Len(s) % Radix>>
           ak == a \o k
           akk == ak \o key
           akkl == akk \o l
<1>1. KeyLen \in Nat /\ Len(s) \in Nat
  BY BuildAssumption, LenProperties
<1>2. Len(s) \div Radix \in Nat /\ Len(s) % Radix \in Nat
  <2>1. Len(s) % Radix \in 0..(Radix - 1) /\ Len(s) \div Radix \in Nat
    BY <1>1, TwoBytes
  <2>2. QED
    BY <2>1
<1>3. /\ a \in Seq(Nat) /\ Len(a) = 1 /\ a[1] = id
      /\ k \in Seq(Nat) /\ Len(k) = 2 /\ k[1] = 0 /\ k[2] = 2
  OBVIOUS
<1>4. /\ l \in Seq(Nat) /\ Len(l) = 2 /\ l[1] = Len(s) \div Radix /\ l[2] = Len(s) % Radix
  BY <1>2
<1>5. Encode(id, key, s) = akkl \o s
  BY DEF Encode, Kem
<1> HIDE DEF a, k, l
<1>6. /\ ak \in Seq(Nat) /\ Len(ak) = Len(a) + Len(k)
      /\ \A i \in 1..Len(a) : ak[i] = a[i]
      /\ \A i \in 1..Len(k) : ak[Len(a) + i] = k[i]
  BY <1>3, Joined
<1>7. ak[1] = id /\ ak[2] = 0 /\ ak[3] = 2
  BY <1>3, <1>6
<1> HIDE DEF ak
<1>8. /\ akk \in Seq(Nat) /\ Len(akk) = Len(ak) + Len(key)
      /\ \A i \in 1..Len(ak) : akk[i] = ak[i]
      /\ \A i \in 1..Len(key) : akk[Len(ak) + i] = key[i]
  BY <1>1, <1>6, Joined
<1> HIDE DEF akk
<1>9. /\ akkl \in Seq(Nat) /\ Len(akkl) = Len(akk) + Len(l)
      /\ \A i \in 1..Len(akk) : akkl[i] = akk[i]
      /\ \A i \in 1..Len(l) : akkl[Len(akk) + i] = l[i]
  BY <1>4, <1>8, Joined
<1> HIDE DEF akkl
<1> DEFINE e == akkl \o s
<1>10. /\ e \in Seq(Nat) /\ Len(e) = Len(akkl) + Len(s)
       /\ \A i \in 1..Len(akkl) : e[i] = akkl[i]
       /\ \A i \in 1..Len(s) : e[Len(akkl) + i] = s[i]
  BY <1>9, Joined
<1> HIDE DEF e
<1>. Len(ak) = 3 /\ Len(akk) = 3 + KeyLen /\ Len(akkl) = 3 + KeyLen + 2
  BY <1>1, <1>3, <1>4, <1>6, <1>8, <1>9
<1>11. e[1] = id /\ e[2] = 0 /\ e[3] = 2
  BY <1>1, <1>7, <1>8, <1>9, <1>10
<1>12. ASSUME NEW j \in 1..KeyLen PROVE e[3 + j] = key[j]
  <2>1. 3 + j \in 1..Len(akk) /\ 3 + j \in 1..Len(akkl) /\ j \in 1..Len(key)
    BY <1>1
  <2>2. akk[Len(ak) + j] = key[j]
    BY <1>8, <2>1
  <2>3. akk[3 + j] = key[j]
    BY <2>2
  <2>4. QED
    BY <1>9, <1>10, <2>1, <2>3
<1>13. e[3 + KeyLen + 1] = l[1] /\ e[3 + KeyLen + 2] = l[2]
  <2>1. 1 \in 1..Len(l) /\ 2 \in 1..Len(l)
    BY <1>4
  <2>2. akkl[3 + KeyLen + 1] = l[1] /\ akkl[3 + KeyLen + 2] = l[2]
    <3>1. akkl[Len(akk) + 1] = l[1] /\ akkl[Len(akk) + 2] = l[2]
      BY <1>9, <2>1
    <3>2. QED
      BY <3>1
  <2>3. 3 + KeyLen + 1 \in 1..Len(akkl) /\ 3 + KeyLen + 2 \in 1..Len(akkl)
    BY <1>1
  <2>4. QED
    BY <1>10, <2>2, <2>3
<1>14. Encode(id, key, s) = e
  BY <1>5 DEF e
<1>15. QED
  BY <1>4, <1>10, <1>11, <1>12, <1>13, <1>14

\* What parse and the comparison look at, all of it.
ListComplete == U16(SuitesLenAt) >= 4 /\ Len(raw) >= SuitesAt - 1 + U16(SuitesLenAt)
SuiteInUse   == Field(SuitesAt, 2) = Kdf /\ Field(SuitesAt + 2, 2) = Aead

Accepted ==
    /\ Len(raw) >= MinLen /\ Field(KemAt, 2) = Kem /\ ListComplete /\ SuiteInUse
    /\ Field(KeyAt, KeyLen) = proved

RawBytes == raw \in Seq(0..(Radix - 1))

LEMMA Places ==
    /\ KeyLen \in Nat \ {0} /\ Radix \in Nat \ {0}
    /\ KemAt = 2 /\ KeyAt = 4 /\ SuitesLenAt = KeyLen + 4 /\ SuitesAt = KeyLen + 6
    /\ MinLen = KeyLen + 9
BY BuildAssumption DEF KemAt, KeyAt, SuitesLenAt, SuitesAt, MinLen

LEMMA Bytewise ==
    ASSUME RawBytes
    PROVE  /\ Len(raw) \in Nat
           /\ \A i \in 1..Len(raw) : Byte(i) = raw[i] /\ raw[i] \in 0..(Radix - 1)
           /\ \A i \in Nat : Byte(i) \in Nat
<1>1. Len(raw) \in Nat /\ DOMAIN raw = 1..Len(raw)
  BY LenProperties DEF RawBytes
<1>2. ASSUME NEW i \in 1..Len(raw) PROVE Byte(i) = raw[i] /\ raw[i] \in 0..(Radix - 1)
  BY <1>1, ElementOfSeq DEF RawBytes, Byte
<1>3. ASSUME NEW i \in Nat PROVE Byte(i) \in Nat
  <2>1. CASE i \in 1..Len(raw)
    BY <1>2, <2>1, Places
  <2>2. CASE i \notin 1..Len(raw)
    BY <1>1, <2>2 DEF Byte
  <2>3. QED
    BY <2>1, <2>2
<1>4. QED
  BY <1>1, <1>2, <1>3

\* A field of two bytes.
LEMMA FieldOfTwo ==
    ASSUME NEW i \in Nat, NEW x \in Nat, NEW y \in Nat
    PROVE  Field(i, 2) = <<x, y>> <=> Byte(i) = x /\ Byte(i + 1) = y
<1>1. Field(i, 2)[1] = Byte(i) /\ Field(i, 2)[2] = Byte(i + 1)
  BY DEF Field
<1>2. ASSUME Byte(i) = x, Byte(i + 1) = y PROVE Field(i, 2) = <<x, y>>
  <2>1. Field(i, 2) = [j \in 1..2 |-> Byte(i + j - 1)]
    BY DEF Field
  <2>2. \A j \in 1..2 : Field(i, 2)[j] \in Nat
    BY <1>1, <1>2
  <2>3. Field(i, 2) \in Seq(Nat) /\ Len(Field(i, 2)) = 2
    <3>1. \A j \in 1..2 : Byte(i + j - 1) \in Nat
      <4>1. ASSUME NEW j \in 1..2 PROVE Byte(i + j - 1) = Field(i, 2)[j]
        BY <2>1
      <4>2. QED
        BY <2>2, <4>1
    <3>2. [j \in 1..2 |-> Byte(i + j - 1)] \in [1..2 -> Nat]
      BY <3>1
    <3>3. 2 \in Nat /\ Field(i, 2) \in [1..2 -> Nat]
      BY <2>1, <3>2
    <3>4. QED
      BY <3>3, SeqOf
  <2>4. <<x, y>> \in Seq(Nat) /\ Len(<<x, y>>) = 2
    OBVIOUS
  <2>5. \A j \in 1..2 : Field(i, 2)[j] = <<x, y>>[j]
    BY <1>1, <1>2
  <2>6. QED
    BY <2>3, <2>4, <2>5, SeqEqual
<1>3. ASSUME Field(i, 2) = <<x, y>> PROVE Byte(i) = x /\ Byte(i + 1) = y
  BY <1>1, <1>3
<1>4. QED
  BY <1>2, <1>3

\* The bytes of a configuration that say something, but for the length of its list.
BytesAgree ==
    /\ raw[2] = 0 /\ raw[3] = 2
    /\ \A j \in 1..KeyLen : raw[3 + j] = proved[j]
    /\ raw[KeyLen + 6] = 0 /\ raw[KeyLen + 7] = 1 /\ raw[KeyLen + 8] = 0 /\ raw[KeyLen + 9] = 2

LEMMA AcceptedBytes ==
    ASSUME RawBytes, proved \in Keys, Len(raw) >= MinLen
    PROVE  /\ Field(KemAt, 2) = Kem <=> raw[2] = 0 /\ raw[3] = 2
           /\ SuiteInUse <=> /\ raw[KeyLen + 6] = 0 /\ raw[KeyLen + 7] = 1
                             /\ raw[KeyLen + 8] = 0 /\ raw[KeyLen + 9] = 2
           /\ Field(KeyAt, KeyLen) = proved <=> \A j \in 1..KeyLen : raw[3 + j] = proved[j]
           /\ U16(SuitesLenAt) = raw[KeyLen + 4] * Radix + raw[KeyLen + 5]
<1>1. /\ Len(raw) \in Nat /\ Len(raw) >= KeyLen + 9 /\ KeyLen \in Nat /\ Radix \in Nat
      /\ \A i \in 1..Len(raw) : Byte(i) = raw[i]
  BY Bytewise, Places
<1>2. \A i \in 1..(KeyLen + 9) : Byte(i) = raw[i]
  BY <1>1
<1>3. Field(KemAt, 2) = Kem <=> raw[2] = 0 /\ raw[3] = 2
  <2>1. Field(2, 2) = <<0, 2>> <=> Byte(2) = 0 /\ Byte(2 + 1) = 2
    BY FieldOfTwo
  <2>2. Byte(2) = raw[2] /\ Byte(2 + 1) = raw[3]
    BY <1>1, <1>2
  <2>3. QED
    BY <2>1, <2>2, Places DEF Kem
<1>4. SuiteInUse <=> /\ raw[KeyLen + 6] = 0 /\ raw[KeyLen + 7] = 1
                     /\ raw[KeyLen + 8] = 0 /\ raw[KeyLen + 9] = 2
  <2>1. KeyLen + 6 \in Nat /\ KeyLen + 8 \in Nat
    BY <1>1
  <2>2. Field(KeyLen + 6, 2) = <<0, 1>> <=> Byte(KeyLen + 6) = 0 /\ Byte(KeyLen + 6 + 1) = 1
    BY <2>1, FieldOfTwo
  <2>3. Field(KeyLen + 8, 2) = <<0, 2>> <=> Byte(KeyLen + 8) = 0 /\ Byte(KeyLen + 8 + 1) = 2
    BY <2>1, FieldOfTwo
  <2>4. /\ Byte(KeyLen + 6) = raw[KeyLen + 6] /\ Byte(KeyLen + 6 + 1) = raw[KeyLen + 7]
        /\ Byte(KeyLen + 8) = raw[KeyLen + 8] /\ Byte(KeyLen + 8 + 1) = raw[KeyLen + 9]
    BY <1>1, <1>2
  <2>5. SuitesAt = KeyLen + 6 /\ SuitesAt + 2 = KeyLen + 8
    BY <1>1, Places
  <2>6. QED
    BY <2>2, <2>3, <2>4, <2>5 DEF SuiteInUse, Kdf, Aead
<1>5. Field(KeyAt, KeyLen) = proved <=> \A j \in 1..KeyLen : raw[3 + j] = proved[j]
  <2>1. Field(KeyAt, KeyLen) = [j \in 1..KeyLen |-> Byte(4 + j - 1)]
    BY Places DEF Field
  <2>2. \A j \in 1..KeyLen : 3 + j \in 1..(KeyLen + 9) /\ 4 + j - 1 = 3 + j
    BY <1>1
  <2>3. \A j \in 1..KeyLen : Byte(4 + j - 1) = raw[3 + j]
    BY <1>2, <2>2
  <2>4. proved \in [1..KeyLen -> 0..(Radix - 1)]
    BY BuildAssumption
  <2>5. QED
    BY <2>1, <2>3, <2>4
<1>6. U16(SuitesLenAt) = raw[KeyLen + 4] * Radix + raw[KeyLen + 5]
  <2>1. Byte(KeyLen + 4) = raw[KeyLen + 4] /\ Byte(KeyLen + 4 + 1) = raw[KeyLen + 5]
    BY <1>1, <1>2
  <2>2. QED
    BY <2>1, Places DEF U16
<1>7. QED
  BY <1>3, <1>4, <1>5, <1>6

LEMMA SuiteIds ==
    ASSUME NEW s \in Seq(Nat), Len(s) = 4
    PROVE  s = Kdf \o Aead <=> s[1] = 0 /\ s[2] = 1 /\ s[3] = 0 /\ s[4] = 2
<1> DEFINE d == <<0, 1>>
           a == <<0, 2>>
<1>1. /\ d \in Seq(Nat) /\ Len(d) = 2 /\ d[1] = 0 /\ d[2] = 1
      /\ a \in Seq(Nat) /\ Len(a) = 2 /\ a[1] = 0 /\ a[2] = 2
  OBVIOUS
<1>2. Kdf \o Aead = d \o a
  BY DEF Kdf, Aead
<1> HIDE DEF d, a
<1> DEFINE k == d \o a
<1>3. /\ k \in Seq(Nat) /\ Len(k) = Len(d) + Len(a)
      /\ \A i \in 1..Len(d) : k[i] = d[i]
      /\ \A i \in 1..Len(a) : k[Len(d) + i] = a[i]
  BY <1>1, Joined
<1> HIDE DEF k
<1>4. 1 \in 1..Len(d) /\ 2 \in 1..Len(d) /\ 1 \in 1..Len(a) /\ 2 \in 1..Len(a)
  BY <1>1
<1>5. k[1] = 0 /\ k[2] = 1 /\ k[Len(d) + 1] = 0 /\ k[Len(d) + 2] = 2
  BY <1>1, <1>3, <1>4
<1>6. k \in Seq(Nat) /\ Len(k) = 4 /\ k[1] = 0 /\ k[2] = 1 /\ k[3] = 0 /\ k[4] = 2
  BY <1>1, <1>3, <1>5
<1>7. ASSUME s[1] = 0, s[2] = 1, s[3] = 0, s[4] = 2 PROVE s = k
  <2>1. \A i \in 1..4 : s[i] = k[i]
    BY <1>6, <1>7
  <2>2. Len(s) = Len(k) /\ \A i \in 1..Len(s) : s[i] = k[i]
    BY <1>6, <2>1
  <2>3. QED
    BY <1>6, <2>2, SeqEqual
<1>8. QED
  BY <1>2, <1>6, <1>7 DEF k

\* A configuration published with a list of n bytes.
PublishedAt(n) ==
    /\ SubSeq(SubSeq(raw, SuitesAt, SuitesAt - 1 + n), 1, 4) = Kdf \o Aead
    /\ SubSeq(raw, 1, SuitesAt - 1 + n)
         = Encode(raw[1], proved, SubSeq(raw, SuitesAt, SuitesAt - 1 + n))

LEMMA PublishedBytes ==
    ASSUME RawBytes, proved \in Keys, NEW n \in 4..(Len(raw) + 1 - SuitesAt)
    PROVE  PublishedAt(n) <=>
               BytesAgree /\ raw[KeyLen + 4] = n \div Radix /\ raw[KeyLen + 5] = n % Radix
<1> DEFINE s == SubSeq(raw, KeyLen + 6, KeyLen + 5 + n)
           t == SubSeq(s, 1, 4)
           h == SubSeq(raw, 1, KeyLen + 5 + n)
           e == Encode(raw[1], proved, s)
<1>1. /\ KeyLen \in Nat \ {0} /\ Radix \in Nat \ {0} /\ n \in Nat /\ n >= 4
      /\ Len(raw) \in Nat /\ KeyLen + 5 + n <= Len(raw)
      /\ \A i \in 1..Len(raw) : raw[i] \in Nat
  <2>1. Len(raw) \in Nat /\ \A i \in 1..Len(raw) : raw[i] \in 0..(Radix - 1)
    BY Bytewise
  <2>2. QED
    BY <2>1, Places
<1>2. /\ s \in Seq(Nat) /\ Len(s) = n
      /\ \A i \in 1..n : s[i] = raw[KeyLen + 5 + i]
  <2>1. KeyLen + 6 \in Int /\ KeyLen + 5 + n \in Int
        /\ \A i \in (KeyLen + 6)..(KeyLen + 5 + n) : raw[i] \in Nat
    BY <1>1
  <2> DEFINE from == KeyLen + 6
             upTo == KeyLen + 5 + n
  <2>3. upTo - from + 1 = n /\ from <= upTo /\ \A i \in 1..n : from + i - 1 = KeyLen + 5 + i
    BY <1>1
  <2> HIDE DEF from, upTo
  <2>2. /\ SubSeq(raw, from, upTo) \in Seq(Nat)
        /\ Len(SubSeq(raw, from, upTo)) = IF from <= upTo THEN upTo - from + 1 ELSE 0
        /\ \A i \in 1..(upTo - from + 1) : SubSeq(raw, from, upTo)[i] = raw[from + i - 1]
    BY <2>1, SubSeqProperties DEF from, upTo
  <2>4. s = SubSeq(raw, from, upTo)
    BY DEF from, upTo
  <2> HIDE DEF s
  <2>5. QED
    BY <2>2, <2>3, <2>4
<1>3. /\ h \in Seq(Nat) /\ Len(h) = KeyLen + 5 + n
      /\ \A i \in 1..(KeyLen + 5 + n) : h[i] = raw[i]
  <2>1. 1 \in Int /\ KeyLen + 5 + n \in Int /\ \A i \in 1..(KeyLen + 5 + n) : raw[i] \in Nat
    BY <1>1
  <2> DEFINE upTo == KeyLen + 5 + n
  <2>3. upTo - 1 + 1 = upTo /\ 1 <= upTo /\ \A i \in 1..upTo : 1 + i - 1 = i
    BY <1>1
  <2> HIDE DEF upTo
  <2>2. /\ SubSeq(raw, 1, upTo) \in Seq(Nat)
        /\ Len(SubSeq(raw, 1, upTo)) = IF 1 <= upTo THEN upTo - 1 + 1 ELSE 0
        /\ \A i \in 1..(upTo - 1 + 1) : SubSeq(raw, 1, upTo)[i] = raw[1 + i - 1]
    BY <2>1, SubSeqProperties DEF upTo
  <2>4. h = SubSeq(raw, 1, upTo) /\ upTo = KeyLen + 5 + n
    BY DEF upTo
  <2> HIDE DEF h
  <2>5. QED
    BY <2>2, <2>3, <2>4
<1> HIDE DEF s, h
<1>4. /\ t \in Seq(Nat) /\ Len(t) = 4
      /\ t[1] = s[1] /\ t[2] = s[2] /\ t[3] = s[3] /\ t[4] = s[4]
  <2>1. 1 \in Int /\ 4 \in Int /\ \A i \in 1..4 : s[i] \in Nat
    BY <1>1, <1>2, ElementOfSeq
  <2>2. /\ t \in Seq(Nat) /\ Len(t) = IF 1 <= 4 THEN 4 - 1 + 1 ELSE 0
        /\ \A i \in 1..(4 - 1 + 1) : t[i] = s[1 + i - 1]
    BY <2>1, SubSeqProperties
  <2> HIDE DEF t
  <2>3. QED
    BY <2>2
<1> HIDE DEF t
<1>5. t = Kdf \o Aead <=> /\ raw[KeyLen + 6] = 0 /\ raw[KeyLen + 7] = 1
                           /\ raw[KeyLen + 8] = 0 /\ raw[KeyLen + 9] = 2
  <2>1. /\ s[1] = raw[KeyLen + 5 + 1] /\ s[2] = raw[KeyLen + 5 + 2]
        /\ s[3] = raw[KeyLen + 5 + 3] /\ s[4] = raw[KeyLen + 5 + 4]
    <3>1. 1 \in 1..n /\ 2 \in 1..n /\ 3 \in 1..n /\ 4 \in 1..n
      BY <1>1
    <3>2. QED
      BY <1>2, <3>1
  <2>2. /\ KeyLen + 5 + 1 = KeyLen + 6 /\ KeyLen + 5 + 2 = KeyLen + 7
        /\ KeyLen + 5 + 3 = KeyLen + 8 /\ KeyLen + 5 + 4 = KeyLen + 9
    BY <1>1
  <2>3. t = Kdf \o Aead <=> t[1] = 0 /\ t[2] = 1 /\ t[3] = 0 /\ t[4] = 2
    BY <1>4, SuiteIds
  <2>4. QED
    BY <1>4, <2>1, <2>2, <2>3
<1>6. /\ e \in Seq(Nat) /\ Len(e) = 3 + KeyLen + 2 + n
      /\ e[1] = raw[1] /\ e[2] = 0 /\ e[3] = 2
      /\ \A j \in 1..KeyLen : e[3 + j] = proved[j]
      /\ e[3 + KeyLen + 1] = n \div Radix /\ e[3 + KeyLen + 2] = n % Radix
      /\ \A j \in 1..n : e[3 + KeyLen + 2 + j] = s[j]
  <2>1. raw[1] \in Nat
    BY <1>1
  <2>2. proved \in [1..KeyLen -> Nat]
    <3>1. proved \in [1..KeyLen -> 0..(Radix - 1)]
      BY BuildAssumption
    <3>2. QED
      BY <1>1, <3>1
  <2>3. proved \in Seq(Nat) /\ Len(proved) = KeyLen
    BY <1>1, <2>2, SeqOf
  <2>4. ASSUME NEW id \in Nat, id = raw[1], NEW l \in Seq(Nat), l = s, Len(l) = n
        PROVE  /\ Encode(id, proved, l) \in Seq(Nat)
               /\ Len(Encode(id, proved, l)) = 3 + KeyLen + 2 + Len(l)
               /\ Encode(id, proved, l)[1] = id
               /\ Encode(id, proved, l)[2] = 0 /\ Encode(id, proved, l)[3] = 2
               /\ \A j \in 1..KeyLen : Encode(id, proved, l)[3 + j] = proved[j]
               /\ Encode(id, proved, l)[3 + KeyLen + 1] = Len(l) \div Radix
               /\ Encode(id, proved, l)[3 + KeyLen + 2] = Len(l) % Radix
               /\ \A j \in 1..Len(l) : Encode(id, proved, l)[3 + KeyLen + 2 + j] = l[j]
    BY <2>3, Layout
  <2>5. QED
    BY <1>2, <2>1, <2>4
<1> HIDE DEF e
<1>7. h = e <=> /\ raw[2] = 0 /\ raw[3] = 2 /\ \A j \in 1..KeyLen : raw[3 + j] = proved[j]
                /\ raw[KeyLen + 4] = n \div Radix /\ raw[KeyLen + 5] = n % Radix
  <2>1. /\ 3 + KeyLen + 1 = KeyLen + 4 /\ 3 + KeyLen + 2 = KeyLen + 5
        /\ Len(e) = KeyLen + 5 + n /\ \A j \in 1..n : e[KeyLen + 5 + j] = s[j]
        /\ e[KeyLen + 4] = n \div Radix /\ e[KeyLen + 5] = n % Radix
    BY <1>1, <1>6
  <2>2. ASSUME h = e
        PROVE  /\ raw[2] = 0 /\ raw[3] = 2 /\ \A j \in 1..KeyLen : raw[3 + j] = proved[j]
               /\ raw[KeyLen + 4] = n \div Radix /\ raw[KeyLen + 5] = n % Radix
    <3>1. \A i \in 1..(KeyLen + 5 + n) : e[i] = raw[i]
      BY <1>3, <2>2
    <3>2. /\ 2 \in 1..(KeyLen + 5 + n) /\ 3 \in 1..(KeyLen + 5 + n)
          /\ KeyLen + 4 \in 1..(KeyLen + 5 + n) /\ KeyLen + 5 \in 1..(KeyLen + 5 + n)
          /\ \A j \in 1..KeyLen : 3 + j \in 1..(KeyLen + 5 + n)
      BY <1>1
    <3>3. QED
      BY <1>6, <2>1, <3>1, <3>2
  <2>3. ASSUME raw[2] = 0, raw[3] = 2, \A j \in 1..KeyLen : raw[3 + j] = proved[j],
               raw[KeyLen + 4] = n \div Radix, raw[KeyLen + 5] = n % Radix
        PROVE  h = e
    <3>1. ASSUME NEW i \in 1..(KeyLen + 5 + n) PROVE h[i] = e[i]
      <4>1. h[i] = raw[i] /\ i \in Nat /\ i >= 1 /\ i <= KeyLen + 5 + n
        BY <1>3, <1>1
      <4>2. CASE i <= 3
        <5>1. i = 1 \/ i = 2 \/ i = 3
          BY <4>1, <4>2
        <5>2. QED
          BY <1>6, <2>3, <4>1, <5>1
      <4>3. CASE i > 3 /\ i <= KeyLen + 3
        <5>1. i - 3 \in 1..KeyLen /\ 3 + (i - 3) = i
          BY <1>1, <4>1, <4>3
        <5>2. QED
          BY <1>6, <2>3, <4>1, <5>1
      <4>4. CASE i = KeyLen + 4 \/ i = KeyLen + 5
        BY <2>1, <2>3, <4>1, <4>4
      <4>5. CASE i > KeyLen + 5
        <5>1. i - (KeyLen + 5) \in 1..n /\ KeyLen + 5 + (i - (KeyLen + 5)) = i
          BY <1>1, <4>1, <4>5
        <5>2. QED
          BY <1>2, <2>1, <4>1, <5>1
      <4>6. QED
        BY <1>1, <4>1, <4>2, <4>3, <4>4, <4>5
    <3>2. Len(h) = Len(e) /\ \A i \in 1..Len(h) : h[i] = e[i]
      BY <1>3, <2>1, <3>1
    <3>3. QED
      BY <1>3, <1>6, <3>2, SeqEqual
  <2>4. QED
    BY <2>2, <2>3
<1>8. PublishedAt(n) <=> t = Kdf \o Aead /\ h = e
  <2>1. SuitesAt = KeyLen + 6 /\ SuitesAt - 1 + n = KeyLen + 5 + n
    BY <1>1, Places
  <2>2. QED
    BY <2>1 DEF PublishedAt, s, t, h, e
<1>9. QED
  BY <1>5, <1>7, <1>8 DEF BytesAgree

\* parse and the comparison accept what the endpoint could have published for the
\* key that was proved, and nothing else.
LEMMA PublishesIffAccepted ==
    ASSUME RawBytes, proved \in Keys PROVE Publishes(raw, proved) <=> Accepted
<1> DEFINE u == raw[KeyLen + 4] * Radix + raw[KeyLen + 5]
<1>1. /\ KeyLen \in Nat \ {0} /\ Radix \in Nat \ {0} /\ Len(raw) \in Nat
      /\ SuitesAt = KeyLen + 6 /\ MinLen = KeyLen + 9
  BY Bytewise, Places
<1>2. Publishes(raw, proved) <=> \E n \in 4..(Len(raw) + 1 - SuitesAt) : PublishedAt(n)
  BY DEF Publishes, PublishedAt
<1>3. ASSUME Len(raw) >= MinLen
      PROVE  Accepted <=> BytesAgree /\ u >= 4 /\ Len(raw) >= KeyLen + 5 + u
  <2>1. U16(SuitesLenAt) = u /\ SuitesAt - 1 + u = KeyLen + 5 + u
    <3>1. u \in Nat
      <4>1. KeyLen + 4 \in 1..Len(raw) /\ KeyLen + 5 \in 1..Len(raw)
        BY <1>1, <1>3
      <4>2. raw[KeyLen + 4] \in Nat /\ raw[KeyLen + 5] \in Nat
        <5>1. \A i \in 1..Len(raw) : raw[i] \in Nat
          <6>1. \A i \in 1..Len(raw) : raw[i] \in 0..(Radix - 1)
            BY Bytewise
          <6>2. QED
            BY <1>1, <6>1
        <5>2. QED
          BY <4>1, <5>1
      <4>3. QED
        BY <1>1, <4>2
    <3>2. U16(SuitesLenAt) = u
      BY <1>3, AcceptedBytes
    <3>3. QED
      BY <1>1, <3>1, <3>2
  <2>2. QED
    BY <1>3, <2>1, AcceptedBytes DEF Accepted, BytesAgree, ListComplete
<1>4. ASSUME NEW n \in 4..(Len(raw) + 1 - SuitesAt), PublishedAt(n) PROVE Accepted
  <2>1. BytesAgree /\ raw[KeyLen + 4] = n \div Radix /\ raw[KeyLen + 5] = n % Radix
    BY <1>4, PublishedBytes
  <2>2. n \in Nat /\ n >= 4 /\ Len(raw) >= KeyLen + 5 + n /\ Len(raw) >= MinLen
    BY <1>1
  <2>3. u = n
    BY <2>1, <2>2, TwoBytes
  <2>4. QED
    BY <1>3, <2>1, <2>2, <2>3
<1>5. ASSUME Accepted PROVE \E n \in 4..(Len(raw) + 1 - SuitesAt) : PublishedAt(n)
  <2>1. Len(raw) >= MinLen
    BY <1>5 DEF Accepted
  <2>2. BytesAgree /\ u >= 4 /\ Len(raw) >= KeyLen + 5 + u
    BY <1>3, <1>5, <2>1
  <2>3. raw[KeyLen + 4] \in Nat /\ raw[KeyLen + 5] \in 0..(Radix - 1)
    <3>1. KeyLen + 4 \in 1..Len(raw) /\ KeyLen + 5 \in 1..Len(raw)
      BY <1>1, <2>1
    <3>2. \A i \in 1..Len(raw) : raw[i] \in 0..(Radix - 1)
      BY Bytewise
    <3>3. raw[KeyLen + 4] \in 0..(Radix - 1) /\ raw[KeyLen + 5] \in 0..(Radix - 1)
      BY <3>1, <3>2
    <3>4. QED
      BY <1>1, <3>3
  <2>4. u \in Nat /\ u \div Radix = raw[KeyLen + 4] /\ u % Radix = raw[KeyLen + 5]
    BY <2>3, FromTwoBytes
  <2>5. u \in 4..(Len(raw) + 1 - SuitesAt)
    BY <1>1, <2>2, <2>4
  <2>6. PublishedAt(u)
    BY <2>2, <2>4, <2>5, PublishedBytes
  <2>7. QED
    BY <2>5, <2>6
<1>6. QED
  BY <1>2, <1>4, <1>5

-----------------------------------------------------------------------------
(* ClientBuild: the steps of build. *)

\* What has been checked by the time a stage is reached.
BuildInv ==
    /\ stage \in Errs \cup {"configure", "fetch", "length", "kem", "suites", "suite",
                            "compare", "built"}
    /\ RawBytes /\ reach \in Nat /\ reach <= Len(raw)
    /\ stage \in {"configure", "fetch"} => raw = <<>>
    /\ stage \notin {"configure"} \cup Errs => proved \in Keys
    /\ raw # <<>> => proved \in Keys
    /\ stage \in {"kem", "suites", "suite", "compare"} => Len(raw) >= MinLen
    /\ stage \in {"suites", "suite", "compare"} => Field(KemAt, 2) = Kem
    /\ stage \in {"suite", "compare"} => ListComplete
    /\ stage = "compare" => SuiteInUse
    /\ stage = "built" => bound = proved

LEMMA BuildInit == ASSUME Init PROVE BuildInv
<1>1. <<>> \in Seq(0..(Radix - 1)) /\ Len(<<>>) = 0
  BY EmptySeq
<1>2. QED
  BY <1>1 DEF Init, BuildInv, RawBytes, Errs

\* raw keeps what was checked about it.
LEMMA BuildSame ==
    ASSUME UNCHANGED <<raw, proved>>
    PROVE  /\ (RawBytes' <=> RawBytes) /\ (ListComplete' <=> ListComplete)
           /\ (SuiteInUse' <=> SuiteInUse)
           /\ ((Field(KemAt, 2) = Kem)' <=> Field(KemAt, 2) = Kem)
           /\ MinLen' = MinLen
BY DEF RawBytes, ListComplete, SuiteInUse, Field, Byte, U16, KemAt, KeyAt, SuitesLenAt,
       SuitesAt, MinLen, Kem, Kdf, Aead

LEMMA BuildStutter == ASSUME BuildInv, UNCHANGED vars PROVE BuildInv'
<1>1. UNCHANGED <<stage, proved, raw, reach, bound>>
  BY DEF vars
<1>2. QED
  BY <1>1, BuildSame DEF BuildInv, Errs

LEMMA ReadsOn ==
    ASSUME BuildInv, NEW to, NEW upTo \in Nat, Proceed(to, upTo), upTo <= Len(raw)
    PROVE  /\ stage' = to /\ UNCHANGED <<proved, raw, bound>>
           /\ reach' \in Nat /\ reach' <= Len(raw')
BY DEF BuildInv, Proceed

\* A check that is passed adds its part, one that fails refuses what nobody published.
LEMMA ReadStep ==
    ASSUME BuildInv,
           CheckLength \/ CheckKem \/ CheckSuitesLen \/ CheckSuite
    PROVE  BuildInv' /\ StepIsRight
<1>1. RawBytes /\ proved \in Keys /\ reach \in Nat /\ Len(raw) \in Nat
  <2>1. RawBytes /\ proved \in Keys /\ reach \in Nat
    BY DEF BuildInv, CheckLength, CheckKem, CheckSuitesLen, CheckSuite, Errs
  <2>2. QED
    BY <2>1, Bytewise
<1>2. Publishes(raw, proved) <=> Accepted
  BY <1>1, PublishesIffAccepted
<1>3. CASE CheckLength
  <2>1. /\ stage = "length" /\ 0 \in Nat /\ 0 <= Len(raw)
        /\ Proceed(IF Len(raw) < MinLen THEN "Ehbp" ELSE "kem", 0)
    BY <1>1, <1>3 DEF CheckLength
  <2>2. /\ stage' = (IF Len(raw) < MinLen THEN "Ehbp" ELSE "kem")
        /\ UNCHANGED <<proved, raw, bound>> /\ reach' \in Nat /\ reach' <= Len(raw')
    BY <2>1, ReadsOn
  <2>3. Len(raw) < MinLen <=> ~(Len(raw) >= MinLen)
    BY <1>1, Places
  <2>4. BuildInv'
    BY <1>1, <2>2, <2>3, BuildSame DEF BuildInv, Errs
  <2>5. stage' # "built" /\ (stage' \in {"Ehbp", "Attestation"} => ~Accepted)
    BY <2>2, <2>3 DEF Accepted
  <2>6. QED
    BY <1>2, <2>2, <2>4, <2>5 DEF StepIsRight
<1>4. CASE CheckKem
  <2>1. /\ stage = "kem" /\ Len(raw) >= MinLen
        /\ Proceed(IF Field(KemAt, 2) # Kem THEN "Ehbp" ELSE "suites", KemAt + 1)
    BY <1>4 DEF CheckKem, BuildInv
  <2>2. KemAt + 1 \in Nat /\ KemAt + 1 <= Len(raw)
    BY <1>1, <2>1, Places
  <2>3. /\ stage' = (IF Field(KemAt, 2) # Kem THEN "Ehbp" ELSE "suites")
        /\ UNCHANGED <<proved, raw, bound>> /\ reach' \in Nat /\ reach' <= Len(raw')
    BY <2>1, <2>2, ReadsOn
  <2>4. BuildInv'
    BY <1>1, <2>1, <2>3, BuildSame DEF BuildInv, Errs
  <2>5. stage' # "built" /\ (stage' \in {"Ehbp", "Attestation"} => ~Accepted)
    BY <2>3 DEF Accepted
  <2>6. QED
    BY <1>2, <2>3, <2>4, <2>5 DEF StepIsRight
<1>5. CASE CheckSuitesLen
  <2> DEFINE short == U16(SuitesLenAt) < 4 \/ Len(raw) < SuitesAt - 1 + U16(SuitesLenAt)
  <2>1. /\ stage = "suites" /\ Len(raw) >= MinLen /\ Field(KemAt, 2) = Kem
        /\ Proceed(IF short THEN "Ehbp" ELSE "suite", SuitesLenAt + 1)
    BY <1>5 DEF CheckSuitesLen, BuildInv
  <2>2. SuitesLenAt + 1 \in Nat /\ SuitesLenAt + 1 <= Len(raw)
    BY <1>1, <2>1, Places
  <2>3. short <=> ~ListComplete
    <3>1. Byte(KeyLen + 4) \in Nat /\ Byte(KeyLen + 4 + 1) \in Nat
      <4>1. KeyLen + 4 \in Nat /\ KeyLen + 4 + 1 \in Nat
        BY Places
      <4>2. QED
        BY <1>1, <4>1, Bytewise
    <3>2. U16(SuitesLenAt) \in Nat
      BY <3>1, Places DEF U16
    <3>3. SuitesAt - 1 + U16(SuitesLenAt) \in Nat
      BY <3>2, Places
    <3>4. QED
      BY <1>1, <3>2, <3>3 DEF ListComplete
  <2> HIDE DEF short
  <2>4. /\ stage' = (IF short THEN "Ehbp" ELSE "suite")
        /\ UNCHANGED <<proved, raw, bound>> /\ reach' \in Nat /\ reach' <= Len(raw')
    BY <2>1, <2>2, ReadsOn
  <2>5. BuildInv'
    BY <1>1, <2>1, <2>3, <2>4, BuildSame DEF BuildInv, Errs
  <2>6. stage' # "built" /\ (stage' \in {"Ehbp", "Attestation"} => ~Accepted)
    BY <2>3, <2>4 DEF Accepted
  <2>7. QED
    BY <1>2, <2>4, <2>5, <2>6 DEF StepIsRight
<1>6. CASE CheckSuite
  <2> DEFINE other == Field(SuitesAt, 2) # Kdf \/ Field(SuitesAt + 2, 2) # Aead
  <2>1. /\ stage = "suite" /\ Len(raw) >= MinLen /\ Field(KemAt, 2) = Kem /\ ListComplete
        /\ Proceed(IF other THEN "Ehbp" ELSE "compare", SuitesAt + 3)
    BY <1>6 DEF CheckSuite, BuildInv
  <2>2. SuitesAt + 3 \in Nat /\ SuitesAt + 3 <= Len(raw)
    BY <1>1, <2>1, Places
  <2>3. other <=> ~SuiteInUse
    BY DEF SuiteInUse
  <2> HIDE DEF other
  <2>4. /\ stage' = (IF other THEN "Ehbp" ELSE "compare")
        /\ UNCHANGED <<proved, raw, bound>> /\ reach' \in Nat /\ reach' <= Len(raw')
    BY <2>1, <2>2, ReadsOn
  <2>5. BuildInv'
    BY <1>1, <2>1, <2>3, <2>4, BuildSame DEF BuildInv, Errs
  <2>6. stage' # "built" /\ (stage' \in {"Ehbp", "Attestation"} => ~Accepted)
    BY <2>3, <2>4 DEF Accepted
  <2>7. QED
    BY <1>2, <2>4, <2>5, <2>6 DEF StepIsRight
<1>7. QED
  BY <1>3, <1>4, <1>5, <1>6

\* The comparison decides about what has passed every other check.
LEMMA CompareStep == ASSUME BuildInv, Compare PROVE BuildInv' /\ StepIsRight
<1>1. /\ RawBytes /\ proved \in Keys /\ reach \in Nat /\ Len(raw) \in Nat /\ stage = "compare"
      /\ Len(raw) >= MinLen /\ Field(KemAt, 2) = Kem /\ ListComplete /\ SuiteInUse
  <2>1. /\ RawBytes /\ proved \in Keys /\ reach \in Nat /\ stage = "compare"
        /\ Len(raw) >= MinLen /\ Field(KemAt, 2) = Kem /\ ListComplete /\ SuiteInUse
    BY DEF BuildInv, Compare, Errs
  <2>2. QED
    BY <2>1, Bytewise
<1>2. Publishes(raw, proved) <=> Field(KeyAt, KeyLen) = proved
  BY <1>1, PublishesIffAccepted DEF Accepted
<1>3. CASE Field(KeyAt, KeyLen) = proved
  <2>1. Built(proved)
    BY <1>3 DEF Compare
  <2>2. <<>> \in Seq(0..(Radix - 1)) /\ Len(<<>>) = 0
    BY EmptySeq
  <2>3. /\ stage' = "built" /\ bound' = proved /\ raw' = <<>> /\ reach' = 0 /\ proved' = proved
    BY <2>1 DEF Built
  <2>4. BuildInv'
    BY <1>1, <2>2, <2>3 DEF BuildInv, RawBytes, Errs
  <2>5. QED
    BY <1>2, <1>3, <2>2, <2>3, <2>4 DEF StepIsRight
<1>4. CASE Field(KeyAt, KeyLen) # proved
  <2>1. Proceed("Attestation", KeyAt + KeyLen - 1)
    BY <1>4 DEF Compare
  <2>2. KeyAt + KeyLen - 1 \in Nat /\ KeyAt + KeyLen - 1 <= Len(raw)
    BY <1>1, Places
  <2>3. /\ stage' = "Attestation" /\ UNCHANGED <<proved, raw, bound>>
        /\ reach' \in Nat /\ reach' <= Len(raw')
    BY <2>1, <2>2, ReadsOn
  <2>4. BuildInv'
    BY <1>1, <2>3, BuildSame DEF BuildInv, Errs
  <2>5. QED
    BY <1>2, <1>4, <2>3, <2>4 DEF StepIsRight
<1>5. QED
  BY <1>3, <1>4

\* Before a configuration has arrived there is nothing to take apart.
LEMMA FetchStep ==
    ASSUME BuildInv, Unconfigured \/ AttestOk \/ AttestFails \/ Fetch \/ FetchFails
    PROVE  BuildInv' /\ StepIsRight
<1>1. RawBytes /\ raw = <<>> /\ Len(raw) = 0 /\ reach = 0 /\ Len(<<>>) = 0
  <2>1. RawBytes /\ raw = <<>> /\ reach \in Nat /\ reach <= Len(raw)
    BY DEF BuildInv, Unconfigured, AttestOk, AttestFails, Fetch, FetchFails
  <2>2. Len(<<>>) = 0
    BY EmptySeq
  <2>3. QED
    BY <2>1, <2>2
<1>2. CASE Unconfigured \/ AttestFails \/ FetchFails
  <2>1. PICK e \in Errs : Proceed(e, 0)
    BY <1>2 DEF Unconfigured, AttestFails, FetchFails, Errs
  <2>2. stage' = e /\ UNCHANGED <<proved, raw, bound>> /\ reach' = 0
    BY <1>1, <2>1 DEF Proceed
  <2>3. BuildInv'
    BY <1>1, <2>2, BuildSame DEF BuildInv, Errs
  <2>4. QED
    BY <1>1, <2>2, <2>3 DEF StepIsRight, Errs
<1>3. CASE AttestOk
  <2>1. stage' = "fetch" /\ proved' \in Keys /\ UNCHANGED <<raw, reach, bound>>
    BY <1>3 DEF AttestOk
  <2>2. BuildInv'
    BY <1>1, <2>1 DEF BuildInv, RawBytes, Errs
  <2>3. QED
    BY <1>1, <2>1, <2>2 DEF StepIsRight
<1>4. CASE Fetch
  <2>1. stage' = "length" /\ raw' \in Raws /\ UNCHANGED <<proved, reach, bound>> /\ stage = "fetch"
    BY <1>4 DEF Fetch
  <2>2. raw' \in Seq(0..(Radix - 1)) /\ Len(raw') \in Nat
    BY <2>1, BuildAssumption
  <2>3. proved \in Keys
    BY <2>1 DEF BuildInv, Errs
  <2>4. BuildInv'
    BY <1>1, <2>1, <2>2, <2>3 DEF BuildInv, RawBytes, Errs
  <2>5. QED
    BY <1>1, <2>1, <2>2, <2>4 DEF StepIsRight
<1>5. QED
  BY <1>2, <1>3, <1>4

LEMMA BuildStep ==
    ASSUME BuildInv, Next PROVE BuildInv' /\ (StepIsRight \/ UNCHANGED vars)
BY ReadStep, CompareStep, FetchStep, BuildStutter DEF Next

-----------------------------------------------------------------------------
(* OutgoingRequest: where a request goes. *)

Pieces == {"https://host", "https://other", "/", "p", ".b", "@b", "private/v1",
           "chat/completions"}

\* The part of a URL that names the server ends at the first separator.
LEMMA AuthorityOf ==
    ASSUME NEW u \in Seq(Pieces), Len(u) >= 1, u[1] = Outgoing!Origin, Len(u) >= 2 => u[2] = "/"
    PROVE  Outgoing!Authority(u) = <<Outgoing!Origin>>
<1> DEFINE Ends(n) == /\ \A i \in 1..n : u[i] # "/"
                      /\ n < Len(u) => u[n + 1] = "/"
           m == CHOOSE n \in 0..Len(u) : Ends(n)
<1>1. Len(u) \in Nat /\ Outgoing!Origin # "/"
  BY DEF Outgoing!Origin
<1>2. Ends(1) /\ 1 \in 0..Len(u)
  BY <1>1
<1>3. m \in 0..Len(u) /\ Ends(m)
  <2> HIDE DEF Ends
  <2>1. QED
    BY <1>2
<1>4. m = 1
  <2> HIDE DEF m
  <2>1. m # 0
    <3>1. ASSUME m = 0 PROVE FALSE
      <4>1. u[0 + 1] = "/"
        BY <1>1, <1>3, <3>1
      <4>2. QED
        BY <1>1, <4>1
    <3>2. QED
      BY <3>1
  <2>2. m < 2
    <3>1. ASSUME m >= 2 PROVE FALSE
      <4>1. 2 \in 1..m /\ Len(u) >= 2
        BY <1>1, <1>3, <3>1
      <4>2. u[2] # "/"
        BY <1>3, <4>1
      <4>3. QED
        BY <4>1, <4>2
    <3>2. QED
      BY <1>1, <1>3, <3>1
  <2>3. QED
    BY <1>1, <1>3, <2>1, <2>2
<1>5. Outgoing!Authority(u) = SubSeq(u, 1, m)
  BY DEF Outgoing!Authority
<1> HIDE DEF m
<1>6. /\ SubSeq(u, 1, 1) \in Seq(Pieces) /\ Len(SubSeq(u, 1, 1)) = 1
      /\ SubSeq(u, 1, 1)[1] = Outgoing!Origin
  <2>1. \A i \in 1..1 : u[i] \in Pieces
    BY <1>1, ElementOfSeq
  <2>2. /\ SubSeq(u, 1, 1) \in Seq(Pieces)
        /\ Len(SubSeq(u, 1, 1)) = IF 1 <= 1 THEN 1 - 1 + 1 ELSE 0
        /\ \A i \in 1..(1 - 1 + 1) : SubSeq(u, 1, 1)[i] = u[1 + i - 1]
    BY <2>1, SubSeqProperties
  <2>3. QED
    BY <2>2
<1>7. /\ <<Outgoing!Origin>> \in Seq(Pieces) /\ Len(<<Outgoing!Origin>>) = 1
      /\ <<Outgoing!Origin>>[1] = Outgoing!Origin
  <2>1. Outgoing!Origin \in Pieces
    BY <1>1, ElementOfSeq
  <2>2. QED
    BY <2>1
<1>8. SubSeq(u, 1, 1) = <<Outgoing!Origin>>
  <2>1. \A i \in 1..1 : SubSeq(u, 1, 1)[i] = <<Outgoing!Origin>>[i]
    BY <1>6, <1>7
  <2>2. QED
    BY <1>6, <1>7, <2>1, SeqEqual
<1>9. QED
  BY <1>4, <1>5, <1>8

LEMMA UrlTuples ==
    ASSUME NEW S, NEW o \in S, NEW p \in S, NEW q \in S
    PROVE  /\ <<o>> \in Seq(S) /\ Len(<<o>>) = 1 /\ <<o>>[1] = o
           /\ <<o, p>> \in Seq(S) /\ Len(<<o, p>>) = 2
           /\ <<o, p>>[1] = o /\ <<o, p>>[2] = p
           /\ <<o, p, q>> \in Seq(S) /\ Len(<<o, p, q>>) = 3
           /\ <<o, p, q>>[1] = o /\ <<o, p, q>>[2] = p /\ <<o, p, q>>[3] = q
<1>1. <<o>> \in Seq(S) /\ Len(<<o>>) = 1 /\ <<o>>[1] = o
  OBVIOUS
<1>2. <<o, p>> \in Seq(S)
  OBVIOUS
<1>3. <<o, p, q>> \in Seq(S)
  OBVIOUS
<1>4. Len(<<o, p>>) = 2 /\ <<o, p>>[1] = o /\ <<o, p>>[2] = p
  OBVIOUS
<1>5. Len(<<o, p, q>>) = 3 /\ <<o, p, q>>[1] = o /\ <<o, p, q>>[2] = p /\ <<o, p, q>>[3] = q
  OBVIOUS
<1>6. QED
  BY <1>1, <1>2, <1>3, <1>4, <1>5

LEMMA BaseShape ==
    ASSUME NEW b \in Outgoing!Bases
    PROVE  /\ b \in Seq(Pieces) /\ Len(b) \in 1..3 /\ b[1] = Outgoing!Origin
           /\ Len(b) >= 2 => b[2] = "/"
           /\ Len(b) = 3 => b[3] \in {"/", "p"}
<1>1. PICK o \in Pieces : o = Outgoing!Origin
  BY DEF Outgoing!Origin, Pieces
<1>2. PICK s \in Pieces : s = "/"
  BY DEF Pieces
<1>3. PICK e \in Pieces : e = "p"
  BY DEF Pieces
<1>4. CASE b = <<o>>
  BY <1>1, <1>4, UrlTuples
<1>5. CASE b = <<o, s>>
  BY <1>1, <1>2, <1>5, UrlTuples
<1>6. CASE b = <<o, s, s>>
  BY <1>1, <1>2, <1>6, UrlTuples
<1>7. CASE b = <<o, s, e>>
  BY <1>1, <1>2, <1>3, <1>7, UrlTuples
<1>8. QED
  BY <1>1, <1>2, <1>3, <1>4, <1>5, <1>6, <1>7 DEF Outgoing!Bases

\* Trimming separators leaves the server's name.
LEMMA TrimmedBase ==
    ASSUME NEW b \in Outgoing!Bases
    PROVE  \E n \in 1..Len(b) : Outgoing!TrimEnd(b) = SubSeq(b, 1, n)
<1> DEFINE Trimmed(n) == /\ \A i \in n + 1..Len(b) : b[i] = "/"
                         /\ n > 0 => b[n] # "/"
           m == CHOOSE n \in 0..Len(b) : Trimmed(n)
<1>1. /\ Len(b) \in 1..3 /\ b[1] = Outgoing!Origin /\ Outgoing!Origin # "/"
      /\ Len(b) >= 2 => b[2] = "/"
      /\ Len(b) = 3 => b[3] \in {"/", "p"}
  BY BaseShape DEF Outgoing!Origin
<1>2. \E n \in 0..Len(b) : Trimmed(n)
  <2>1. CASE Len(b) = 3 /\ b[3] = "p"
    <3>1. 3 \in 0..Len(b) /\ Trimmed(3)
      BY <1>1, <2>1
    <3>2. QED
      BY <3>1
  <2>2. CASE ~(Len(b) = 3 /\ b[3] = "p")
    <3>1. \A i \in 2..Len(b) : b[i] = "/"
      BY <1>1, <2>2
    <3>2. 1 \in 0..Len(b) /\ Trimmed(1)
      BY <1>1, <3>1
    <3>3. QED
      BY <3>2
  <2>3. QED
    BY <2>1, <2>2
<1>3. m \in 0..Len(b) /\ Trimmed(m)
  <2> HIDE DEF Trimmed
  <2>1. QED
    BY <1>2
<1>4. Outgoing!TrimEnd(b) = SubSeq(b, 1, m)
  BY DEF Outgoing!TrimEnd
<1> HIDE DEF m
<1>5. m # 0
  <2>1. ASSUME m = 0 PROVE FALSE
    <3>1. 1 \in 0 + 1..Len(b)
      BY <1>1
    <3>2. QED
      BY <1>1, <1>3, <2>1, <3>1
  <2>2. QED
    BY <2>1
<1>6. m \in 1..Len(b)
  BY <1>1, <1>3, <1>5
<1>7. QED
  BY <1>4, <1>6

\* seal_and_send's check keeps a request on the configured server.
LEMMA InsideStaysHome ==
    ASSUME NEW b \in Outgoing!Bases, NEW u \in Seq(Pieces), Outgoing!Inside(u, b)
    PROVE  Outgoing!Authority(u) = Outgoing!Authority(b)
<1>1. /\ b \in Seq(Pieces) /\ Len(b) \in 1..3 /\ b[1] = Outgoing!Origin
      /\ Len(b) >= 2 => b[2] = "/"
  BY BaseShape
<1>2. PICK n \in 1..Len(b) : Outgoing!TrimEnd(b) = SubSeq(b, 1, n)
  BY TrimmedBase
<1>3. n \in Nat /\ n >= 1 /\ n <= Len(b)
  BY <1>1, <1>2
<1> DEFINE t == SubSeq(b, 1, n)
           a == Append(t, "/")
<1>4. t \in Seq(Pieces) /\ Len(t) = n /\ \A i \in 1..n : t[i] = b[i]
  <2>1. 1 \in Int /\ n \in Int /\ \A i \in 1..n : b[i] \in Pieces
    BY <1>1, <1>3, ElementOfSeq
  <2>2. /\ SubSeq(b, 1, n) \in Seq(Pieces) /\ Len(SubSeq(b, 1, n)) = IF 1 <= n THEN n - 1 + 1 ELSE 0
        /\ \A i \in 1..(n - 1 + 1) : SubSeq(b, 1, n)[i] = b[1 + i - 1]
    BY <2>1, SubSeqProperties
  <2> HIDE DEF t
  <2>3. n - 1 + 1 = n /\ \A i \in 1..n : 1 + i - 1 = i
    BY <1>3
  <2>4. QED
    BY <1>3, <2>2, <2>3 DEF t
<1> HIDE DEF t
<1>5. /\ a \in Seq(Pieces) /\ Len(a) = n + 1
      /\ a[1] = Outgoing!Origin /\ a[2] = "/"
  <2>1. PICK s \in Pieces : s = "/"
    BY DEF Pieces
  <2>2. /\ Append(t, s) \in Seq(Pieces) /\ Len(Append(t, s)) = Len(t) + 1
        /\ \A i \in 1..Len(t) : Append(t, s)[i] = t[i]
        /\ Append(t, s)[Len(t) + 1] = s
    BY <1>4, AppendProperties
  <2>3. a = Append(t, s)
    BY <2>1
  <2> HIDE DEF a
  <2>4. a \in Seq(Pieces) /\ Len(a) = n + 1 /\ a[1] = t[1] /\ t[1] = b[1] /\ a[n + 1] = "/"
    BY <1>3, <1>4, <2>1, <2>2, <2>3
  <2>5. a[2] = "/"
    <3>1. CASE n = 1
      BY <2>4, <3>1
    <3>2. CASE n >= 2
      <4>1. 2 \in 1..n
        BY <1>3, <3>2
      <4>2. a[2] = t[2] /\ t[2] = b[2] /\ Len(b) >= 2
        BY <1>1, <1>3, <1>4, <2>2, <2>3, <4>1, <3>2
      <4>3. QED
        BY <1>1, <4>2
    <3>3. QED
      BY <1>3, <3>1, <3>2
  <2>6. QED
    BY <1>1, <2>4, <2>5
<1> HIDE DEF a
<1>6. Len(a) <= Len(u) /\ SubSeq(a, 1, n + 1) = SubSeq(u, 1, n + 1)
  <2>1. Outgoing!Inside(u, b) <=> Outgoing!IsPrefix(a, u)
    BY <1>2 DEF Outgoing!Inside, a, t
  <2>2. QED
    BY <1>5, <2>1 DEF Outgoing!IsPrefix
<1>7. Len(u) \in Nat /\ Len(u) >= 2 /\ u[1] = a[1] /\ u[2] = a[2]
  <2> DEFINE k == n + 1
  <2>1. k \in Int /\ k >= 2 /\ k <= Len(u) /\ Len(a) = k /\ Len(u) \in Nat
    BY <1>3, <1>5, <1>6
  <2>2. SubSeq(a, 1, k) = SubSeq(u, 1, k)
    BY <1>6
  <2> HIDE DEF k
  <2>3. (\A i \in 1..k : a[i] \in Pieces) /\ (\A i \in 1..k : u[i] \in Pieces)
    BY <1>5, <2>1, ElementOfSeq
  <2>4. /\ \A i \in 1..(k - 1 + 1) : SubSeq(a, 1, k)[i] = a[1 + i - 1]
        /\ \A i \in 1..(k - 1 + 1) : SubSeq(u, 1, k)[i] = u[1 + i - 1]
    BY <2>1, <2>3, SubSeqProperties
  <2>5. 1 \in 1..(k - 1 + 1) /\ 2 \in 1..(k - 1 + 1)
    BY <2>1
  <2>6. u[1 + 1 - 1] = a[1 + 1 - 1] /\ u[1 + 2 - 1] = a[1 + 2 - 1]
    BY <2>2, <2>4, <2>5
  <2>7. QED
    BY <2>1, <2>6
<1>8. Outgoing!Authority(u) = <<Outgoing!Origin>>
  BY <1>5, <1>7, AuthorityOf
<1>9. Outgoing!Authority(b) = <<Outgoing!Origin>>
  BY <1>1, AuthorityOf
<1>10. QED
  BY <1>8, <1>9

\* Every URL a request is asked for is a sequence of pieces.
LEMMA CallerPieces ==
    ASSUME NEW url \in Outgoing!CallerUrls PROVE Outgoing!UriString(url) \in Seq(Pieces)
<1>1. PICK o \in {Outgoing!Origin, "https://other"},
           t \in UNION {[1..n -> {"/", "p", ".b", "@b"}] : n \in 0..MaxTail} : url = <<o>> \o t
  BY DEF Outgoing!CallerUrls
<1>2. PICK n \in 0..MaxTail : t \in [1..n -> {"/", "p", ".b", "@b"}]
  BY <1>1
<1>3. n \in Nat
  BY <1>2, PpqClientAssumption
<1>4. t \in [1..n -> Pieces]
  BY <1>2 DEF Pieces
<1>5. t \in Seq(Pieces)
  BY <1>3, <1>4
<1>6. o \in Pieces
  BY <1>1 DEF Outgoing!Origin, Pieces
<1>7. <<o>> \in Seq(Pieces)
  BY <1>6
<1>8. url \in Seq(Pieces)
  BY <1>1, <1>5, <1>7, ConcatProperties
<1>9. PICK s \in Pieces : s = "/"
  BY DEF Pieces
<1>10. Append(url, s) \in Seq(Pieces)
  BY <1>8, AppendProperties
<1>11. QED
  BY <1>8, <1>9, <1>10 DEF Outgoing!UriString

\* The two transports address the same endpoint.
LEMMA SameUrl ==
    ASSUME NEW b \in Outgoing!Bases
    PROVE  /\ b \o Outgoing!Chat \in Seq(Pieces)
           /\ b \o <<"/", "private/v1">> \o <<"/", "chat/completions">> = b \o Outgoing!Chat
<1>1. PICK s \in Pieces : s = "/"
  BY DEF Pieces
<1>2. PICK p \in Pieces : p = "private/v1"
  BY DEF Pieces
<1>3. PICK q \in Pieces : q = "chat/completions"
  BY DEF Pieces
<1> DEFINE x == <<s, p>>
           y == <<s, q>>
           z == <<s, p, s, q>>
<1>4. /\ x \in Seq(Pieces) /\ Len(x) = 2 /\ x[1] = s /\ x[2] = p
      /\ y \in Seq(Pieces) /\ Len(y) = 2 /\ y[1] = s /\ y[2] = q
  BY UrlTuples
<1>5. /\ z \in Seq(Pieces) /\ Len(z) = 4 /\ z[1] = s /\ z[2] = p /\ z[3] = s /\ z[4] = q
  <2>1. z \in Seq(Pieces)
    OBVIOUS
  <2>2. Len(z) = 4 /\ z[1] = s /\ z[2] = p /\ z[3] = s /\ z[4] = q
    OBVIOUS
  <2>3. QED
    BY <2>1, <2>2
<1>6. Outgoing!Chat = z /\ <<"/", "private/v1">> = x /\ <<"/", "chat/completions">> = y
  BY <1>1, <1>2, <1>3 DEF Outgoing!Chat
<1> HIDE DEF x, y, z
<1>7. b \in Seq(Pieces)
  BY BaseShape
<1>8. (b \o x) \o y = b \o (x \o y)
  BY <1>4, <1>7, ConcatAssociative
<1>9. x \o y = z
  <2>1. /\ x \o y \in Seq(Pieces) /\ Len(x \o y) = Len(x) + Len(y)
        /\ \A i \in 1..Len(x) + Len(y) :
              (x \o y)[i] = IF i <= Len(x) THEN x[i] ELSE y[i - Len(x)]
    BY <1>4, ConcatProperties
  <2> DEFINE w == x \o y
  <2>2. /\ w \in Seq(Pieces) /\ Len(w) = 4
        /\ \A i \in 1..4 : w[i] = IF i <= 2 THEN x[i] ELSE y[i - 2]
    BY <1>4, <2>1
  <2> HIDE DEF w
  <2>3. w[1] = s /\ w[2] = p /\ w[3] = s /\ w[4] = q
    BY <1>4, <2>2
  <2>4. Len(w) = Len(z) /\ \A i \in 1..Len(w) : w[i] = z[i]
    BY <1>5, <2>2, <2>3
  <2>5. w = z
    BY <1>5, <2>2, <2>4, SeqEqual
  <2>6. QED
    BY <2>5 DEF w
<1>10. b \o z \in Seq(Pieces)
  BY <1>5, <1>7, ConcatProperties
<1>11. QED
  BY <1>6, <1>8, <1>9, <1>10

-----------------------------------------------------------------------------
(* OutgoingRequest: the steps of a request. *)
OutgoingInv ==
    /\ path = "start" => wire = Outgoing!Silent
    /\ use # "request" => wire = Outgoing!Silent /\ path = "start" /\ client = NoClient
    /\ use = "request" => client \in Outgoing!Clients /\ client.key = proved
    /\ StaysHome /\ SameRequest

LEMMA OutgoingInit ==
    ASSUME use = "none", client = NoClient, path = "start", wire = Outgoing!Silent
    PROVE  OutgoingInv
BY DEF OutgoingInv, StaysHome, SameRequest, Outgoing!StaysHome, Outgoing!SameRequest

\* The request on the wire, as SealAndSend leaves it.
LEMMA SentHome ==
    ASSUME client \in Outgoing!Clients, client.key = proved,
           NEW u \in Seq(Pieces), NEW model, NEW h, Outgoing!SealAndSend(u, model, h)
    PROVE  \/ wire' = Outgoing!Silent
           \/ /\ Outgoing!Authority(wire'.url) = Outgoing!Authority(client.base)
              /\ wire'.url = u /\ wire'.sealedTo = proved /\ wire'.sealedModel = model
              /\ wire'.headers = Outgoing!OwnedInserted(h)
<1>1. client.base \in Outgoing!Bases
  BY DEF Outgoing!Clients
<1>2. CASE ~Outgoing!Inside(u, client.base)
  BY <1>2 DEF Outgoing!SealAndSend, Outgoing!Refused
<1>3. CASE Outgoing!Inside(u, client.base)
  <2>1. Outgoing!Authority(u) = Outgoing!Authority(client.base)
    BY <1>1, <1>3, InsideStaysHome
  <2>2. \/ wire' = Outgoing!Silent
        \/ wire' = [url |-> u, headers |-> Outgoing!OwnedInserted(h),
                    sealedTo |-> client.key, sealedModel |-> model]
    BY <1>3 DEF Outgoing!SealAndSend, Outgoing!Refused
  <2>3. QED
    BY <2>1, <2>2
<1>4. QED
  BY <1>2, <1>3

\* The headers seal_and_send owns are its own, the others are the caller's.
LEMMA OwnedOnce ==
    ASSUME NEW h, NEW n \in Outgoing!Names
    PROVE  /\ n \in Outgoing!Owned =>
                  Outgoing!OwnedInserted(h)[n] = <<Outgoing!Ours[n]>>
           /\ n \notin Outgoing!Owned => Outgoing!OwnedInserted(h)[n] = h[n]
BY DEF Outgoing!OwnedInserted

LEMMA RoutingOnly ==
    ASSUME NEW id, NEW sse \in BOOLEAN,
           NEW h \in {Outgoing!RoutingHeaders(id), Outgoing!RigHeaders(id, sse)}
    PROVE  h["x-private-model"] = <<id>> /\ h["x-query-source"] = <<"api">>
<1>1. /\ "x-private-model" \in Outgoing!Names /\ "x-query-source" \in Outgoing!Names
      /\ "content-type" \in Outgoing!Names /\ "accept" \in Outgoing!Names
  BY DEF Outgoing!Names, Outgoing!Routing, Outgoing!Owned
<1>2. /\ Outgoing!RoutingHeaders(id)["x-private-model"] = <<id>>
      /\ Outgoing!RoutingHeaders(id)["x-query-source"] = <<"api">>
      /\ DOMAIN Outgoing!RoutingHeaders(id) = Outgoing!Names
  BY <1>1 DEF Outgoing!RoutingHeaders, Outgoing!Insert, Outgoing!NoHeaders
<1>3. /\ Outgoing!RigHeaders(id, sse)["x-private-model"] = <<id>>
      /\ Outgoing!RigHeaders(id, sse)["x-query-source"] = <<"api">>
  BY <1>1, <1>2 DEF Outgoing!RigHeaders, Outgoing!Insert
<1>4. QED
  BY <1>2, <1>3

\* The enclave's id is the user's without the prefix, and differs if there is one.
LEMMA EnclaveIdOf ==
    ASSUME NEW id \in Outgoing!Ids
    PROVE  /\ Outgoing!EnclaveId(id) # id => id = <<"private/">> \o Outgoing!EnclaveId(id)
           /\ id # <<>> /\ Head(id) = "private/" => Outgoing!EnclaveId(id) # id
<1> DEFINE S == {"private/", "m", "control"}
<1>1. PICK n \in 0..MaxId : id \in [1..n -> S]
  BY DEF Outgoing!Ids
<1>2. n \in Nat
  BY <1>1, PpqClientAssumption
<1>3. "private/" \in S
  OBVIOUS
<1> HIDE DEF S
<1>4. id \in Seq(S)
  BY <1>1, <1>2
<1>5. ASSUME id # <<>>, Head(id) = "private/"
      PROVE  Tail(id) # id /\ id = <<"private/">> \o Tail(id)
  <2>0. id # <<>> /\ id \in Seq(S)
    BY <1>4, <1>5
  <2>1. /\ Tail(id) \in Seq(S) /\ Len(Tail(id)) = Len(id) - 1 /\ Len(id) \in Nat
        /\ \A i \in 1..Len(Tail(id)) : Tail(id)[i] = id[i + 1]
    <3>1. /\ Tail(id) \in Seq(S) /\ Len(Tail(id)) = Len(id) - 1
          /\ \A i \in 1..Len(Tail(id)) : Tail(id)[i] = id[i + 1]
      BY <2>0, HeadTailProperties
    <3>2. Len(id) \in Nat
      BY <2>0, LenProperties
    <3>3. QED
      BY <3>1, <3>2
  <2>2. Len(id) >= 1 /\ id[1] = "private/"
    <3>1. Len(id) \in Nat \ {0}
      BY <1>4, <1>5, EmptySeq
    <3>2. QED
      BY <3>1, <1>5
  <2> DEFINE p == <<"private/">>
             t == Tail(id)
  <2>3. p \in Seq(S) /\ Len(p) = 1 /\ p[1] = "private/"
    BY <1>3
  <2> HIDE DEF p, t
  <2> DEFINE w == p \o t
  <2>4. /\ w \in Seq(S) /\ Len(w) = Len(p) + Len(t)
        /\ \A i \in 1..Len(p) + Len(t) : w[i] = IF i <= Len(p) THEN p[i] ELSE t[i - Len(p)]
    <3>1. t \in Seq(S)
      BY <2>1 DEF t
    <3>2. QED
      BY <2>3, <3>1, ConcatProperties
  <2> HIDE DEF w
  <2>5. Len(w) = Len(id)
    BY <2>1, <2>3, <2>4 DEF t
  <2>6. ASSUME NEW i \in 1..Len(id) PROVE w[i] = id[i]
    <3>1. CASE i = 1
      BY <2>1, <2>2, <2>3, <2>4, <2>5, <3>1
    <3>2. CASE i > 1
      <4>1. i - 1 \in 1..Len(Tail(id)) /\ i - 1 + 1 = i
        BY <2>1, <3>2
      <4>2. t[i - 1] = id[i]
        BY <2>1, <4>1 DEF t
      <4>3. QED
        BY <2>1, <2>3, <2>4, <2>5, <3>2, <4>2
    <3>3. QED
      BY <2>1, <3>1, <3>2
  <2>7. w = id
    BY <1>4, <2>4, <2>5, <2>6, SeqEqual
  <2>8. Tail(id) # id
    <3>1. Len(t) = Len(id) - 1 /\ Len(id) \in Nat
      BY <2>1 DEF t
    <3>2. t # id
      BY <3>1
    <3>3. QED
      BY <3>2 DEF t
  <2>9. QED
    BY <2>7, <2>8 DEF w, p, t
<1>6. QED
  BY <1>5 DEF Outgoing!EnclaveId

\* A request of the JSON API or of rig's transport.
LEMMA TransportStep ==
    ASSUME OutgoingInv, use = "request", path = "start", UNCHANGED <<client, proved, use>>,
           NEW id \in Outgoing!Ids, Outgoing!Json(id) \/ Outgoing!Rig(id)
    PROVE  OutgoingInv'
<1>1. client \in Outgoing!Clients /\ client.key = proved /\ client.base \in Outgoing!Bases
  BY DEF OutgoingInv, Outgoing!Clients
<1> DEFINE url == client.base \o Outgoing!Chat
           enclave == Outgoing!EnclaveId(id)
           Sent(h) == /\ Outgoing!Authority(wire'.url) = Outgoing!Authority(client.base)
                      /\ wire'.url = url /\ wire'.sealedTo = proved /\ wire'.sealedModel = enclave
                      /\ wire'.headers = Outgoing!OwnedInserted(h)
<1>2. url \in Seq(Pieces)
  BY <1>1, SameUrl
<1>3. /\ path' \in {"json", "rig"} /\ args' = id
      /\ \/ wire' = Outgoing!Silent
         \/ \E sse \in BOOLEAN :
               \E h \in {Outgoing!RoutingHeaders(id), Outgoing!RigHeaders(id, sse)} : Sent(h)
  <2>1. CASE Outgoing!Json(id)
    <3>1. /\ path' = "json" /\ args' = id
          /\ \/ wire' = Outgoing!Silent
             \/ Outgoing!SealAndSend(url, enclave, Outgoing!RoutingHeaders(id))
      BY <2>1 DEF Outgoing!Json, Outgoing!Refused, Outgoing!Rewrite
    <3>2. CASE Outgoing!SealAndSend(url, enclave, Outgoing!RoutingHeaders(id))
      <4> HIDE DEF url, enclave
      <4>1. wire' = Outgoing!Silent \/ Sent(Outgoing!RoutingHeaders(id))
        BY <1>1, <1>2, <3>2, SentHome
      <4>2. QED
        BY <3>1, <4>1
    <3>3. QED
      BY <3>1, <3>2
  <2>2. CASE Outgoing!Rig(id)
    <3>1. PICK sse \in BOOLEAN :
             /\ path' = "rig" /\ args' = id
             /\ \/ wire' = Outgoing!Silent
                \/ Outgoing!SealAndSend(
                       client.base \o <<"/", "private/v1">> \o <<"/", "chat/completions">>,
                       enclave, Outgoing!RigHeaders(id, sse))
      BY <2>2 DEF Outgoing!Rig, Outgoing!Refused, Outgoing!Rewrite
    <3>2. CASE Outgoing!SealAndSend(
                   client.base \o <<"/", "private/v1">> \o <<"/", "chat/completions">>,
                   enclave, Outgoing!RigHeaders(id, sse))
      <4>1. Outgoing!SealAndSend(url, enclave, Outgoing!RigHeaders(id, sse))
        BY <1>1, <3>2, SameUrl
      <4> HIDE DEF url, enclave
      <4>2. wire' = Outgoing!Silent \/ Sent(Outgoing!RigHeaders(id, sse))
        BY <1>1, <1>2, <4>1, SentHome
      <4>3. QED
        BY <3>1, <4>2
    <3>3. QED
      BY <3>1, <3>2
  <2>3. QED
    BY <2>1, <2>2
<1>4. OutgoingInv' \/ wire' # Outgoing!Silent
  BY <1>1, <1>3 DEF OutgoingInv, StaysHome, SameRequest, Outgoing!StaysHome, Outgoing!SameRequest,
                    Outgoing!Silent, Outgoing!Clients, Outgoing!Bases, Outgoing!Origin
<1>5. ASSUME NEW sse \in BOOLEAN,
             NEW h \in {Outgoing!RoutingHeaders(id), Outgoing!RigHeaders(id, sse)}, Sent(h),
             wire' # Outgoing!Silent
      PROVE  OutgoingInv'
  <2>1. \A n \in Outgoing!Owned : wire'.headers[n] = <<Outgoing!Ours[n]>>
    <3>1. Outgoing!Owned \subseteq Outgoing!Names
      BY DEF Outgoing!Names
    <3>2. QED
      BY <1>5, <3>1, OwnedOnce
  <2>2. /\ wire'.headers["x-private-model"] = <<id>>
        /\ wire'.headers["x-query-source"] = <<"api">>
    <3>1. /\ "x-private-model" \in Outgoing!Names \ Outgoing!Owned
          /\ "x-query-source" \in Outgoing!Names \ Outgoing!Owned
      BY DEF Outgoing!Names, Outgoing!Routing, Outgoing!Owned
    <3>2. h["x-private-model"] = <<id>> /\ h["x-query-source"] = <<"api">>
      BY RoutingOnly
    <3>3. QED
      BY <1>5, <3>1, <3>2, OwnedOnce
  <2>3. /\ wire'.sealedModel # id => id = <<"private/">> \o wire'.sealedModel
        /\ id # <<>> /\ Head(id) = "private/" => wire'.sealedModel # id
    BY <1>5, EnclaveIdOf
  <2>4. SameRequest'
    BY <1>3, <1>5, <2>1, <2>2, <2>3
       DEF SameRequest, Outgoing!SameRequest, Outgoing!Owned, Outgoing!Ours, Outgoing!Chat
  <2>5. StaysHome'
    BY <1>5 DEF StaysHome, Outgoing!StaysHome, Outgoing!Authority
  <2>6. QED
    BY <1>1, <1>3, <2>4, <2>5 DEF OutgoingInv, Outgoing!Clients, Outgoing!Bases, Outgoing!Origin
<1>6. QED
  BY <1>3, <1>4, <1>5

\* Anybody's request through rig's backend.
LEMMA CallerStep ==
    ASSUME OutgoingInv, use = "request", path = "start", UNCHANGED <<client, proved, use>>,
           NEW method, NEW url \in Outgoing!CallerUrls, NEW name \in Outgoing!Names, NEW n \in 0..2,
           Outgoing!Caller(method, url, name, n)
    PROVE  OutgoingInv'
<1>1. client \in Outgoing!Clients /\ client.key = proved
  BY DEF OutgoingInv
<1> DEFINE u == Outgoing!UriString(url)
           h == [Outgoing!NoHeaders EXCEPT ![name] = [i \in 1..n |-> "theirs"]]
           nobody == <<>>
<1>2. u \in Seq(Pieces)
  BY CallerPieces
<1>3. path' = "caller" /\ (wire' = Outgoing!Silent \/ Outgoing!SealAndSend(u, nobody, h))
  BY DEF Outgoing!Caller, Outgoing!Refused
<1> HIDE DEF u, h, nobody
<1>4. \/ wire' = Outgoing!Silent
      \/ /\ Outgoing!Authority(wire'.url) = Outgoing!Authority(client.base)
         /\ wire'.sealedTo = proved /\ wire'.headers = Outgoing!OwnedInserted(h)
  BY <1>1, <1>2, <1>3, SentHome
<1>5. wire' # Outgoing!Silent =>
          \A o \in Outgoing!Owned : wire'.headers[o] = <<Outgoing!Ours[o]>>
  <2>1. Outgoing!Owned \subseteq Outgoing!Names
    BY DEF Outgoing!Names
  <2>2. QED
    BY <1>4, <2>1, OwnedOnce
<1>6. SameRequest'
  BY <1>3, <1>5
     DEF SameRequest, Outgoing!SameRequest, Outgoing!Owned, Outgoing!Ours, Outgoing!Silent
<1>7. StaysHome'
  BY <1>4 DEF StaysHome, Outgoing!StaysHome, Outgoing!Authority, Outgoing!Silent
<1>8. QED
  BY <1>1, <1>3, <1>6, <1>7 DEF OutgoingInv, Outgoing!Clients, Outgoing!Bases, Outgoing!Origin

LEMMA OutgoingSame ==
    ASSUME OutgoingInv, UNCHANGED <<proved, use, outgoingVars>> PROVE OutgoingInv'
BY DEF OutgoingInv, outgoingVars, StaysHome, SameRequest, Outgoing!StaysHome,
       Outgoing!SameRequest, Outgoing!Authority, Outgoing!Owned, Outgoing!Ours, Outgoing!Chat,
       Outgoing!Silent, Outgoing!Clients, Outgoing!Bases, Outgoing!Origin

LEMMA OutgoingStep ==
    ASSUME OutgoingInv, use = "request", Outgoing!Next, UNCHANGED <<proved, use>>
    PROVE  OutgoingInv'
<1>1. CASE path = "start"
  <2>1. UNCHANGED <<client, proved, use>>
    BY <1>1 DEF Outgoing!Next
  <2>2. \/ \E id \in Outgoing!Ids : Outgoing!Json(id) \/ Outgoing!Rig(id)
        \/ \E method \in {"POST", "GET"}, url \in Outgoing!CallerUrls, name \in Outgoing!Names,
              n \in 0..2 : Outgoing!Caller(method, url, name, n)
    BY <1>1 DEF Outgoing!Next
  <2>3. QED
    BY <1>1, <2>1, <2>2, TransportStep, CallerStep
<1>2. CASE path # "start"
  BY <1>2, OutgoingSame DEF Outgoing!Next, Outgoing!vars, outgoingVars
<1>3. QED
  BY <1>1, <1>2

-----------------------------------------------------------------------------
(* Catalogue: the list of models and the lookup in it.  What holds after n entries *)
(* holds after one more; for every n it follows from the least n without it.       *)

\* Every set of numbers that has an element has a least one.
LEMMA LeastExists ==
    ASSUME NEW S \in SUBSET Nat, S # {}
    PROVE  \E m \in S : \A k \in S : m <= k
<1> DEFINE T == {0..n : n \in S}
<1>1. IsWellFoundedOn(StrictSubsetOrdering(Nat), FiniteSubsetsOf(Nat))
  BY FS_StrictSubsetOrderingWellFounded
<1>2. T \subseteq FiniteSubsetsOf(Nat) /\ T # {}
  <2>1. ASSUME NEW n \in S PROVE 0..n \in FiniteSubsetsOf(Nat)
    BY FS_Interval DEF FiniteSubsetsOf
  <2>2. QED
    BY <2>1
<1> HIDE DEF T
<1>3. PICK x \in T : \A y \in T : ~ (<<y, x>> \in StrictSubsetOrdering(Nat))
  BY <1>1, <1>2, WFMin
<1>4. PICK m \in S : x = 0..m
  BY <1>3 DEF T
<1>5. ASSUME NEW k \in S, k < m PROVE FALSE
  <2>1. 0..k \in T
    BY DEF T
  <2>2. /\ 0..k \in SUBSET Nat /\ 0..m \in SUBSET Nat /\ 0..k \subseteq 0..m /\ 0..k # 0..m
    BY <1>5
  <2>3. <<0..k, x>> \in StrictSubsetOrdering(Nat)
    BY <1>4, <2>2 DEF StrictSubsetOrdering
  <2>4. QED
    BY <1>3, <2>1, <2>3
<1>6. QED
  BY <1>4, <1>5

\* What the first n entries leave of the list, from what one entry less leaves of it.
Added(c, g, n) ==
    IF n = 0 THEN <<>>
    ELSE IF Models!WellTyped(c[n]) /\ Models!Private(c[n])
    THEN Append(g[n - 1], Models!Model(c[n]))
    ELSE g[n - 1]

\* The recursion of Kept has a solution: the least number that it cannot reach would
\* follow one that it reaches.
LEMMA KeptReaches ==
    ASSUME NEW c, Len(c) \in Nat
    PROVE  \E g : g = [n \in 0..Len(c) |-> Added(c, g, n)]
<1> DEFINE Reached(m) == \E g : g = [n \in 0..m |-> Added(c, g, n)]
           Missed     == {m \in 0..Len(c) : ~Reached(m)}
<1>1. CASE Missed = {}
  <2>1. Len(c) \in 0..Len(c)
    OBVIOUS
  <2>2. QED
    BY <1>1, <2>1
<1>2. CASE Missed # {}
  <2>1. Missed \in SUBSET Nat
    OBVIOUS
  <2>2. PICK m \in Missed : \A k \in Missed : m <= k
    BY <1>2, <2>1, LeastExists
  <2>3. m \in 0..Len(c) /\ ~Reached(m)
    BY <2>2
  <2>4. m # 0
    <3>1. [n \in 0..0 |-> <<>>] = [n \in 0..0 |-> Added(c, [i \in 0..0 |-> <<>>], n)]
      BY DEF Added
    <3>2. QED
      BY <2>3, <3>1
  <2>5. m \in Nat /\ m - 1 \in 0..Len(c) /\ Reached(m - 1)
    BY <2>2, <2>3, <2>4
  <2>6. PICK g : g = [n \in 0..(m - 1) |-> Added(c, g, n)]
    BY <2>5
  <2> DEFINE h == [n \in 0..m |-> IF n = m THEN Added(c, g, m) ELSE g[n]]
  <2>7. ASSUME NEW n \in 0..m PROVE h[n] = Added(c, h, n)
    <3>1. \A i \in 0..(m - 1) : h[i] = g[i]
      BY <2>5
    <3>2. n # 0 => n - 1 \in 0..(m - 1)
      BY <2>5
    <3>3. Added(c, h, n) = Added(c, g, n)
      BY <3>1, <3>2 DEF Added
    <3>4. CASE n = m
      BY <3>3, <3>4
    <3>5. CASE n # m
      <4>1. n \in 0..(m - 1)
        BY <2>5, <3>5
      <4>2. g[n] = Added(c, g, n)
        BY <2>6, <4>1
      <4>3. QED
        BY <3>1, <3>3, <4>1, <4>2
    <3>6. QED
      BY <3>4, <3>5
  <2>8. h = [n \in 0..m |-> Added(c, h, n)]
    BY <2>7
  <2>9. QED
    BY <2>3, <2>8
<1>3. QED
  BY <1>1, <1>2

\* It is that solution.
LEMMA KeptUnfolds ==
    ASSUME NEW c, Len(c) \in Nat
    PROVE  Models!Kept(c) = [n \in 0..Len(c) |-> Added(c, Models!Kept(c), n)]
<1>1. PICK g : g = [n \in 0..Len(c) |-> Added(c, g, n)]
  BY KeptReaches
<1>2. QED
  BY <1>1 DEF Models!Kept, Added

\* An entry that the list names.
Listed(e) == Models!WellTyped(e) /\ Models!Private(e)

\* The list of models that the first n entries leave, and where each of them comes from.
IsListOf(models, c, at, n) ==
    /\ models \in Seq({Models!Model(c[k]) : k \in 1..n}) /\ at \in [DOMAIN models -> 1..n]
    /\ \A i, j \in DOMAIN at : i < j => at[i] < at[j]
    /\ \A i \in DOMAIN at : models[i] = Models!Model(c[at[i]])
    /\ \A k \in 1..n : k \in {at[i] : i \in DOMAIN at} <=> Listed(c[k])

\* One entry more.
LEMMA ListGrows ==
    ASSUME NEW c, NEW n \in Nat, n # 0, NEW g, NEW at, IsListOf(g[n - 1], c, at, n - 1)
    PROVE  \E new : IsListOf(Added(c, g, n), c, new, n)
<1> DEFINE old == g[n - 1]
           len == Len(old)
<1>1. /\ old \in Seq({Models!Model(c[k]) : k \in 1..(n - 1)}) /\ at \in [DOMAIN old -> 1..(n - 1)]
      /\ \A i, j \in DOMAIN at : i < j => at[i] < at[j]
      /\ \A i \in DOMAIN at : old[i] = Models!Model(c[at[i]])
      /\ \A k \in 1..(n - 1) : k \in {at[i] : i \in DOMAIN at} <=> Listed(c[k])
  BY DEF IsListOf
<1> HIDE DEF old
<1>2. old \in Seq({Models!Model(c[k]) : k \in 1..n}) /\ len \in Nat /\ DOMAIN old = 1..len
      /\ n \in 1..n /\ \A k \in 1..n : k = n \/ k \in 1..(n - 1)
  <2>1. {Models!Model(c[k]) : k \in 1..(n - 1)} \subseteq {Models!Model(c[k]) : k \in 1..n}
    OBVIOUS
  <2>2. QED
    BY <1>1, <2>1, LenProperties, SeqMonotonic
<1>3. CASE Listed(c[n])
  <2> DEFINE models == Append(old, Models!Model(c[n]))
             new == [i \in 1..(len + 1) |-> IF i = len + 1 THEN n ELSE at[i]]
  <2>1. Added(c, g, n) = models
    BY <1>3 DEF Added, Listed, old
  <2>2. /\ models \in Seq({Models!Model(c[k]) : k \in 1..n}) /\ DOMAIN models = 1..(len + 1)
        /\ models[len + 1] = Models!Model(c[n]) /\ \A i \in 1..len : models[i] = old[i]
    <3>1. Models!Model(c[n]) \in {Models!Model(c[k]) : k \in 1..n}
      BY <1>2
    <3> HIDE DEF models
    <3>2. QED
      BY <1>2, <3>1, AppendProperties DEF models
  <2> HIDE DEF models
  <2>3. ASSUME NEW i \in 1..len PROVE at[i] \in 1..(n - 1) /\ new[i] = at[i]
    <3>1. i \in 1..(len + 1) /\ i # len + 1
      BY <1>2
    <3>2. at[i] \in 1..(n - 1)
      BY <1>1, <1>2
    <3>3. QED
      BY <3>1, <3>2
  <2>4. new[len + 1] = n /\ DOMAIN new = 1..(len + 1)
    BY <1>2
  <2> HIDE DEF new
  <2>5. \A i \in 1..(len + 1) : i = len + 1 \/ i \in 1..len
    BY <1>2
  <2>6. new \in [DOMAIN models -> 1..n]
    <3>1. \A i \in 1..(len + 1) : new[i] \in 1..n
      BY <1>2, <2>3, <2>4, <2>5
    <3>2. QED
      BY <2>2, <2>4, <3>1 DEF new
  <2>7. ASSUME NEW i \in DOMAIN new, NEW j \in DOMAIN new, i < j PROVE new[i] < new[j]
    <3>1. i \in 1..len /\ new[i] = at[i] /\ at[i] \in 1..(n - 1)
      BY <1>2, <2>3, <2>4, <2>7
    <3>2. CASE j = len + 1
      BY <2>4, <3>1, <3>2
    <3>3. CASE j \in 1..len
      BY <1>1, <1>2, <2>3, <2>7, <3>1, <3>3
    <3>4. QED
      BY <2>4, <2>5, <3>2, <3>3
  <2>8. ASSUME NEW i \in DOMAIN new PROVE models[i] = Models!Model(c[new[i]])
    BY <1>1, <1>2, <2>2, <2>3, <2>4, <2>5
  <2>9. ASSUME NEW k \in 1..n PROVE k \in {new[i] : i \in DOMAIN new} <=> Listed(c[k])
    <3>1. CASE k = n
      BY <1>2, <1>3, <2>4, <3>1
    <3>2. CASE k \in 1..(n - 1)
      <4>1. k # n
        BY <3>2
      <4>2. DOMAIN at = 1..len /\ \A i \in 1..len : i \in 1..(len + 1)
        BY <1>1, <1>2
      <4>3. k \in {new[i] : i \in DOMAIN new} => k \in {at[i] : i \in DOMAIN at}
        BY <2>3, <2>4, <2>5, <4>1, <4>2
      <4>4. k \in {at[i] : i \in DOMAIN at} => k \in {new[i] : i \in DOMAIN new}
        BY <2>3, <2>4, <4>2
      <4>5. QED
        BY <1>1, <3>2, <4>3, <4>4
    <3>3. QED
      BY <1>2, <3>1, <3>2
  <2>10. IsListOf(models, c, new, n)
    BY <2>2, <2>6, <2>7, <2>8, <2>9 DEF IsListOf
  <2>11. QED
    BY <2>1, <2>10
<1>4. CASE ~ Listed(c[n])
  <2>1. Added(c, g, n) = old
    BY <1>4 DEF Added, Listed, old
  <2>2. at \in [DOMAIN old -> 1..n]
    BY <1>1, <1>2
  <2>3. ASSUME NEW k \in 1..n PROVE k \in {at[i] : i \in DOMAIN at} <=> Listed(c[k])
    BY <1>1, <1>2, <1>4
  <2>4. IsListOf(old, c, at, n)
    BY <1>1, <1>2, <2>2, <2>3 DEF IsListOf
  <2>5. QED
    BY <2>1, <2>4
<1>5. QED
  BY <1>3, <1>4

\* What is kept is a list of the entries to be listed: the least number of entries for
\* which it is not would follow one for which it is.
LEMMA KeptIsList ==
    ASSUME NEW c, Len(c) \in Nat
    PROVE  \E at : IsListOf(Models!ParsePrivate(c), c, at, Len(c))
<1> DEFINE IsList(m) == \E at : IsListOf(Models!Kept(c)[m], c, at, m)
           Wrong == {m \in 0..Len(c) : ~IsList(m)}
<1>1. \A n \in 0..Len(c) : Models!Kept(c)[n] = Added(c, Models!Kept(c), n)
  BY KeptUnfolds
<1>2. IsList(0)
  <2>1. Models!Kept(c)[0] = <<>>
    BY <1>1 DEF Added
  <2>2. IsListOf(<<>>, c, <<>>, 0)
    BY DEF IsListOf
  <2>3. QED
    BY <2>1, <2>2
<1>3. CASE Wrong # {}
  <2>1. Wrong \in SUBSET Nat
    OBVIOUS
  <2> HIDE DEF IsList
  <2>2. PICK m \in Wrong : \A k \in Wrong : m <= k
    BY <1>3, <2>1, LeastExists
  <2>3. m \in 0..Len(c) /\ ~IsList(m) /\ m # 0
    BY <1>2, <2>2
  <2>4. m \in Nat /\ m - 1 \in 0..Len(c) /\ IsList(m - 1)
    BY <2>2, <2>3
  <2>5. PICK at : IsListOf(Models!Kept(c)[m - 1], c, at, m - 1)
    BY <2>4 DEF IsList
  <2>6. \E new : IsListOf(Added(c, Models!Kept(c), m), c, new, m)
    BY <2>3, <2>4, <2>5, ListGrows
  <2>7. QED
    BY <1>1, <2>3, <2>6 DEF IsList
<1>4. CASE Wrong = {}
  <2>1. Len(c) \in 0..Len(c)
    OBVIOUS
  <2>2. QED
    BY <1>4, <2>1 DEF Models!ParsePrivate
<1>5. QED
  BY <1>3, <1>4

\* A lookup answers with the first of the entries listed under the id, if there is one.
LEMMA FindIsFirst ==
    ASSUME NEW c \in Seq(Models!Entries), NEW id,
           NEW good,
           good = {i \in DOMAIN c :
                      Models!WellTyped(c[i]) /\ Models!Private(c[i]) /\ c[i].id = id}
    PROVE  /\ good = {} => Models!Find(c, id) = <<>>
           /\ good # {} => \E i \in good : /\ Models!Find(c, id) = <<Models!Model(c[i])>>
                                           /\ \A j \in good : i <= j
<1> DEFINE models == Models!ParsePrivate(c)
           same   == {i \in DOMAIN models : models[i].id = id}
           first  == CHOOSE i \in same : \A j \in same : i <= j
<1>1. Len(c) \in Nat /\ DOMAIN c = 1..Len(c)
  BY LenProperties
<1>2. PICK at : IsListOf(models, c, at, Len(c))
  BY <1>1, KeptIsList
<1>3. Models!Find(c, id) = IF same = {} THEN <<>> ELSE <<models[first]>>
  BY DEF Models!Find
<1> HIDE DEF models
<1>4. /\ models \in Seq({Models!Model(c[k]) : k \in 1..Len(c)})
      /\ at \in [DOMAIN models -> 1..Len(c)]
      /\ \A i, j \in DOMAIN at : i < j => at[i] < at[j]
      /\ \A i \in DOMAIN at : models[i] = Models!Model(c[at[i]])
      /\ \A k \in 1..Len(c) : k \in {at[i] : i \in DOMAIN at} <=> Listed(c[k])
  BY <1>2 DEF IsListOf
<1>5. DOMAIN models = 1..Len(models) /\ Len(models) \in Nat /\ DOMAIN at = DOMAIN models
  BY <1>4, LenProperties
<1>6. ASSUME NEW i \in same PROVE at[i] \in good /\ models[i] = Models!Model(c[at[i]])
  <2>1. /\ at[i] \in 1..Len(c) /\ models[i] = Models!Model(c[at[i]])
        /\ models[i].id = id /\ Listed(c[at[i]])
    BY <1>4, <1>5
  <2>2. QED
    BY <1>1, <2>1 DEF Models!Model, Listed
<1>7. ASSUME NEW k \in good PROVE \E i \in same : at[i] = k
  <2>1. k \in 1..Len(c) /\ Listed(c[k]) /\ c[k].id = id
    BY <1>1 DEF Listed
  <2>2. PICK i \in DOMAIN models : at[i] = k
    BY <1>4, <1>5, <2>1
  <2>3. models[i].id = id
    BY <1>4, <1>5, <2>1, <2>2 DEF Models!Model
  <2>4. QED
    BY <2>2, <2>3
<1> HIDE DEF same, first
<1>8. CASE good = {}
  BY <1>3, <1>6, <1>8
<1>9. CASE good # {}
  <2>1. same # {} /\ same \in SUBSET Nat /\ same \subseteq DOMAIN at
    BY <1>5, <1>7, <1>9 DEF same
  <2>2. first \in same /\ \A j \in same : first <= j
    <3>1. \E i \in same : \A j \in same : i <= j
      BY <2>1, LeastExists
    <3>2. QED
      BY <3>1 DEF first
  <2>3. at[first] \in good /\ Models!Find(c, id) = <<Models!Model(c[at[first]])>>
    BY <1>3, <1>6, <2>1, <2>2
  <2>4. ASSUME NEW k \in good PROVE at[first] <= k
    <3>1. PICK j \in same : at[j] = k
      BY <1>7
    <3>2. /\ first <= j /\ first \in Nat /\ j \in Nat /\ first \in DOMAIN at /\ j \in DOMAIN at
          /\ at[first] \in Nat /\ at[j] \in Nat
      <4>1. /\ first \in DOMAIN at /\ j \in DOMAIN at /\ first <= j
            /\ first \in Nat /\ j \in Nat
        BY <2>1, <2>2
      <4>2. \A i \in DOMAIN at : at[i] \in 1..Len(c)
        BY <1>4, <1>5
      <4>3. QED
        BY <1>1, <4>1, <4>2
    <3>3. CASE first = j
      BY <3>1, <3>2, <3>3
    <3>4. CASE first < j
      <4>1. at[first] < at[j]
        BY <1>4, <3>2, <3>4
      <4>2. QED
        BY <3>1, <3>2, <4>1
    <3>5. QED
      BY <3>2, <3>3, <3>4
  <2>5. QED
    BY <1>9, <2>3, <2>4
<1>10. QED
  BY <1>8, <1>9

\* What the property says of an answer to one route over one catalogue.
ListIsRight(c, models) ==
    \E at \in [DOMAIN models -> DOMAIN c] :
       /\ \A i, j \in DOMAIN at : i < j => at[i] < at[j]
       /\ \A i \in DOMAIN at : models[i] = Models!Model(c[at[i]])
       /\ \A k \in DOMAIN c :
             k \in {at[i] : i \in DOMAIN at} <=> Models!WellTyped(c[k]) /\ Models!Private(c[k])

LookupIsRight(c, id, r) ==
    LET at == {i \in DOMAIN c : Models!WellTyped(c[i]) /\ Models!Private(c[i]) /\ c[i].id = id}
    IN IF at = {} THEN r.status = 404
       ELSE /\ r.status = 200
            /\ \E i \in at : r.models = <<Models!Model(c[i])>> /\ \A j \in at : i <= j

AnswerIsRight(c, route, r) ==
    /\ route = "list" /\ r.status = 200 => ListIsRight(c, r.models)
    /\ route \in Models!Ids /\ r.status \notin {502, 503} => LookupIsRight(c, route, r)

\* The property, of the answer there is and of the next one.
LEMMA AnswerIsRightNow == Models!OneBadEntryHidesNoOther <=> AnswerIsRight(data, call, result)
BY DEF Models!OneBadEntryHidesNoOther, AnswerIsRight, ListIsRight, LookupIsRight

LEMMA AnswerIsRightNext == Models!OneBadEntryHidesNoOther' <=> AnswerIsRight(data', call', result')
BY DEF Models!OneBadEntryHidesNoOther, AnswerIsRight, ListIsRight, LookupIsRight,
       Models!WellTyped, Models!Private, Models!Model, Models!Ids, Models!Currency,
       Models!ContextLength

LEMMA CatalogueStep ==
    ASSUME Models!OneBadEntryHidesNoOther, Models!Next
    PROVE  Models!OneBadEntryHidesNoOther'
<1>1. ASSUME Models!Fetch PROVE data' \in Seq(Models!Entries)
  <2>1. PICK n \in 0..MaxEntries : data' \in [1..n -> Models!Entries]
    BY <1>1, PpqClientAssumption DEF Models!Fetch
  <2>2. QED
    BY <2>1
<1>2. CASE Models!List
  <2>1. data' \in Seq(Models!Entries) /\ call' = "list" /\ call' \notin Models!Ids
        /\ (result' \in Models!Failures \/ result' = Models!Answer(200, Models!ParsePrivate(data')))
    BY <1>1, <1>2 DEF Models!List, Models!Ids
  <2>2. CASE result' = Models!Answer(200, Models!ParsePrivate(data'))
    <3>1. Len(data') \in Nat /\ DOMAIN data' = 1..Len(data')
      BY <2>1, LenProperties
    <3>2. PICK at : IsListOf(Models!ParsePrivate(data'), data', at, Len(data'))
      BY <3>1, KeptIsList
    <3>3. result'.models = Models!ParsePrivate(data')
      BY <2>2 DEF Models!Answer
    <3>4. ListIsRight(data', result'.models)
      BY <3>1, <3>2, <3>3 DEF IsListOf, Listed, ListIsRight
    <3>5. QED
      BY <2>1, <3>4, AnswerIsRightNext DEF AnswerIsRight
  <2>3. CASE result' \in Models!Failures
    BY <2>1, <2>3, AnswerIsRightNext DEF AnswerIsRight, Models!Failures, Models!Answer
  <2>4. QED
    BY <2>1, <2>2, <2>3
<1>3. ASSUME NEW id \in Models!Ids, Models!Get(id) PROVE Models!OneBadEntryHidesNoOther'
  <2>1. data' \in Seq(Models!Entries) /\ call' = id /\ call' # "list"
        /\ (\/ result' \in Models!Failures
            \/ result' = Models!Answer(IF Models!Find(data', id) = <<>> THEN 404 ELSE 200,
                                       Models!Find(data', id)))
    BY <1>1, <1>3 DEF Models!Get, Models!Ids
  <2> DEFINE good ==
          {i \in DOMAIN data' :
              Models!WellTyped(data'[i]) /\ Models!Private(data'[i]) /\ data'[i].id = id}
  <2>2. /\ good = {} => Models!Find(data', id) = <<>>
        /\ good # {} =>
              \E i \in good : /\ Models!Find(data', id) = <<Models!Model(data'[i])>>
                              /\ \A j \in good : i <= j
    BY <2>1, FindIsFirst
  <2> HIDE DEF good
  <2>3. CASE result' \in Models!Failures
    BY <2>1, <2>3, AnswerIsRightNext DEF AnswerIsRight, Models!Failures, Models!Answer
  <2>4. CASE result' = Models!Answer(IF Models!Find(data', id) = <<>> THEN 404 ELSE 200,
                                     Models!Find(data', id))
    <3>1. good = {} => result'.status = 404
      BY <2>2, <2>4 DEF Models!Answer
    <3>2. ASSUME good # {}
          PROVE  /\ result'.status = 200
                 /\ \E i \in good : /\ result'.models = <<Models!Model(data'[i])>>
                                    /\ \A j \in good : i <= j
      <4>1. PICK i \in good : /\ Models!Find(data', id) = <<Models!Model(data'[i])>>
                              /\ \A j \in good : i <= j
        BY <2>2, <3>2
      <4>2. Models!Find(data', id) # <<>>
        BY <4>1
      <4>3. QED
        BY <2>4, <4>1, <4>2 DEF Models!Answer
    <3>3. LookupIsRight(data', id, result')
      BY <3>1, <3>2 DEF LookupIsRight, good
    <3>4. QED
      BY <2>1, <3>3, AnswerIsRightNext DEF AnswerIsRight
  <2>5. QED
    BY <2>1, <2>3, <2>4
<1>4. CASE UNCHANGED Models!vars
  BY <1>4, AnswerIsRightNow, AnswerIsRightNext DEF Models!vars
<1>5. QED
  BY <1>2, <1>3, <1>4 DEF Models!Next

LEMMA CatalogueSame ==
    ASSUME Models!OneBadEntryHidesNoOther, UNCHANGED catalogueVars
    PROVE  Models!OneBadEntryHidesNoOther'
BY AnswerIsRightNow, AnswerIsRightNext DEF catalogueVars

LEMMA CatalogueInit == Models!Init => Models!OneBadEntryHidesNoOther
BY AnswerIsRightNow DEF Models!Init, AnswerIsRight, Models!Ids

-----------------------------------------------------------------------------
(* The client, whatever it is used for. *)
ClientInv ==
    /\ BuildInv /\ SessionsInv /\ OutgoingInv
    /\ use \in {"none", "request", "models", "sessions"}
    /\ use # "none" => stage = "built"

LEMMA ClientInitial == ClientInit => ClientInv
<1> SUFFICES ASSUME ClientInit PROVE ClientInv
  OBVIOUS
<1>1. BuildInv
  BY BuildInit DEF ClientInit
<1>2. SessionsInv
  BY SessionsInit DEF ClientInit
<1>3. OutgoingInv
  BY OutgoingInit DEF ClientInit
<1>4. QED
  BY <1>1, <1>2, <1>3 DEF ClientInit, ClientInv

\* A built client stays as it is.
LEMMA BuiltRests ==
    ASSUME ClientInv, Next
    PROVE  BuildInv' /\ (use = "none" \/ UNCHANGED vars)
<1>1. BuildInv'
  BY BuildStep DEF ClientInv
<1>2. stage = "built" => UNCHANGED vars
  BY DEF Next, Unconfigured, AttestOk, AttestFails, Fetch, FetchFails, CheckLength, CheckKem,
         CheckSuitesLen, CheckSuite, Compare
<1>3. QED
  BY <1>1, <1>2 DEF ClientInv

LEMMA ClientInductive ==
    ClientInv /\ [ClientNext]_<<vars, use, outgoingVars, catalogueVars, sessionVars>> => ClientInv'
<1> SUFFICES ASSUME ClientInv,
                    [ClientNext]_<<vars, use, outgoingVars, catalogueVars, sessionVars>>
             PROVE  ClientInv'
  OBVIOUS
<1>1. BuildInv /\ SessionsInv /\ OutgoingInv
      /\ use \in {"none", "request", "models", "sessions"} /\ (use # "none" => stage = "built")
  BY DEF ClientInv
<1>2. CASE Next /\ UNCHANGED <<use, outgoingVars, catalogueVars, sessionVars>>
  <2>1. BuildInv' /\ (use = "none" \/ UNCHANGED vars)
    BY <1>2, BuiltRests
  <2>2. SessionsInv'
    BY <1>1, <1>2, SessionsStutter
  <2>3. OutgoingInv'
    <3>1. CASE use = "none"
      <4>1. /\ use' = "none" /\ client' = NoClient /\ path' = "start"
            /\ wire' = Outgoing!Silent
        BY <1>1, <1>2, <3>1 DEF OutgoingInv, outgoingVars
      <4>2. QED
        BY <4>1 DEF OutgoingInv, StaysHome, SameRequest, Outgoing!StaysHome,
                    Outgoing!SameRequest, Outgoing!Silent, NoClient
    <3>2. CASE UNCHANGED vars
      BY <1>1, <1>2, <3>2, OutgoingSame DEF vars
    <3>3. QED
      BY <2>1, <3>1, <3>2
  <2>4. (use # "none" => stage = "built")'
    BY <1>1, <1>2, <2>1 DEF vars
  <2>5. QED
    BY <1>1, <1>2, <2>1, <2>2, <2>3, <2>4 DEF ClientInv
<1>3. CASE UseForRequest
  <2>1. /\ stage = "built" /\ use = "none" /\ use' = "request" /\ UNCHANGED <<vars, sessionVars>>
        /\ client' \in Outgoing!Clients /\ client'.key = bound
        /\ UNCHANGED <<path, wire>>
    BY <1>3 DEF UseForRequest, UseFor
  <2>2. bound = proved /\ UNCHANGED <<stage, proved>>
    BY <1>1, <2>1 DEF BuildInv, vars
  <2>3. path = "start" /\ wire = Outgoing!Silent
    BY <1>1, <2>1 DEF OutgoingInv
  <2>4. OutgoingInv'
    BY <2>1, <2>2, <2>3 DEF OutgoingInv, StaysHome, SameRequest, Outgoing!StaysHome,
                    Outgoing!SameRequest, Outgoing!Silent, Outgoing!Clients, Outgoing!Bases,
                    Outgoing!Origin
  <2>5. QED
    BY <1>1, <2>1, <2>2, <2>4, BuildStutter, SessionsStutter DEF ClientInv
<1>4. CASE UseForModels
  <2>1. /\ stage = "built" /\ use = "none" /\ use' = "models"
        /\ UNCHANGED <<vars, outgoingVars, sessionVars>>
    BY <1>4 DEF UseForModels, UseFor
  <2>2. OutgoingInv'
    BY <1>1, <2>1 DEF OutgoingInv, outgoingVars, StaysHome, SameRequest, Outgoing!StaysHome,
                    Outgoing!SameRequest, Outgoing!Silent, NoClient
  <2>3. stage' = stage
    BY <2>1 DEF vars
  <2>4. QED
    BY <1>1, <2>1, <2>2, <2>3, BuildStutter, SessionsStutter DEF ClientInv
<1>5. CASE UseForSessions
  <2>1. /\ stage = "built" /\ use = "none" /\ use' = "sessions" /\ base' \in NonceBase
        /\ UNCHANGED <<vars, outgoingVars, session, responses, opener, got>>
    BY <1>5 DEF UseForSessions, UseFor
  <2>2. OutgoingInv'
    BY <1>1, <2>1 DEF OutgoingInv, outgoingVars, StaysHome, SameRequest, Outgoing!StaysHome,
                    Outgoing!SameRequest, Outgoing!Silent, NoClient
  <2>3. stage' = stage
    BY <2>1 DEF vars
  <2>4. QED
    BY <1>1, <2>1, <2>2, <2>3, BuildStutter, SessionsDraw DEF ClientInv
<1>6. CASE use = "request" /\ Outgoing!Next /\ UNCHANGED <<vars, use, catalogueVars, sessionVars>>
  <2>1. UNCHANGED <<stage, proved>>
    BY <1>6 DEF vars
  <2>2. QED
    BY <1>1, <1>6, <2>1, BuildStutter, SessionsStutter, OutgoingStep DEF ClientInv
<1>7. CASE use = "models" /\ Models!Next /\ UNCHANGED <<vars, use, outgoingVars, sessionVars>>
  <2>1. UNCHANGED <<stage, proved>>
    BY <1>7 DEF vars
  <2>2. QED
    BY <1>1, <1>7, <2>1, BuildStutter, SessionsStutter, OutgoingSame DEF ClientInv
<1>8. CASE use = "sessions" /\ Sessions!Next /\ UNCHANGED <<vars, use, outgoingVars, catalogueVars>>
  <2>1. UNCHANGED <<stage, proved>>
    BY <1>8 DEF vars
  <2>2. QED
    BY <1>1, <1>8, <2>1, BuildStutter, SessionsStep, OutgoingSame DEF ClientInv
<1>9. CASE UNCHANGED <<vars, use, outgoingVars, catalogueVars, sessionVars>>
  <2>1. UNCHANGED <<stage, proved>>
    BY <1>9 DEF vars
  <2>2. QED
    BY <1>1, <1>9, <2>1, BuildStutter, SessionsStutter, OutgoingSame DEF ClientInv
<1>10. QED
  BY <1>2, <1>3, <1>4, <1>5, <1>6, <1>7, <1>8, <1>9 DEF ClientNext

LEMMA ClientTyped == ClientInv => TypeOK
<1> SUFFICES ASSUME ClientInv PROVE TypeOK
  OBVIOUS
<1>1. BuildInv /\ OutgoingInv /\ Sessions!TypeOK
  BY SessionsTyped DEF ClientInv
<1>2. stage = "built" => proved \in Keys /\ bound \in Keys
  BY <1>1 DEF BuildInv, Errs
<1>3. client # NoClient => client \in Outgoing!Clients
  BY <1>1 DEF OutgoingInv
<1>4. QED
  BY <1>1, <1>2, <1>3 DEF TypeOK, BuildInv

LEMMA ClientStepIsRight ==
    ClientInv /\ [ClientNext]_<<vars, use, outgoingVars, catalogueVars, sessionVars>>
      => [StepIsRight]_vars
<1> SUFFICES ASSUME ClientInv,
                    [ClientNext]_<<vars, use, outgoingVars, catalogueVars, sessionVars>>
             PROVE  StepIsRight \/ UNCHANGED vars
  OBVIOUS
<1>1. Next \/ UNCHANGED vars
  BY DEF ClientNext, UseForRequest, UseForModels, UseForSessions, UseFor
<1>2. QED
  BY <1>1, BuildStep DEF ClientInv

-----------------------------------------------------------------------------
THEOREM ClientInvariance == ClientSpec => []ClientInv
BY ClientInitial, ClientInductive, PTL DEF ClientSpec

\* The type invariant: a client that is built is bound to the key that was proved.
THEOREM ClientTypeCorrect == ClientSpec => []TypeOK
BY ClientInvariance, ClientTyped, PTL

\* Whatever bytes arrive, build reads none beyond them, and accepts a configuration
\* if and only if it publishes the proved key for the suite in use.
THEOREM BuildsOnWhatIsPublished == ClientSpec => BuiltIffPublished
<1>1. ClientInv /\ [ClientNext]_<<vars, use, outgoingVars, catalogueVars, sessionVars>>
        => [StepIsRight]_vars
  BY ClientStepIsRight
<1>2. QED
  BY <1>1, ClientInvariance, PTL DEF ClientSpec, BuiltIffPublished

\* Token and body go to the configured server only, sealed to the key that was proved.
THEOREM RequestsStayHome == ClientSpec => []StaysHome
<1>1. ClientInv => StaysHome
  BY DEF ClientInv, OutgoingInv
<1>2. QED
  BY <1>1, ClientInvariance, PTL

\* Both transports put the same request on the wire, under the headers it owns.
THEOREM RequestsAreTheSame == ClientSpec => []SameRequest
<1>1. ClientInv => SameRequest
  BY DEF ClientInv, OutgoingInv
<1>2. QED
  BY <1>1, ClientInvariance, PTL

\* Whatever else PPQ's catalogue holds, the list names every private model that parses,
\* in order and no other, and a lookup finds the first of those with its id.
THEOREM ListsWhatParses == ClientSpec => []OneBadEntryHidesNoOther
<1>1. ClientInit => Models!OneBadEntryHidesNoOther
  BY CatalogueInit DEF ClientInit
<1>2. Models!OneBadEntryHidesNoOther
        /\ [ClientNext]_<<vars, use, outgoingVars, catalogueVars, sessionVars>>
        => Models!OneBadEntryHidesNoOther'
  <2>1. [ClientNext]_<<vars, use, outgoingVars, catalogueVars, sessionVars>>
          => Models!Next \/ UNCHANGED catalogueVars
    BY DEF ClientNext, UseForRequest, UseForModels, UseForSessions
  <2>2. QED
    BY <2>1, CatalogueStep, CatalogueSame
<1>3. QED
  BY <1>1, <1>2, PTL DEF ClientSpec, OneBadEntryHidesNoOther

\* A call decrypts the beginning of one response, and of one made to it.
THEOREM CallsOpenTheirOwn == ClientSpec => []OneOwnResponse
<1>1. ClientInv => OneOwnResponse
  BY SessionsOwn DEF ClientInv, OneOwnResponse
<1>2. QED
  BY <1>1, ClientInvariance, PTL

\* No two frames are sealed under one key and one nonce.
THEOREM NoncesAreFresh == ClientSpec => []KeyNonceUnique
<1>1. ClientInv => KeyNonceUnique
  BY SessionsUnique DEF ClientInv, KeyNonceUnique
<1>2. QED
  BY <1>1, ClientInvariance, PTL

=============================================================================
