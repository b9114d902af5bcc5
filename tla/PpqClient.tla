----------------------------- MODULE PpqClient -----------------------------
(* A PpqClient from its construction (ClientBuild) to its use: the catalogue it *)
(* reads (Catalogue), the requests that leave it (OutgoingRequest), and the     *)
(* sealed sessions of several calls (SealedSessions).  A client that is built    *)
(* has no state that its methods change, so one kind of use at a time is enough. *)
EXTENDS ClientBuild

CONSTANTS MaxId, MaxTail, MaxEntries, Calls, NonceLen, SeqLen, LastSeq, BeBytes, MaxResponses,
          MaxFrames

VARIABLES
    use,                                       \* what the client is used for
    client, path, args, wire, error,           \* of OutgoingRequest
    data, call, result,                        \* of Catalogue
    base, session, responses, opener, got      \* of SealedSessions

outgoingVars  == <<client, path, args, wire, error>>
catalogueVars == <<data, call, result>>
sessionVars   == <<base, session, responses, opener, got>>

Outgoing == INSTANCE OutgoingRequest
Models   == INSTANCE Catalogue
Sessions == INSTANCE SealedSessions

ASSUME PpqClientAssumption ==
    Sessions!SessionsAssumption /\ MaxId \in Nat /\ MaxTail \in Nat /\ MaxEntries \in Nat

NoClient  == [key |-> <<>>]
NonceBase == [1..NonceLen -> Sessions!Bytes]

UseFor(what) == stage = "built" /\ use = "none" /\ use' = what /\ UNCHANGED vars

\* The base URL and the API key are the caller's, the key is the one build proved.
UseForRequest ==
    /\ UseFor("request")
    /\ client' \in {c \in Outgoing!Clients : c.key = bound}
    /\ UNCHANGED <<path, args, wire, error, catalogueVars, sessionVars>>

UseForModels ==
    UseFor("models") /\ UNCHANGED <<outgoingVars, catalogueVars, sessionVars>>

UseForSessions ==
    /\ UseFor("sessions")
    /\ base' \in NonceBase
    /\ UNCHANGED <<session, responses, opener, got, outgoingVars, catalogueVars>>

ClientInit ==
    /\ Init /\ use = "none"
    /\ client = NoClient /\ path = "start" /\ args = <<>>
    /\ wire = Outgoing!Silent /\ error = Outgoing!NoError
    /\ Models!Init
    /\ Sessions!Init /\ base = [i \in 1..NonceLen |-> 0]

ClientNext ==
    \/ Next /\ UNCHANGED <<use, outgoingVars, catalogueVars, sessionVars>>
    \/ UseForRequest \/ UseForModels \/ UseForSessions
    \/ /\ use = "request" /\ Outgoing!Next
       /\ UNCHANGED <<vars, use, catalogueVars, sessionVars>>
    \/ /\ use = "models" /\ Models!Next
       /\ UNCHANGED <<vars, use, outgoingVars, sessionVars>>
    \/ /\ use = "sessions" /\ Sessions!Next
       /\ UNCHANGED <<vars, use, outgoingVars, catalogueVars>>

ClientSpec ==
    ClientInit /\ [][ClientNext]_<<vars, use, outgoingVars, catalogueVars, sessionVars>>

(* ------------------------------ properties -------------------------------- *)
TypeOK ==
    /\ stage \in Errs \cup {"configure", "fetch", "length", "kem", "suites", "suite",
                            "compare", "built"}
    /\ stage = "built" => bound \in Keys /\ proved \in Keys
    /\ client # NoClient => client \in Outgoing!Clients
    /\ Sessions!TypeOK

\* client.rs:1-2, 223-234, 436: whatever the endpoint advertised and whatever URL a
\* caller asks for, bearer token and body go to the configured server only, and the
\* body is sealed to the key the hardware proved.
StaysHome == Outgoing!StaysHome /\ (wire # Outgoing!Silent => wire.sealedTo = proved)

\* client.rs:184-192, 246-248, rig.rs:271-274: both transports send the same request.
SameRequest == Outgoing!SameRequest

\* models.rs:57-61, server.rs:102-113: an entry that does not parse hides no other,
\* from the list or from the lookup.
OneBadEntryHidesNoOther == Models!OneBadEntryHidesNoOther

\* open.rs:3-5, 103-104: a call decrypts one response that was made to it.
OneOwnResponse == Sessions!OneOwnResponse

\* open.rs:92-94, 129-131: no nonce is used twice under one key.
KeyNonceUnique == Sessions!KeyNonceUnique

=============================================================================
