------------------------------ MODULE Catalogue ------------------------------
(* The model catalogue: PpqClient::list_models, parse_private in models.rs, and *)
(* the two routes of server.rs that serve it.  An entry is what the parse can    *)
(* tell apart of a JSON value; a field may be absent or of the wrong type.       *)
EXTENDS Naturals, Sequences

CONSTANT MaxEntries    \* bound: entries in the catalogue PPQ serves

VARIABLES
    data,      \* the entries of PPQ's catalogue, when it was fetched
    call,      \* the route that was called: "none", "list", or the id of a model
    result     \* its answer

vars == <<data, call, result>>

Ids     == {"a", "b"}
Entries ==
    [id : Ids \cup {"absent", "wrong"}, level : {"e2e", "other", "absent"},
     context : {"number", "absent", "wrong"}, pricing : {"full", "partial", "null", "wrong"}]

\* serde: a field may be absent if it has a default, but never of the wrong type.
\* The id has no default.
WellTyped(e) == e.id \in Ids /\ e.context # "wrong" /\ e.pricing # "wrong"

Private(e) == e.level = "e2e"

\* A price without a currency keeps the empty default of its own field; without any
\* price there is one of zero dollars.
Currency(e) ==
    CASE e.pricing = "null"    -> "USD"
      [] e.pricing = "partial" -> ""
      [] OTHER                 -> "quoted"

ContextLength(e) == IF e.context = "number" THEN 8 ELSE 0

Model(e) == [id |-> e.id, context |-> ContextLength(e), currency |-> Currency(e)]

\* Bug: the catalogue is deserialized as entries, so one of them can fail it.
ParseAllOrNothing(c) ==
    LET kept == SelectSeq(c, Private)
    IN IF \A i \in DOMAIN c : WellTyped(c[i]) THEN [i \in DOMAIN kept |-> Model(kept[i])]
       ELSE <<>>

\* parse_private: every entry on its own, kept if it parses and is e2e.  What the first
\* n entries leave of the list, for every n.
Kept(c) ==
    LET first[n \in 0..Len(c)] ==
            IF n = 0 THEN <<>>
            ELSE IF WellTyped(c[n]) /\ Private(c[n]) THEN Append(first[n - 1], Model(c[n]))
            ELSE first[n - 1]
    IN first

ParsePrivate(c) == Kept(c)[Len(c)]

\* Bug: the entry is looked up before it is known to parse.
FindFirst(c, id) ==
    LET same == SelectSeq(c, LAMBDA e : e.id = id)
    IN IF same # <<>> /\ WellTyped(Head(same)) /\ Private(Head(same)) THEN <<Model(Head(same))>>
       ELSE <<>>

\* get_model: the first of the listed models with that id, if there is one.
Find(c, id) ==
    LET models == ParsePrivate(c)
        same   == {i \in DOMAIN models : models[i].id = id}
    IN IF same = {} THEN <<>> ELSE <<models[CHOOSE i \in same : \A j \in same : i <= j]>>

Answer(status, models) == [status |-> status, models |-> models]

\* The upstream request fails, or its body has no list of entries: 502 either way; or
\* with_reattest must attest before it, and the bundle does not verify: 503.
Failures == {Answer(s, <<>>) : s \in {502, 503}}

Fetch == data' \in UNION {[1..n -> Entries] : n \in 0..MaxEntries}

List ==
    /\ call = "none" /\ call' = "list" /\ Fetch
    /\ \/ result' \in Failures
       \/ result' = Answer(200, ParsePrivate(data'))

Get(id) ==
    /\ call = "none" /\ call' = id /\ Fetch
    /\ \/ result' \in Failures
       \/ result' = Answer(IF Find(data', id) = <<>> THEN 404 ELSE 200, Find(data', id))

Init == data = <<>> /\ call = "none" /\ result = Answer(0, <<>>)

Next ==
    \/ List \/ \E id \in Ids : Get(id)
    \/ call # "none" /\ UNCHANGED vars

Spec == Init /\ [][Next]_vars

(* ------------------------------ properties -------------------------------- *)
\* models.rs:57-61, server.rs:102-113: a malformed entry, or one of another kind,
\* hides no private model, and none but the private ones are listed, in PPQ's order;
\* a model is found under its id exactly if the list would name it, and is then the
\* one the list has first.
OneBadEntryHidesNoOther ==
    /\ call = "list" /\ result.status = 200 =>
          \E at \in [DOMAIN result.models -> DOMAIN data] :
             /\ \A i, j \in DOMAIN at : i < j => at[i] < at[j]
             /\ \A i \in DOMAIN at : result.models[i] = Model(data[at[i]])
             /\ \A k \in DOMAIN data :
                   k \in {at[i] : i \in DOMAIN at} <=> WellTyped(data[k]) /\ Private(data[k])
    /\ call \in Ids /\ result.status \notin {502, 503} =>
          LET at == {i \in DOMAIN data : WellTyped(data[i]) /\ Private(data[i]) /\ data[i].id = call}
          IN IF at = {} THEN result.status = 404
             ELSE /\ result.status = 200
                  /\ \E i \in at : result.models = <<Model(data[i])>> /\ \A j \in at : i <= j

=============================================================================
