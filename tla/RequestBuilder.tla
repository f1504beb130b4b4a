--------------------------- MODULE RequestBuilder ---------------------------
(***************************************************************************)
(* What build_request (origination llm/request_builder.py) makes of what a *)
(* caller hands it, before any of it leaves for the model's provider: the  *)
(* template's documents, the turns of a history and the tools' schemas,    *)
(* masked where they may name someone, or refused as a whole.              *)
(*                                                                         *)
(* A document is known by its places, the sequences of positions that lead *)
(* into it: at each there is an object, a list or a scalar, and an entry of *)
(* an object has a key.  A key is known by what the builder asks of its    *)
(* text, and so is a scalar.  What the walk (_redact_node) hands down on   *)
(* its way to a place is read off the places above it.  The token budget   *)
(* is Assistant's; the wording of masks is left out.                       *)
(***************************************************************************)
EXTENDS Integers, Sequences, FiniteSets

CONSTANTS
    Givens      \* what callers may hand over: documents, turns and tools

VARIABLES
    given,
    outgoing    \* what was built of it, or Unbuilt, or Refused

requestVars == <<given, outgoing>>

Unbuilt == [is |-> "unbuilt"]
Refused == [is |-> "refused"]

RequestInit == given \in Givens /\ outgoing = Unbuilt

-----------------------------------------------------------------------------
(* The places of a document.                                               *)
UpTo(place, n) == SubSeq(place, 1, n)
AreBeside(p, q) == Len(p) > 0 /\ Len(p) = Len(q) /\ UpTo(p, Len(p) - 1) = UpTo(q, Len(q) - 1)

IsTree(v) == v.is \in {"object", "list"}

-----------------------------------------------------------------------------
(* A key: its text; whether that is a field's name; whether it labels a    *)
(* name, a birth, an address or an employer (identity) or a tax number     *)
(* (number); the pattern it is the label of, the vocabulary its values are *)
(* drawn from, and whether its own text matches a pattern (shaped).        *)
NoKey == [is |-> "none", text |-> "none", field |-> FALSE, identity |-> FALSE,
          number |-> FALSE, gates |-> "none", vocab |-> "none", shaped |-> FALSE]

KeyMask(n) == [is |-> "mask", nth |-> n]

IsFieldName(k) == k.field /\ ~k.shaped

(* Those of an object that lose their key, up to the entry at a place.     *)
Nameless(doc, place) ==
    {q \in DOMAIN doc : /\ AreBeside(q, place) /\ q[Len(q)] <= place[Len(place)]
                        /\ ~IsFieldName(doc[q].key)}

(* Slip: every key that is no field's name is called the same.             *)
Unnumbered(doc, place) == IF IsFieldName(doc[place].key) THEN doc[place].key ELSE KeyMask(1)

(* A key that is no field's name is masked, and masks are told apart.      *)
RedactedKey(doc, place) ==
    IF IsFieldName(doc[place].key) THEN doc[place].key
    ELSE KeyMask(Cardinality(Nameless(doc, place)))

Mask == [is |-> "mask"]

KnownCode(k, v) == v.is = "string" /\ v.code # "none" /\ v.code = k.vocab

(* PiiRedactor.redact finds a value by its own shape or by its label's.    *)
Matches(k, v) == v.shape = "own" \/ (v.shape = "labelled" /\ v.by = k.gates)

LooksLikeNumericIdentity(v) == v.digits \in {"ssn", "birth", "phone"}

(* A known code passes, and a string of several words is masked.  A token  *)
(* that a pattern finds loses what was found and all its digits; a pattern *)
(* that matches in the key leaves the value to its own shape.  Any other   *)
(* string is masked, and a number by its label or by its digits.           *)
RedactScalar(k, v) ==
    IF v.is = "flag" \/ KnownCode(k, v) THEN v
    ELSE IF v.is = "string" /\ v.words THEN Mask
    ELSE IF k.shaped \/ Matches(k, v) THEN [is |-> "fragment", of |-> v]
    ELSE IF v.is = "string" THEN IF v.empty THEN v ELSE Mask
    ELSE IF k.number \/ LooksLikeNumericIdentity(v) THEN Mask
    ELSE v

(* What is at a place has the n-th on the way for its label: an entry,     *)
(* below which there were lists only.                                      *)
Labels(doc, place, n) ==
    /\ doc[UpTo(place, n)].key.is = "key"
    /\ \A m \in n + 1 .. Len(place) : doc[UpTo(place, m)].key.is # "key"

(* Slip: what is in a list has no label.                                   *)
OwnKey(doc, place) == doc[place].key

(* What is in a list is labelled by the list's own key.                    *)
Label(doc, place) ==
    IF \E n \in 1 .. Len(place) : Labels(doc, place, n)
    THEN doc[UpTo(place, CHOOSE n \in 1 .. Len(place) : Labels(doc, place, n))].key
    ELSE NoKey

(* Slip: what lies deeper under an identity key is walked like the rest.   *)
IdentityOfScalars(doc, place) == FALSE

(* The value of an identity key is masked whole, be it a tree.             *)
WithinIdentity(doc, place) == \E n \in 1 .. Len(place) - 1 : doc[UpTo(place, n)].key.identity

RedactedValue(doc, place) ==
    LET v == doc[place].value
    IN IF doc[place].key.identity THEN Mask
       ELSE IF IsTree(v) THEN v
       ELSE RedactScalar(Label(doc, place), v)

RedactDocument(doc) ==
    [place \in {p \in DOMAIN doc : ~WithinIdentity(doc, p)} |->
        [key |-> IF doc[place].key.is = "key" THEN RedactedKey(doc, place) ELSE NoKey,
         value |-> RedactedValue(doc, place)]]

-----------------------------------------------------------------------------
(* Only an object's labels can be masked by: anything else is refused.     *)
RequireJsonObject(doc) == doc[<<>>].value.is = "object"

RoleHolds(turn) == turn.role \in {"user", "assistant"}

BlockTypeByRole == [user |-> "tool_result", assistant |-> "tool_use"]

(* A block's id, name and flag leave as they are, so they must be of the   *)
(* provider's own form; a key that is not the type's is refused.           *)
BlockHolds(block, role) ==
    /\ block.type = BlockTypeByRole[role] /\ ~block.extraKeys
    /\ block.idForm
    /\ block.type = "tool_use" => block.nameForm
    /\ RequireJsonObject(block.content)
    /\ block.type = "tool_result" => block.isError \in {"absent", "bool"}

TurnHolds(turn) ==
    /\ RoleHolds(turn)
    /\ IF turn.content.is = "blocks"
       THEN /\ turn.content.of # <<>>
            /\ \A i \in DOMAIN turn.content.of : BlockHolds(turn.content.of[i], turn.role)
       ELSE RequireJsonObject(turn.content.of)

(* Authored, and so not masked: of the three keys, with a name the         *)
(* provider takes, a description, an object's schema; no name twice.       *)
ToolsHold(tools) ==
    /\ \A i \in DOMAIN tools : tools[i].keys /\ tools[i].nameForm /\ tools[i].described /\ tools[i].schema
    /\ \A i, j \in DOMAIN tools : tools[i].name = tools[j].name => i = j

(* A turn of text is one document, of blocks one each.                     *)
InputsOf(turn) ==
    IF turn.content.is = "blocks" THEN [i \in DOMAIN turn.content.of |-> turn.content.of[i].content]
    ELSE <<turn.content.of>>

RedactedTurn(turn) ==
    LET docs == InputsOf(turn)
    IN [role |-> turn.role, documents |-> [i \in DOMAIN docs |-> RedactDocument(docs[i])]]

(* The template's own document last, as the user's message.                *)
Build ==
    /\ outgoing = Unbuilt
    /\ outgoing' =
          IF /\ \A i \in DOMAIN given.history : TurnHolds(given.history[i])
             /\ ToolsHold(given.tools)
             /\ RequireJsonObject(given.document)
          THEN [is |-> "built",
                turns |-> [i \in DOMAIN given.history |-> RedactedTurn(given.history[i])],
                document |-> RedactDocument(given.document)]
          ELSE Refused
    /\ UNCHANGED given

RequestSpec == RequestInit /\ [][Build]_requestVars

-----------------------------------------------------------------------------
(* What a scalar tells of someone by itself, and what under a label.       *)
TellsItself(v) ==
    \/ v.is = "string" /\ v.names
    \/ v.is = "number" /\ (v.shape = "own" \/ LooksLikeNumericIdentity(v))
TellsUnder(k, v) == v.is = "number" /\ k.number /\ v.digits = "short"

NamesNobody(out, in) ==
    \A p \in DOMAIN out : LET v == out[p].value IN
        /\ v # Mask => \A n \in 1 .. Len(p) : ~in[UpTo(p, n)].key.identity
        /\ v.is # "fragment" =>
              /\ ~TellsItself(v)
              /\ \A n \in 1 .. Len(p) : Labels(in, p, n) => ~TellsUnder(in[UpTo(p, n)].key, v)

(* Every place has come through, or one above it is masked; a tree is as   *)
(* it was; and no two entries of an object have come to one key.           *)
Keeps(out, in) ==
    /\ \A p \in DOMAIN in : \E n \in 0 .. Len(p) :
          UpTo(p, n) \in DOMAIN out /\ (n = Len(p) \/ out[UpTo(p, n)].value = Mask)
    /\ \A p \in DOMAIN out : IsTree(in[p].value) => out[p].value \in {in[p].value, Mask}
    /\ \A p, q \in DOMAIN out :
          AreBeside(p, q) /\ out[p].key # NoKey /\ out[p].key = out[q].key => p = q

(* Nothing that names someone leaves as it came, however deep it lies and  *)
(* whichever turn brought it, but for what is left of a token that a       *)
(* pattern has found or whose key one has (_redact_scalar); and no fact of *)
(* the application is lost to a key that was masked (_redact_node).        *)
MaskedAndWhole ==
    outgoing.is = "built" =>
        /\ NamesNobody(outgoing.document, given.document) /\ Keeps(outgoing.document, given.document)
        /\ \A t \in DOMAIN outgoing.turns : \A i \in DOMAIN outgoing.turns[t].documents :
              LET in == InputsOf(given.history[t])[i] IN
              /\ NamesNobody(outgoing.turns[t].documents[i], in)
              /\ Keeps(outgoing.turns[t].documents[i], in)

-----------------------------------------------------------------------------
(* What json.loads returns: places lead from the root by way of objects    *)
(* and lists, the entries of an object, and no others, have keys, all      *)
(* different.  And what the abstraction means: a code of a vocabulary and  *)
(* the empty string name nobody.                                           *)
WellFormed(doc) ==
    /\ IsFiniteSet(DOMAIN doc) /\ DOMAIN doc \subseteq Seq(Nat) /\ <<>> \in DOMAIN doc
    /\ doc[<<>>].key = NoKey
    /\ \A p \in DOMAIN doc :
          /\ \A n \in 0 .. Len(p) : UpTo(p, n) \in DOMAIN doc
          /\ \A n \in 1 .. Len(p) :
                LET above == doc[UpTo(p, n - 1)].value IN
                /\ IsTree(above)
                /\ IF above.is = "object" THEN doc[UpTo(p, n)].key.is = "key" ELSE doc[UpTo(p, n)].key = NoKey
          /\ doc[p].value.is = "string" =>
                (doc[p].value.code # "none" \/ doc[p].value.empty => ~doc[p].value.names)
          /\ doc[p].value.is \in {"object", "list", "string", "number", "flag"}
    /\ \A p, q \in DOMAIN doc :
          AreBeside(p, q) /\ doc[p].key.is = "key" /\ doc[p].key = doc[q].key => p = q

ASSUME RequestAssumption ==
    \A g \in Givens :
        /\ WellFormed(g.document)
        /\ \A t \in DOMAIN g.history : \A i \in DOMAIN InputsOf(g.history[t]) :
              WellFormed(InputsOf(g.history[t])[i])

=============================================================================
