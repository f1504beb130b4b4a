--------------------------- MODULE RequestSamples ---------------------------
(***************************************************************************)
(* Small documents, turns and tools to check RequestBuilder on.  What a    *)
(* sample may hold is what the keys and values of applications do: the     *)
(* codes of a vocabulary name nobody, and a tax number that has lost its   *)
(* leading zero stands under its label.                                    *)
(***************************************************************************)
EXTENDS RequestBuilder

Key(text) == [NoKey EXCEPT !.is = "key", !.text = text]
Named(text) == [Key(text) EXCEPT !.field = TRUE]
SampleKeys ==
    [amount |-> Named("amount"),
     name |-> [Named("name") EXCEPT !.identity = TRUE],
     ssn |-> [Named("ssn") EXCEPT !.number = TRUE, !.gates = "ssn"],
     purpose |-> [Named("purpose") EXCEPT !.vocab = "purpose"],
     email |-> [Key("email") EXCEPT !.shaped = TRUE],
     person |-> Key("person"),
     other |-> Key("other")]

Text == [is |-> "string", code |-> "none", words |-> FALSE, empty |-> FALSE,
         shape |-> "none", by |-> "none", names |-> TRUE]
Number == [is |-> "number", digits |-> "few", shape |-> "none", by |-> "none"]

Strings ==
    {Text, [Text EXCEPT !.words = TRUE, !.shape = "own"], [Text EXCEPT !.shape = "own"],
     [Text EXCEPT !.shape = "labelled", !.by = "ssn"], [Text EXCEPT !.empty = TRUE, !.names = FALSE],
     [Text EXCEPT !.code = "purpose", !.names = FALSE]}
Numbers ==
    {Number, [Number EXCEPT !.digits = "short"], [Number EXCEPT !.digits = "ssn"],
     [Number EXCEPT !.digits = "birth"], [Number EXCEPT !.shape = "own"],
     [Number EXCEPT !.digits = "ssn", !.shape = "labelled", !.by = "ssn"]}
Scalars == Strings \cup Numbers \cup {[is |-> "flag"]}

(* A document of one scalar, and one put together of others.               *)
Leaf(v) == [place \in {<<>>} |-> [key |-> NoKey, value |-> v]]
Entry(k, doc) == [doc EXCEPT ![<<>>].key = SampleKeys[k]]
Whole(kind, parts) ==
    [place \in {<<>>} \cup UNION {{<<i>> \o p : p \in DOMAIN parts[i]} : i \in DOMAIN parts} |->
        IF place = <<>> THEN [key |-> NoKey, value |-> [is |-> kind]]
        ELSE parts[Head(place)][Tail(place)]]
Object(entries) == Whole("object", entries)
List(elements) == Whole("list", elements)

Singles == {<<Entry(k, Leaf(v))>> : k \in DOMAIN SampleKeys, v \in Scalars}

(* One level below, in a list, in an object, and in a list of objects; and *)
(* two entries, of which two may be masked alike.                          *)
Deeper == {List(<<Leaf(v), Leaf(Text)>>) : v \in Scalars} \cup {Object(e) : e \in Singles}
Nested == {<<Entry(k, d)>> : k \in DOMAIN SampleKeys, d \in Deeper \cup {List(<<Object(e)>>) : e \in Singles}}
Doubles == {<<Entry(k, Leaf(v)), Entry("other", Leaf(Number))>> :
                k \in DOMAIN SampleKeys \ {"other"}, v \in Scalars}

Objects == {Object(e) : e \in Singles \cup Nested \cup Doubles}
Plainest == Object(<<Entry("amount", Leaf(Number))>>)

Blocks(bs) == [is |-> "blocks", of |-> bs]
Block(type, doc) ==
    [type |-> type, extraKeys |-> FALSE, idForm |-> TRUE, nameForm |-> TRUE,
     isError |-> "absent", content |-> doc]
Plain(doc) == [is |-> "document", of |-> doc]
Turn1(role, content) == [role |-> role, content |-> content]
Tool(name) == [name |-> name, keys |-> TRUE, nameForm |-> TRUE, described |-> TRUE, schema |-> TRUE]

Hands(history, tools, document) == [history |-> history, tools |-> tools, document |-> document]

(* Turns that hold and turns that are refused, of every kind.              *)
Histories ==
    {<<Turn1(r, c)>> : r \in {"user", "assistant", "system"},
        c \in {Plain(Plainest), Plain(Leaf(Text)), Blocks(<<>>), Blocks(<<Block("text", Plainest)>>),
               Blocks(<<Block("tool_use", Plainest)>>), Blocks(<<Block("tool_result", List(<<Leaf(Number)>>))>>),
               Blocks(<<[Block("tool_use", Plainest) EXCEPT !.nameForm = FALSE]>>),
               Blocks(<<[Block("tool_result", Plainest) EXCEPT !.isError = "other"]>>)}}

MCGivens ==
    {Hands(<<>>, <<>>, d) : d \in Objects \cup {Leaf(Text), List(<<Leaf(Text)>>)}}
    \cup {Hands(<<Turn1("assistant", Blocks(<<Block("tool_use", d)>>)),
                  Turn1("user", Blocks(<<Block("tool_result", Plainest), Block("tool_result", d)>>))>>,
                <<Tool("score")>>, Plainest) : d \in {Object(e) : e \in Singles}}
    \cup {Hands(<<Turn1("user", Plain(d))>>, <<>>, Plainest) : d \in {Object(e) : e \in Doubles}}
    \cup {Hands(h, <<>>, Plainest) : h \in Histories}
    \cup {Hands(<<>>, ts, Plainest) : ts \in {<<Tool("score"), Tool("score")>>, <<Tool("score"), Tool("read")>>,
                                             <<[Tool("score") EXCEPT !.schema = FALSE]>>}}

=============================================================================
