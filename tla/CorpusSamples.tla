--------------------------- MODULE CorpusSamples ---------------------------
(***************************************************************************)
(* Small corpora, gold sets and set-ups to check the retrieval modules on. *)
(***************************************************************************)
EXTENDS Sequences, TLC

PathIn(in, stem, suffix) == [in |-> in, sub |-> FALSE, stem |-> stem, look |-> "slug", suffix |-> suffix]

Span(shape, from, to) == [shape |-> shape, from |-> from, to |-> to, luhn |-> FALSE]
Titled(slugs) == [i \in DOMAIN slugs |-> [slug |-> slugs[i], filled |-> TRUE]]
Markdown(spans) ==
    [kind |-> "text", spans |-> spans, sections |-> Titled(<<"a">>), fields |-> {}]

(* A number that is no card's; nothing of the kind; and one that two       *)
(* patterns find.                                                          *)
CleanText == Markdown({Span("pan", 0, 9)})
OtherText == Markdown({})
Found == {Span("labelled-ssn", 0, 9), Span("ein", 4, 9)}
DirtyText == Markdown(Found)

Field == [key |-> {}, value |-> {}, sensitive |-> TRUE, blank |-> FALSE]
RecordText == [kind |-> "text", spans |-> {}, sections |-> <<>>, fields |-> {Field}]
TableText ==
    [kind |-> "text", spans |-> {}, sections |-> <<>>, fields |-> {},
     table |-> [rows |-> 2, plausible |-> TRUE, names |-> 2]]

LineOf(path, text) == [wellFormed |-> TRUE, path |-> path, text |-> text]

-----------------------------------------------------------------------------
(* The search's corpus: two files of one stem, one of them in a directory  *)
(* below, and a manifest in either convention or in both.                  *)
Top == PathIn("", "fees", ".md")
Below == [Top EXCEPT !.sub = TRUE, !.look = "other"]
MCPaths == {Top, Below}
MCTexts == {CleanText, OtherText, DirtyText}

Packaged(path) == LineOf([path EXCEPT !.in = "policies"], CleanText)
MCDeclarations ==
    {<<Packaged(Top), Packaged(Below)>>, <<LineOf(Top, CleanText), Packaged(Below)>>}

-----------------------------------------------------------------------------
(* The harness's: two policies, one of a name that is no slug, the legacy  *)
(* dump, and a table of people.                                            *)
Fees == PathIn("policies", "fees", ".md")
Rates == PathIn("policies", "rates", ".md")
Odd == [PathIn("policies", "odd", ".md") EXCEPT !.look = "other"]
Dump == PathIn("kb_dump", "applications", ".jsonl")
Letters == PathIn("kb_dump", "letters", ".csv")

MCFiles == {Fees, Rates, Odd, Dump, Letters}
MCContents ==
    [p \in MCFiles |-> CASE p = Dump -> {RecordText} [] p = Letters -> {TableText}
                         [] p = Odd -> {CleanText} [] p = Rates -> {DirtyText}
                         [] OTHER -> {CleanText, DirtyText}]
MCLegacy == [path |-> Dump, text |-> RecordText]
MCTopScores == {0, 2, 4}

GoldRow(id, class, unanswerable) ==
    [id |-> id, wellFormed |-> TRUE, class |-> class, unanswerable |-> unanswerable,
     anchor |-> [given |-> FALSE], expected |-> {}, pair |-> {}, summary |-> "none",
     prohibited |-> FALSE, literal |-> "none", spans |-> {}, nameLike |-> {}]
Asks(id) == [GoldRow(id, "none", FALSE) EXCEPT !.anchor = [given |-> TRUE, stem |-> "fees", slug |-> "a"]]
Abstains(id) == GoldRow(id, "no_match", TRUE)
Asked(row) == [row EXCEPT !.pair = {"conclusion", "summary"}, !.summary = "s1", !.prohibited = TRUE]

Plain == <<Asks("q1"), Abstains("q2"), Asks("q3")>>
Twins == <<Asks("q1"), Abstains("q1"), GoldRow("q2", "clarification", FALSE)>>
Invalid == <<[Asks("q1") EXCEPT !.nameLike = {"question"}]>>
Telling == <<[Asks("q1") EXCEPT !.spans = Found]>>
Support == <<[Asked(Asks("q1")) EXCEPT !.nameLike = {"conclusions"}],
             Asked([Abstains("q2") EXCEPT !.literal = "a"])>>

NoPackage == [given |-> FALSE]
Csv == PathIn("", "summaries", ".csv")
Sums == PathIn("", "sums", ".txt")
Package ==
    [given |-> TRUE, disk |-> (Csv :> RecordText) @@ (Sums :> RecordText), own |-> {Sums},
     lines |-> <<LineOf(Csv, RecordText)>>, rows |-> <<[id |-> "s1", filled |-> TRUE, spans |-> Found]>>]
Drifted == [Package EXCEPT !.lines = <<LineOf(Csv, CleanText)>>]

Offline == [lines |-> <<>>, gold |-> Plain, package |-> NoPackage, embedder |-> "tfidf",
            judge |-> "none", region |-> FALSE, tracing |-> FALSE]
Graded2 == [Offline EXCEPT !.gold = Support, !.package = Package, !.embedder = "bedrock",
                           !.judge = "bedrock", !.region = TRUE]
MCSetups ==
    {Offline, Graded2,
     [Offline EXCEPT !.gold = Twins, !.lines = <<LineOf(Fees, CleanText)>>],
     [Offline EXCEPT !.gold = Invalid],
     [Graded2 EXCEPT !.gold = Telling],
     [Graded2 EXCEPT !.package = Drifted],
     [Graded2 EXCEPT !.judge = "none", !.tracing = TRUE]}

Told(kept) == [kept |-> kept, conclusion |-> "supported", summary |-> "unsupported", prohibited |-> "avoided"]
MCReplies == {Told(TRUE), Told(FALSE)}

=============================================================================
