------------------------------- MODULE Corpus -------------------------------
(***************************************************************************)
(* What the retrieval harness (rag_eval) and the assistant's policy search *)
(* agree on: which files of a corpus may be read, what the hygiene gate    *)
(* refuses, and the sections a markdown file is cut into.                  *)
(*                                                                         *)
(* A path is a record: the subtree it lies `in', whether it lies in a      *)
(* directory below (`sub'), its stem in lower case, its suffix, and how    *)
(* its name looks: "slug", "other", or "pii".  A disk maps paths to texts. *)
(* A text is a record: its kind, the spans of it that a pattern of the     *)
(* gate matches, and what it holds when read as records or as markdown.    *)
(* The digest of a text is the text.                                       *)
(***************************************************************************)
EXTENDS Integers, Sequences, FiniteSets

NoManifest == [given |-> FALSE]

-----------------------------------------------------------------------------
(* The manifest: lines of a digest and a path, the last one of a path in   *)
(* force.  Any line of another form makes it unusable.                     *)
Usable(lines) == \A i \in DOMAIN lines : lines[i].wellFormed

LoadedManifest(lines) ==
    LET InForce(p) == CHOOSE i \in DOMAIN lines :
            lines[i].path = p /\ \A j \in i + 1 .. Len(lines) : lines[j].path # p
    IN  [given |-> TRUE,
         of |-> [p \in {lines[i].path : i \in DOMAIN lines} |-> lines[InForce(p)].text]]

(* What a read of a path finds; a file that is gone cannot be read.        *)
Held(disk, p) == IF p \in DOMAIN disk THEN disk[p] ELSE [kind |-> "unreadable"]

Under(paths, subtree) == {p \in paths : subtree = "" \/ p.in = subtree}

(* What is wrong with a directory under a manifest: it must hold the files *)
(* declared and no others.  `own' is where the manifest itself lies.       *)
AuditProblems(disk, manifest, subtree, own) ==
    LET scoped == Under(DOMAIN manifest.of, subtree)
        onDisk == Under(DOMAIN disk, subtree) \ own
    IN  IF scoped = {}
        THEN {"nothing-declared"}
        ELSE {"missing" : p \in scoped \ onDisk}
                \cup {"unlisted" : p \in onDisk \ scoped}
                \cup {"digest" : p \in {q \in scoped \cap onDisk : disk[q] # manifest.of[q]}}

(* Whether a path may be read: by its digest under a manifest, else by its *)
(* name.                                                                   *)
PathReason(path, disk, manifest) ==
    CASE path.look = "pii" -> "pii"
      [] path.look # "pii" /\ ~manifest.given -> IF path.look = "slug" THEN "safe" ELSE "non-slug"
      [] OTHER ->
            IF path \notin DOMAIN manifest.of THEN "not-in-manifest"
            ELSE IF path \in DOMAIN disk /\ disk[path] = manifest.of[path] THEN "safe"
            ELSE "manifest-digest-mismatch"

(* A document is named by its digest under a manifest, else by its stem.   *)
DocId(path, manifest) ==
    IF manifest.given THEN <<"doc", manifest.of[path]>> ELSE <<"stem", path.stem>>

-----------------------------------------------------------------------------
Inside(s, t) == t.from <= s.from /\ s.to <= t.to
Overlaps(s, t) == s.from < t.to /\ t.from < s.to

(* The shapes that one pattern alone looks for.                            *)
LoneShapes == {"dob", "cvv", "email", "name", "address"}

Shapes ==
    LoneShapes \cup {"pan", "labelled-pan", "ssn", "labelled-ssn", "ein", "phone",
                     "labelled-phone", "bank", "iban"}

(* A text that can be read has spans of these shapes; an empty one, none.  *)
WellRead(text) ==
    text.kind \notin {"unreadable", "binary"} =>
        /\ \A s \in text.spans : s.shape \in Shapes
        /\ text.kind = "empty" => text.spans = {}

(* The gate's findings: every match, but for those of a value that a more  *)
(* telling pattern has found already and for numbers that are no card's.   *)
ScanText(spans) ==
    LET Of(shape) == {s \in spans : s.shape = shape}
        cards  == {s \in Of("pan") \cup Of("labelled-pan") : s.luhn}
        ssns   == Of("ssn")
                    \cup {s \in Of("labelled-ssn") : \A t \in Of("ssn") : ~Inside(t, s)}
        eins   == {s \in Of("ein") : \A t \in ssns : ~Inside(s, t)}
        bare   == {s \in Of("phone") : \A t \in ssns : <<s.from, s.to>> # <<t.from, t.to>>}
        phones == bare \cup {s \in Of("labelled-phone") : \A t \in bare : ~Overlaps(s, t)}
        banks  == Of("bank")
                    \cup {s \in Of("iban") : \A t \in Of("bank") : ~Inside(s, t)}
    IN  cards \cup ssns \cup eins \cup phones \cup banks
            \cup {s \in spans : s.shape \in LoneShapes}

(* A record tells on a person by a key, by a value under a sensitive key,  *)
(* or by a value.  Nested records and lists are walked: their fields are   *)
(* the record's.                                                           *)
RecordTells(fields) ==
    \E f \in fields :
        \/ ScanText(f.key) # {}
        \/ f.sensitive /\ ~f.blank
        \/ ScanText(f.value) # {}

(* A table is refused as well for holding no row, for a header that looks  *)
(* like data, and for a column with two cells of people's names.           *)
TableTells(text) ==
    \/ ScanText(text.spans) # {}
    \/ RecordTells(text.fields)
    \/ text.table.rows = 0
    \/ ~text.table.plausible
    \/ text.table.names >= 2

(* scan_file: what cannot be read as what its suffix says is refused.      *)
Passes(path, text) ==
    /\ path.look # "pii"
    /\ text.kind \notin {"unreadable", "binary"}
    /\ text.kind # "empty" =>
          \/ path.suffix \in {".md", ".txt"} /\ ScanText(text.spans) = {}
          \/ path.suffix = ".jsonl" /\ text.kind # "malformed" /\ ~RecordTells(text.fields)
          \/ path.suffix = ".csv" /\ ~TableTells(text)

-----------------------------------------------------------------------------
(* The sections of a markdown text that hold anything: a heading inside a  *)
(* code fence is text, and what comes before the first one is `_intro'.    *)
Filled(text) == {i \in DOMAIN text.sections : text.sections[i].filled}

(* Two headings of one text may come to the same slug.                     *)
SlugsCollide(text) ==
    \E i, j \in Filled(text) : i # j /\ text.sections[i].slug = text.sections[j].slug

Cuttable(text) == text.kind \notin {"unreadable", "binary"} /\ ~SlugsCollide(text)

(* What is cut from the text of a path; `named' is the text whose digest    *)
(* was taken, `vetted' the one the gate saw.                               *)
Cut(path, doc, text, named, vetted) ==
    {[id |-> <<doc, text.sections[i].slug>>, path |-> path, slug |-> text.sections[i].slug,
      text |-> text, asNamed |-> text = named, asVetted |-> text = vetted] : i \in Filled(text)}

IdsCollide(chunks) == \E c, d \in chunks : c # d /\ c.id = d.id

(* Whether anything in a text has the shape of a person's datum.           *)
NamesSomeone(spans) == \E s \in spans : s.luhn \/ s.shape \notin {"pan", "labelled-pan"}

=============================================================================
