----------------------------- MODULE Evaluation -----------------------------
(***************************************************************************)
(* The retrieval harness, `python -m rag_eval.run': a run audits what it   *)
(* is given, judges every file of the corpus, cuts those that pass, checks *)
(* the gold set, embeds, ranks, calibrates, has the rows graded and writes *)
(* its report.  What outlives a run is the embedding cache and the report. *)
(* Files may change between any two steps, and the process may be killed.  *)
(*                                                                         *)
(* A vector is known by what it is a vector of: the embedder's signature,  *)
(* which for the offline one is the corpus it was fitted to, and the text. *)
(* Left out: the arithmetic of the vectors, and the report's wording.      *)
(***************************************************************************)
EXTENDS Corpus, Scoring

CONSTANTS
    Files,      \* paths under policies/ and kb_dump/
    Contents,   \* what each may hold
    Setups,     \* what a run may be given: manifest, gold set, package, backends
    Legacy,     \* the one file whose refusal is expected, and what it holds
    Replies,    \* what the judge may answer
    TopScores,  \* what the first chunk ranked may score
    MaxRuns,    \* bounds the runs
    MaxChanges  \* and the changes to files

(* A corpus is finite, and so are the sections of what can be cut; a row   *)
(* of a form that the harness takes is of one of the classes, or names     *)
(* none; scores are bounded, and even (see Scoring).                       *)
ASSUME EvaluationAssumption ==
    /\ IsFiniteSet(Files)
    /\ \A p \in Files : \A t \in Contents[p] :
          WellRead(t) /\ (Cuttable(t) => IsFiniteSet(DOMAIN t.sections))
    /\ \A s \in Setups :
          /\ Len(s.gold) \in Nat /\ DOMAIN s.gold = 1 .. Len(s.gold)
          /\ \A i \in DOMAIN s.gold :
                /\ s.gold[i].wellFormed => s.gold[i].class \in Classes \cup {"none"}
                /\ \A m \in s.gold[i].spans : m.shape \in Shapes
    /\ Max(TopScores) \in Nat
    /\ \A top \in TopScores : top \in 0 .. Max(TopScores) /\ top % 2 = 0

VARIABLES
    tree,       \* the corpus, a disk
    cache,      \* embeddings.json: absent, whole, or cut short; and its vectors
    report,     \* eval_report.md: none, cut short, or whole
    phase,      \* where the run is
    setup,      \* what it was given
    listed,     \* the candidates, as the digest and the gate read them
    chunks,     \* what was cut from them
    held,       \* the cache's vectors in memory
    evals,      \* the rows of the gold set, ranked and graded
    figures,    \* what the report says of them
    sent,       \* history: the texts that left for a provider
    stored,     \* history: the chunks of the last run that embedded its corpus
    ending,     \* how the last run ended
    runs, changes

evaluationVars == <<tree, cache, report, phase, setup, listed, chunks, held, evals,
                    figures, sent, stored, ending, runs, changes>>

NoCache == [state |-> "absent", vectors |-> {}]
NoFigures == [threshold |-> 0]
NoSetup == [embedder |-> "none"]

EvaluationTypeOK ==
    /\ DOMAIN tree \subseteq Files /\ \A p \in DOMAIN tree : tree[p] \in Contents[p]
    /\ cache.state \in {"absent", "whole", "cut"}
    /\ report \in {"none", "cut", "whole"}
    /\ phase \in {"idle", "list", "paths", "scan", "cut", "gold", "prepare", "embed",
                  "save", "rank", "grade", "report", "write", "exit"}
    /\ runs \in 0 .. MaxRuns /\ changes \in 0 .. MaxChanges

EvaluationInit ==
    /\ \E S \in SUBSET Files : tree \in {t \in [S -> UNION {Contents[p] : p \in S}] : \A p \in S : t[p] \in Contents[p]}
    /\ cache = NoCache /\ report = "none"
    /\ phase = "idle" /\ setup = NoSetup
    /\ listed = {} /\ chunks = {} /\ held = {} /\ evals = <<>> /\ figures = NoFigures
    /\ sent = {} /\ stored = {} /\ ending = "none"
    /\ runs = 0 /\ changes = 0

locals == <<setup, listed, chunks, held, evals, figures, sent>>
kept == <<cache, report, stored, runs, changes>>

-----------------------------------------------------------------------------
(* A run that ends leaves nothing in memory.                               *)
End(how) ==
    /\ phase' = "idle" /\ ending' = how
    /\ setup' = NoSetup /\ listed' = {} /\ chunks' = {} /\ held' = {} /\ evals' = <<>>
    /\ figures' = NoFigures /\ sent' = {}

Raise == End("raised") /\ UNCHANGED <<tree, kept>>

To(next) == phase' = next /\ UNCHANGED <<tree, ending>>

(* The summaries' package must match its own manifest, whose file is not   *)
(* counted, and hold one text for each id.                                 *)
PackageUsable(package) ==
    /\ Usable(package.lines)
    /\ AuditProblems(package.disk, LoadedManifest(package.lines), "", package.own) = {}
    /\ package.rows # <<>>
    /\ \A i \in DOMAIN package.rows :
          /\ package.rows[i].filled
          /\ \A j \in DOMAIN package.rows : package.rows[i].id = package.rows[j].id => i = j

Summaries(package) == {package.rows[i].id : i \in DOMAIN package.rows}

(* The backends, as the environment names them.  A provider's needs a      *)
(* region and is refused under tracing; any other name is an error.        *)
EmbedderMade == setup.embedder = "tfidf" \/ (setup.embedder = "bedrock" /\ setup.region)
TracedProvider == setup.embedder = "bedrock" /\ setup.tracing
JudgeMade(s) == s.judge = "none" \/ (s.judge = "bedrock" /\ s.region /\ ~s.tracing)

(* The package and the judge come before anything is read of the corpus.   *)
Start(s) ==
    /\ phase = "idle" /\ runs < MaxRuns
    /\ runs' = runs + 1
    /\ UNCHANGED <<tree, cache, report, listed, chunks, held, evals, figures, sent, stored, changes>>
    /\ IF (s.package.given => PackageUsable(s.package)) /\ JudgeMade(s)
       THEN phase' = "list" /\ setup' = s /\ ending' = "none"
       ELSE ending' = "raised" /\ UNCHANGED <<phase, setup>>

Manifest == IF setup.lines = <<>> THEN NoManifest ELSE LoadedManifest(setup.lines)

(* The manifest governs the policies, and no other subtree.                *)
Governing(p) == IF p.in = "policies" THEN Manifest ELSE NoManifest

(* Every file is a candidate but a version control system's own.           *)
List ==
    /\ phase = "list"
    /\ IF /\ Usable(setup.lines)
          /\ Manifest.given => AuditProblems(tree, Manifest, "policies", {}) = {}
       THEN /\ listed' = {[path |-> p] : p \in {q \in DOMAIN tree : q.suffix # ".gitkeep"}}
            /\ To("paths") /\ UNCHANGED <<setup, chunks, held, evals, figures, sent, kept>>
       ELSE Raise

(* A file that is gone by now cannot be read, and is refused.              *)
Read(p) == Held(tree, p)

JudgePaths ==
    /\ phase = "paths"
    /\ IF \A f \in listed : PathReason(f.path, tree, Governing(f.path)) = "safe"
       THEN /\ listed' = {[path |-> f.path, named |-> Read(f.path)] : f \in listed}
            /\ To("scan") /\ UNCHANGED <<setup, chunks, held, evals, figures, sent, kept>>
       ELSE Raise

DocOf(p) == DocId(p, Governing(p))
SameName(p, q) == <<p.stem, p.look, p.suffix>> = <<q.stem, q.look, q.suffix>>

(* Two files of one name are refused if they are documents of two names: a *)
(* gold row's anchor could not tell them apart.                            *)
Scan ==
    /\ phase = "scan"
    /\ IF \E f, g \in listed : SameName(f.path, g.path) /\ DocOf(f.path) # DocOf(g.path)
       THEN Raise
       ELSE /\ listed' = {[path |-> f.path, named |-> f.named, text |-> Read(f.path),
                           passed |-> Passes(f.path, Read(f.path))] : f \in listed}
            /\ To("cut") /\ UNCHANGED <<setup, chunks, held, evals, figures, sent, kept>>

(* Slip: every markdown file is cut.                                       *)
IndexableUngated(f) == f.path.suffix = ".md"

(* The gate: markdown that passed, and no other file, reaches the chunker. *)
Indexable(f) == f.path.suffix = ".md" /\ f.passed

(* The files are read again.  With nothing left to index nothing may stay  *)
(* cached either.                                                          *)
CutFiles ==
    /\ phase = "cut"
    /\ LET in == {f \in listed : Indexable(f)}
           cut == UNION {Cut(f.path, DocOf(f.path), tree[f.path], f.named, f.text) : f \in in}
       IN  IF (\E f \in in : f.path \notin DOMAIN tree \/ ~Cuttable(tree[f.path])) \/ IdsCollide(cut)
           THEN Raise
           ELSE IF cut = {}
           THEN End("nothing-indexed") /\ cache' = NoCache
                /\ UNCHANGED <<tree, report, stored, runs, changes>>
           ELSE chunks' = cut /\ To("gold") /\ UNCHANGED <<setup, listed, held, evals, figures, sent, kept>>

-----------------------------------------------------------------------------
Gold == setup.gold

(* A row's anchor is a file's name and a heading; or it lists chunk ids.   *)
Anchors(row) == {<<DocOf(f.path), row.anchor.slug>> : f \in {g \in listed : g.path.stem = row.anchor.stem}}

Expected(row) == IF row.anchor.given THEN Anchors(row) ELSE row.expected

AnchorHolds(row) ==
    row.anchor.given => /\ row.expected = {} /\ Anchors(row) # {}
                        /\ Anchors(row) \subseteq {c.id : c \in chunks}

(* What a row of each class must and must not name.                        *)
ClassHolds(row) ==
    /\ row.class # "none" => (row.class = "no_match") = row.unanswerable
    /\ (ClassOf(row) \in {"no_match", Unscorable}) = (Expected(row) = {})

(* The pair of a conclusion and a summary is on all rows or on none, and a *)
(* summary that is named is in the package, if one is used or judged.      *)
PairsHold ==
    /\ \A i \in DOMAIN Gold : Gold[i].pair \in {{}, {"conclusion", "summary"}}
    /\ \A i, j \in DOMAIN Gold : Gold[i].pair = Gold[j].pair
    /\ (setup.judge = "bedrock" \/ setup.package.given) =>
          \A i \in DOMAIN Gold : Gold[i].pair # {} =>
              setup.package.given /\ Gold[i].summary \in Summaries(setup.package)

(* Slip: only what looks like a name is refused.                           *)
RowsByNameOnly == \A i \in DOMAIN Gold : Gold[i].nameLike \subseteq {"conclusions"}

(* No row names anyone by a pattern, nor, but for the conclusions it holds *)
(* for the judge, by what looks like a name.                               *)
RowsNameNobody ==
    \A i \in DOMAIN Gold :
        ScanText(Gold[i].spans) = {} /\ Gold[i].nameLike \subseteq {"conclusions"}

ReadGold ==
    /\ phase = "gold"
    /\ IF /\ \A i \in DOMAIN Gold : /\ Gold[i].wellFormed
                                    /\ AnchorHolds(Gold[i]) /\ ClassHolds(Gold[i])
          /\ PairsHold /\ RowsNameNobody
       THEN To("prepare") /\ UNCHANGED <<locals, kept>>
       ELSE Raise

-----------------------------------------------------------------------------
Provider == setup.embedder = "bedrock"

(* The offline embedder is fitted to the corpus.                           *)
Signature == IF Provider THEN {} ELSE {[text |-> c.text, slug |-> c.slug] : c \in chunks}

VectorOf(c) == [by |-> Signature, text |-> c.text, slug |-> c.slug]

(* A cache cut short cannot be read.  A provider's run removes the file.   *)
Prepare ==
    /\ phase = "prepare"
    /\ IF ~EmbedderMade \/ TracedProvider \/ cache.state = "cut" THEN Raise
       ELSE /\ held' = cache.vectors
            /\ cache' = IF Provider THEN NoCache ELSE cache
            /\ To("embed") /\ UNCHANGED <<setup, listed, chunks, evals, figures, sent, report, stored, runs, changes>>

(* What a provider may be sent: a chunk; a row's question, or the          *)
(* conclusions it expects and prohibits; the summary displayed for it,     *)
(* which only its package's manifest vouches for.                          *)
Passage(c) == [of |-> "passage", spans |-> c.text.spans, asVetted |-> c.asVetted]
Wording(row, what) == [of |-> what, spans |-> row.spans, named |-> what \in row.nameLike]
Displayed(row) ==
    {[of |-> "summary", spans |-> setup.package.rows[i].spans] :
        i \in {j \in DOMAIN setup.package.rows : setup.package.rows[j].id = row.summary}}

Embed ==
    /\ phase = "embed"
    /\ sent' = IF Provider THEN {Passage(c) : c \in chunks} ELSE {}
    /\ held' = IF Provider THEN held ELSE held \cup {VectorOf(c) : c \in chunks}
    /\ stored' = chunks
    /\ cache' = IF Provider THEN cache ELSE [state |-> "cut", vectors |-> {}]
    /\ To(IF Provider THEN "rank" ELSE "save")
    /\ UNCHANGED <<setup, listed, chunks, evals, figures, report, runs, changes>>

(* Slip: what the file held before is written back.                        *)
SaveAll ==
    /\ phase = "save"
    /\ cache' = [state |-> "whole", vectors |-> held]
    /\ To("rank") /\ UNCHANGED <<locals, report, stored, runs, changes>>

(* Only the vectors of this run are written.                               *)
Save ==
    /\ phase = "save"
    /\ cache' = [state |-> "whole", vectors |-> held \cap {VectorOf(c) : c \in chunks}]
    /\ To("rank") /\ UNCHANGED <<locals, report, stored, runs, changes>>

(* A provider that fails, at some chunk, or a disk that does.              *)
EmbedFails ==
    /\ (phase = "embed" /\ Provider) \/ phase = "save"
    /\ End("embedding-failed") /\ cache' = NoCache
    /\ stored' = chunks
    /\ UNCHANGED <<tree, report, runs, changes>>

(* The order of all chunks for a question, and the score of the first.     *)
Rankings ==
    [ids : {s \in [1 .. Cardinality(chunks) -> {c.id : c \in chunks}] :
               \A i, j \in DOMAIN s : s[i] = s[j] => i = j},
     top : TopScores]

LastOf(id) == Max({i \in DOMAIN Gold : Gold[i].id = id})

(* A ranking is kept by its row's id: rows of one id share the last one's. *)
RankRows ==
    /\ phase = "rank"
    /\ \E of \in [DOMAIN Gold -> Rankings] :
          evals' = [i \in DOMAIN Gold |->
              LET r == of[LastOf(Gold[i].id)]
              IN  [row |-> Gold[i], expected |-> Expected(Gold[i]), ids |-> r.ids, top |-> r.top,
                   own |-> r = of[i]]]
    /\ sent' = sent \cup IF Provider THEN {Wording(Gold[i], "question") : i \in DOMAIN Gold} ELSE {}
    /\ To("grade") /\ UNCHANGED <<setup, listed, chunks, held, figures, kept>>

RankFails == phase = "rank" /\ Provider /\ Raise

-----------------------------------------------------------------------------
(* The passages ranked for a row: its first five, of the run's chunks.     *)
TopChunks(e) == {c \in chunks : \E i \in DOMAIN e.ids : i <= Max(CutOffs) /\ e.ids[i] = c.id}

(* The row's literal is looked for in them.                                *)
Mechanical(e) ==
    IF e.row.literal = "none" THEN "not_evaluated"
    ELSE IF \E c \in TopChunks(e) : c.slug = e.row.literal THEN "supported" ELSE "unsupported"

NeedsConclusion(row) == row.literal = "none" /\ "conclusion" \in row.pair
Judged(row) ==
    setup.judge = "bedrock" /\ (NeedsConclusion(row) \/ "summary" \in row.pair \/ row.prohibited)

Reviewed == [conclusion |-> "human_review", summary |-> "human_review", prohibited |-> "human_review"]

(* A reply that cannot be parsed, and a rationale too long to keep, leave  *)
(* the row to a person; what was found mechanically stands.                *)
Graded(e, reply) ==
    LET told == IF reply.kept THEN reply ELSE Reviewed
        Axis(asked, verdict) == IF Judged(e.row) /\ asked THEN verdict ELSE "not_evaluated"
    IN  [row |-> e.row, expected |-> e.expected, ids |-> e.ids, top |-> e.top, own |-> e.own,
         conclusion |-> IF e.row.literal # "none" THEN Mechanical(e)
                        ELSE Axis(NeedsConclusion(e.row), told.conclusion),
         summary |-> Axis("summary" \in e.row.pair, told.summary),
         prohibited |-> Axis(e.row.prohibited, told.prohibited)]

(* The prompt of one row.                                                  *)
Prompt(e) ==
    {Passage(c) : c \in TopChunks(e)} \cup Displayed(e.row)
        \cup {Wording(e.row, "question"), Wording(e.row, "conclusions")}

(* Each row is graded once, on the passages ranked for it; a second row of *)
(* its id is an error.                                                     *)
Grade ==
    /\ phase = "grade"
    /\ IF \E i, j \in DOMAIN evals :
             /\ i # j /\ evals[i].row.id = evals[j].row.id
             /\ Judged(evals[i].row) /\ Judged(evals[j].row)
       THEN Raise
       ELSE /\ \E told \in [DOMAIN evals -> Replies] :
                  evals' = [i \in DOMAIN evals |-> Graded(evals[i], told[i])]
            /\ sent' = sent \cup UNION {Prompt(evals[i]) : i \in {j \in DOMAIN evals : Judged(evals[j].row)}}
            /\ To("report") /\ UNCHANGED <<setup, listed, chunks, held, figures, kept>>

(* Two attempts, and the run is lost.                                      *)
GradeFails == phase = "grade" /\ (\E i \in DOMAIN evals : Judged(evals[i].row)) /\ Raise

-----------------------------------------------------------------------------
(* What the report says of its threshold, when it leaves errors: that no   *)
(* cutoff separates the two kinds of rows any better.                      *)
SaysNoneBetter(rows, threshold) == Errors(rows, threshold) > 0

OpenReport ==
    /\ phase = "report" /\ report' = "cut"
    /\ To("write") /\ UNCHANGED <<locals, cache, stored, runs, changes>>

WriteReport ==
    /\ phase = "write" /\ report' = "whole"
    /\ LET threshold == Calibrated(evals)
       IN  figures' = [totals |-> Figures(evals, threshold),
                       threshold |-> threshold,
                       wrongAbstain |-> WrongAbstain(evals, threshold),
                       falseConfident |-> FalseConfident(evals, threshold),
                       saysNoneBetter |-> SaysNoneBetter(evals, threshold)]
    /\ To("exit") /\ UNCHANGED <<setup, listed, chunks, held, evals, sent, cache, stored, runs, changes>>

(* Of the files refused only the legacy dump, as it was pinned, is no      *)
(* failure.  It is read once more.                                         *)
RefusalExpected(f) == f.path = Legacy.path /\ Read(f.path) = Legacy.text

Exit ==
    /\ phase = "exit"
    /\ End(IF \A f \in listed : f.passed \/ RefusalExpected(f) THEN "reported" ELSE "reported-refused")
    /\ UNCHANGED <<tree, kept>>

-----------------------------------------------------------------------------
Change ==
    /\ changes < MaxChanges /\ changes' = changes + 1
    /\ \E p \in Files :
          \/ \E t \in Contents[p] :
                /\ p \in DOMAIN tree => tree[p] # t
                /\ tree' = [q \in DOMAIN tree \cup {p} |-> IF q = p THEN t ELSE tree[q]]
          \/ p \in DOMAIN tree /\ tree' = [q \in DOMAIN tree \ {p} |-> tree[q]]
    /\ UNCHANGED <<cache, report, phase, locals, stored, ending, runs>>

(* The process is killed: what it was writing stays cut short.             *)
Kill == phase # "idle" /\ End("killed") /\ UNCHANGED <<tree, kept>>

EvaluationNext ==
    \/ \E s \in Setups : Start(s)
    \/ List \/ JudgePaths \/ Scan \/ CutFiles \/ ReadGold \/ Prepare \/ Embed \/ Save
    \/ EmbedFails \/ RankRows \/ RankFails \/ Grade \/ GradeFails \/ OpenReport
    \/ WriteReport \/ Exit \/ Change \/ Kill

EvaluationSpec == EvaluationInit /\ [][EvaluationNext]_evaluationVars

-----------------------------------------------------------------------------
Known(c) == [text |-> c.text, slug |-> c.slug]

(* No text that names someone leaves for a provider or stays on disk in a  *)
(* vector: no passage, unless its file was changed between the gate's      *)
(* reading and the chunker's, no question, and no conclusion that a        *)
(* pattern can tell (run.py 932, 1208, 1369); the displayed summaries are  *)
(* exempt, and so are bare names in a conclusion.  And when a run has got  *)
(* as far as its corpus, the cache holds the vectors of that corpus and of *)
(* none before it: none at all if it was a provider's, if nothing passed,  *)
(* or if the embedding failed (cache.py, run.py 990, 1269, 1285).          *)
NothingUnvettedStays ==
    /\ \A t \in sent :
          /\ t.of # "summary" /\ (t.of = "passage" => t.asVetted) => ~NamesSomeone(t.spans)
          /\ t.of = "question" => ~t.named
    /\ \A c \in stored : c.asVetted => ~NamesSomeone(c.text.spans)
    /\ ending \in {"reported", "reported-refused"} =>
          \A v \in cache.vectors : \E c \in stored : Known(c) = [text |-> v.text, slug |-> v.slug]
    /\ ending \in {"nothing-indexed", "embedding-failed"} => cache = NoCache

InClasses(byClass) == MapThenSumSet(LAMBDA c : byClass[c].n, DOMAIN byClass)

(* The figures of a report agree with each other: no cutoff beats its      *)
(* threshold when it says so, wherever there are two scores to tell apart; *)
(* the errors counted at it are the rows marked wrong by it; the classes   *)
(* add up to the rows that count; and a row is scored on its own           *)
(* question's ranking, unless another row has its id (run.py 747, 1293,    *)
(* metrics.py 116, report.py 214).                                         *)
FiguresAgree ==
    phase = "exit" =>
        /\ (Cardinality(Tops(evals)) >= 2 /\ figures.saysNoneBetter) =>
                  \A cut \in 0 .. Max(TopScores) + 1 :
                      Errors(evals, cut) >= figures.wrongAbstain + figures.falseConfident
        /\ figures.totals.unanswerable - figures.totals.abstained = figures.falseConfident
        /\ InClasses(figures.totals.byClass) = Len(evals) - figures.totals.unscorable
        /\ \A i \in DOMAIN evals :
              (\A j \in DOMAIN evals : evals[j].row.id = evals[i].row.id => i = j)
                  => evals[i].own

=============================================================================
