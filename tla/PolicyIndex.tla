----------------------------- MODULE PolicyIndex -----------------------------
(***************************************************************************)
(* The assistant's policy search (origination policy_retrieval.py): an     *)
(* index in memory, built from a directory that an operator changes while  *)
(* the service runs, and rebuilt by the first search that finds it older   *)
(* than its TTL.  A search reads the clock, looks at the index without the *)
(* lock and, if it will not do, takes the lock, looks again and builds.    *)
(* A build reads each file once for its digest, again to judge what it     *)
(* holds, and a third time to cut it.                                      *)
(*                                                                         *)
(* Time is counted in ticks.  Left out: the score's value, and where the   *)
(* directory is.                                                           *)
(***************************************************************************)
EXTENDS Corpus

CONSTANTS
    Paths,         \* where a file of the corpus may lie
    Texts,         \* what it may hold
    Searches,
    IndexTTL,      \* _INDEX_TTL_SECONDS
    Declarations,  \* the manifests an operator may set, as sequences of lines
    MaxTime,       \* bounds the clock
    MaxEdits,      \* bounds what the operator does
    NoSearch

ASSUME PolicyIndexAssumption ==
    /\ IndexTTL \in Nat /\ MaxTime \in Nat /\ MaxEdits \in Nat
    /\ \A p \in Paths : p.in = ""
    /\ \A t \in Texts : WellRead(t)
    /\ NoSearch \notin Searches

VARIABLES
    disk,       \* the corpus directory
    declared,   \* POLICY_CORPUS_MANIFEST: a sequence of lines, or NoLines
    clock,      \* time.monotonic()
    index,      \* _index_state: the chunks indexed, or NoIndex
    builtAt,    \* _index_built_at
    search,     \* what each search is doing
    began,      \* the clock it read
    found,      \* the index it holds, or what it answered
    holder,     \* the search inside the lock, or NoSearch
    build,      \* its build: the manifest, the paths to read, the file in hand, the chunks
    gone,       \* history: texts that are no longer where they were, and since when
    edits

policyIndexVars == <<disk, declared, clock, index, builtAt, search, began, found,
                     holder, build, gone, edits>>

NoLines == <<>>
NoIndex == {}
NoBuild == [manifest |-> NoManifest, todo |-> {}, admitted |-> {}, vetted |-> {}, chunks |-> {}]

PolicyIndexTypeOK ==
    /\ DOMAIN disk \subseteq Paths /\ \A p \in DOMAIN disk : disk[p] \in Texts
    /\ declared \in Declarations \cup {NoLines}
    /\ clock \in 0 .. MaxTime /\ builtAt \in 0 .. MaxTime /\ edits \in 0 .. MaxEdits
    /\ search \in [Searches -> {"idle", "look", "wait", "load", "walk", "answer",
                                "hit", "abstained"}]
    /\ began \in [Searches -> 0 .. MaxTime]
    /\ holder \in Searches \cup {NoSearch}

PolicyIndexInit ==
    /\ disk \in UNION {[S -> Texts] : S \in SUBSET Paths}
    /\ declared \in Declarations \cup {NoLines}
    /\ clock = 0 /\ builtAt = 0 /\ index = NoIndex
    /\ search = [s \in Searches |-> "idle"]
    /\ began = [s \in Searches |-> 0]
    /\ found = [s \in Searches |-> NoIndex]
    /\ holder = NoSearch /\ build = NoBuild
    /\ gone = {} /\ edits = 0

-----------------------------------------------------------------------------
Go(s, from, to) == search[s] = from /\ search' = [search EXCEPT ![s] = to]

(* No threshold, an empty query or no harness: an abstention that touches  *)
(* nothing.                                                                *)
Decline(s) ==
    /\ Go(s, "idle", "abstained")
    /\ UNCHANGED <<disk, declared, clock, index, builtAt, began, found, holder, build, gone, edits>>

ReadClock(s) ==
    /\ Go(s, "idle", "look")
    /\ began' = [began EXCEPT ![s] = clock]
    /\ UNCHANGED <<disk, declared, clock, index, builtAt, found, holder, build, gone, edits>>

Serves(s) == index # NoIndex /\ began[s] - builtAt <= IndexTTL

(* The look without the lock.                                              *)
Look(s) ==
    /\ Go(s, "look", IF Serves(s) THEN "answer" ELSE "wait")
    /\ found' = [found EXCEPT ![s] = index]
    /\ UNCHANGED <<disk, declared, clock, index, builtAt, began, holder, build, gone, edits>>

(* The look inside it, by the same reading of the clock.                   *)
Enter(s) ==
    /\ holder = NoSearch
    /\ Go(s, "wait", IF Serves(s) THEN "answer" ELSE "load")
    /\ found' = [found EXCEPT ![s] = index]
    /\ holder' = IF Serves(s) THEN NoSearch ELSE s
    /\ UNCHANGED <<disk, declared, clock, index, builtAt, began, build, gone, edits>>

(* A manifest of the whole package names the files of its subtrees: the    *)
(* corpus's own are kept, and a bare name beside them must be no file of   *)
(* the corpus.                                                             *)
Bare(p) == [p EXCEPT !.in = ""]

CorpusRelative(manifest) ==
    LET all == DOMAIN manifest.of
        ours == {p \in all : p.in = "policies"}
    IN  IF ours = {} THEN manifest
        ELSE [given |-> TRUE,
              of |-> [p \in {Bare(q) : q \in ours} |-> manifest.of[[p EXCEPT !.in = "policies"]]]]

Ambiguous(manifest) ==
    /\ \E p \in DOMAIN manifest.of : p.in = "policies"
    /\ \E p \in DOMAIN manifest.of : p.in = "" /\ ~p.sub /\ p \in DOMAIN disk

(* A declaration that cannot be used, that the directory does not match by *)
(* its names, or that a file does not match by its digest, indexes nothing.*)
Declares(manifest) ==
    /\ AuditProblems(disk, manifest, "", {}) = {}
    /\ \A p \in DOMAIN manifest.of : PathReason(p, disk, manifest) = "safe"

(* The walk: below the directory only under a declaration.                 *)
Walked(manifest) ==
    {p \in DOMAIN disk : p.suffix = ".md" /\ (p.sub => manifest.given)}

Load(s) ==
    /\ search[s] = "load"
    /\ LET manifest == IF declared = NoLines THEN NoManifest
                       ELSE CorpusRelative(LoadedManifest(declared))
           nothing == /\ declared # NoLines
                      /\ \/ ~Usable(declared)
                         \/ Ambiguous(LoadedManifest(declared))
                         \/ ~Declares(manifest)
       IN  build' = [NoBuild EXCEPT !.manifest = manifest,
                                    !.todo = IF nothing THEN {} ELSE Walked(manifest)]
    /\ search' = [search EXCEPT ![s] = "walk"]
    /\ UNCHANGED <<disk, declared, clock, index, builtAt, began, found, holder, gone, edits>>

(* One file is judged: its path, and under a manifest its digest again.    *)
Admit(s) ==
    /\ search[s] = "walk" /\ build.admitted = {} /\ build.vetted = {}
    /\ \E p \in build.todo :
          build' = [build EXCEPT !.todo = @ \ {p},
                                 !.admitted = IF PathReason(p, disk, build.manifest) = "safe"
                                              THEN {[path |-> p, named |-> Held(disk, p)]} ELSE {}]
    /\ UNCHANGED <<disk, declared, clock, index, builtAt, search, began, found, holder, gone, edits>>

(* Then it is read for what it holds.                                      *)
Passed(f) ==
    LET text == Held(disk, f.path)
    IN  IF Passes(f.path, text)
        THEN {[path |-> f.path, named |-> f.named, text |-> text]} ELSE {}

Vet(s) ==
    /\ search[s] = "walk"
    /\ \E f \in build.admitted :
          build' = [build EXCEPT !.admitted = {}, !.vetted = Passed(f)]
    /\ UNCHANGED <<disk, declared, clock, index, builtAt, search, began, found, holder, gone, edits>>

(* And read again to be cut, unless it is gone or cannot be.               *)
Sections(v) ==
    IF v.path \in DOMAIN disk /\ Cuttable(disk[v.path])
    THEN Cut(v.path, DocId(v.path, build.manifest), disk[v.path], v.named, v.text)
    ELSE {}

CutFile(s) ==
    /\ search[s] = "walk"
    /\ \E v \in build.vetted :
          build' = [build EXCEPT !.vetted = {}, !.chunks = @ \cup Sections(v)]
    /\ UNCHANGED <<disk, declared, clock, index, builtAt, search, began, found, holder, gone, edits>>

(* Slip: the index is as old as the end of its build.                      *)
StoreLate(s) ==
    /\ Go(s, "walk", "answer")
    /\ build.todo = {} /\ build.admitted = {} /\ build.vetted = {}
    /\ index' = (IF IdsCollide(build.chunks) THEN NoIndex ELSE build.chunks)
    /\ builtAt' = clock
    /\ found' = [found EXCEPT ![s] = index']
    /\ holder' = NoSearch /\ build' = NoBuild
    /\ UNCHANGED <<disk, declared, clock, began, gone, edits>>

(* Slip: documents of one name are indexed.                                *)
StoreColliding(s) ==
    /\ Go(s, "walk", "answer")
    /\ build.todo = {} /\ build.admitted = {} /\ build.vetted = {}
    /\ index' = build.chunks
    /\ builtAt' = began[s]
    /\ found' = [found EXCEPT ![s] = index']
    /\ holder' = NoSearch /\ build' = NoBuild
    /\ UNCHANGED <<disk, declared, clock, began, gone, edits>>

(* Ids that collide index nothing, and so does an embedder that is not to  *)
(* be had.  The index is as old as the clock its search read.              *)
Store(s) ==
    /\ Go(s, "walk", "answer")
    /\ build.todo = {} /\ build.admitted = {} /\ build.vetted = {}
    /\ index' \in {IF IdsCollide(build.chunks) THEN NoIndex ELSE build.chunks, NoIndex}
    /\ builtAt' = began[s]
    /\ found' = [found EXCEPT ![s] = index']
    /\ holder' = NoSearch /\ build' = NoBuild
    /\ UNCHANGED <<disk, declared, clock, began, gone, edits>>

(* The best match of the query, whose text is looked up by its id.         *)
Hit(s) ==
    /\ Go(s, "answer", "hit")
    /\ \E c, d \in found[s] : c.id = d.id /\ found' = [found EXCEPT ![s] = {[best |-> c, shown |-> d]}]
    /\ UNCHANGED <<disk, declared, clock, index, builtAt, began, holder, build, gone, edits>>

(* No index, a query that cannot be embedded, or no match above the        *)
(* threshold.                                                              *)
Abstain(s) ==
    /\ Go(s, "answer", "abstained")
    /\ found' = [found EXCEPT ![s] = NoIndex]
    /\ UNCHANGED <<disk, declared, clock, index, builtAt, began, holder, build, gone, edits>>

Again(s) ==
    /\ search[s] \in {"hit", "abstained"} /\ search' = [search EXCEPT ![s] = "idle"]
    /\ found' = [found EXCEPT ![s] = NoIndex]
    /\ began' = [began EXCEPT ![s] = 0]
    /\ UNCHANGED <<disk, declared, clock, index, builtAt, holder, build, gone, edits>>

-----------------------------------------------------------------------------
(* The operator changes a file, or takes it away.                          *)
Edit ==
    /\ edits < MaxEdits /\ edits' = edits + 1
    /\ \E p \in Paths :
          /\ \/ \E t \in Texts :
                   /\ p \in DOMAIN disk => disk[p] # t
                   /\ disk' = [q \in DOMAIN disk \cup {p} |-> IF q = p THEN t ELSE disk[q]]
             \/ p \in DOMAIN disk /\ disk' = [q \in DOMAIN disk \ {p} |-> disk[q]]
          /\ gone' = gone \cup IF p \in DOMAIN disk
                               THEN {[path |-> p, text |-> disk[p], at |-> clock]} ELSE {}
    /\ UNCHANGED <<declared, clock, index, builtAt, search, began, found, holder, build>>

Tick ==
    /\ clock < MaxTime /\ clock' = clock + 1
    /\ UNCHANGED <<disk, declared, index, builtAt, search, began, found, holder, build, gone, edits>>

PolicyIndexNext ==
    \/ \E s \in Searches :
          \/ Decline(s) \/ ReadClock(s) \/ Look(s) \/ Enter(s) \/ Load(s) \/ Admit(s)
          \/ Vet(s) \/ CutFile(s) \/ Store(s) \/ Hit(s) \/ Abstain(s) \/ Again(s)
    \/ Edit \/ Tick

PolicyIndexSpec == PolicyIndexInit /\ [][PolicyIndexNext]_policyIndexVars

-----------------------------------------------------------------------------
WasThere(chunk, time) ==
    \/ chunk.path \in DOMAIN disk /\ disk[chunk.path] = chunk.text
    \/ \E l \in gone : l.path = chunk.path /\ l.text = chunk.text /\ l.at >= time

(* What an officer is shown is the passage that was scored; it names no    *)
(* person and its citation is of the text itself, unless its file was      *)
(* changed between the gate's reading of it, or the digest's, and the      *)
(* chunker's; and it was in the corpus no longer ago than the TTL before   *)
(* the search began, however long the build took and the lock was waited   *)
(* for (policy_retrieval.py _build_index, _index).                         *)
HitIsVouchedFor ==
    \A s \in Searches : search[s] = "hit" =>
        \A h \in found[s] :
            /\ h.shown = h.best
            /\ h.shown.asVetted => ~NamesSomeone(h.shown.text.spans)
            /\ h.shown.asNamed =>
                  h.shown.id[1] \in {<<"doc", h.shown.text>>, <<"stem", h.shown.path.stem>>}
            /\ WasThere(h.shown, began[s] - IndexTTL)

=============================================================================
