--------------------------------- MODULE MCText ---------------------------------
(***************************************************************************)
(* The three pure algorithms that read an oath, each with all of its small  *)
(* inputs: the Scanner's lines, the Sentences of a block, and what becomes  *)
(* of one Candidate; and what rewrites its sentences, Rename.  A behaviour  *)
(* is that of one of them; the others are given nothing to read.            *)
(***************************************************************************)
EXTENDS Scanner, FiniteSetsExt

CONSTANTS
    Texts, Abbreviations,   \* of Sentences
    Bodies,                 \* of Candidate
    Oaths, Written, Expressions, Handlers, Words, Answers, MaxTyped,   \* of Rename
    MaxLines,               \* bound: the lines of an oath
    MaxLength,              \* bound: the characters of a text
    MaxHits                 \* bound: the matches in a sentence

ASSUME TextsAssumption == Texts \subseteq Seq(STRING)

\* A match takes one character at least.
ASSUME BodiesAssumption ==
    \A b \in Bodies :
        /\ Len(b.sentences) \in Nat /\ DOMAIN b.sentences = 1 .. Len(b.sentences)
        /\ \A k \in DOMAIN b.sentences :
              /\ b.sentences[k].start \in Nat
              /\ \A h \in b.sentences[k].hits :
                    h.from \in Nat /\ h.to \in Nat /\ h.from < h.to

VARIABLES
    text, mark, skip, pos, start, out,
    body, sentence, left, reached, kept, steps, ambiguities, unit, diagnostics,
    docs, expression, handler, phase, cursor, location, plan, answers, edits, written, typed

S == INSTANCE Sentences
C == INSTANCE Candidate
R == INSTANCE Rename

Sentence ==
    [wording : DOMAIN Words, values : Seq([type : STRING, value : Int]),
     headers : Seq(STRING)]
Parameter == [name : STRING \X Nat, type : STRING]

\* What a user types between sentences is no sentence of a definition (R!Prose), nor is
\* what an expression that is not plain is written out as (R!Rendered).
ASSUME RenameAssumption ==
    /\ Oaths \in Seq(STRING)
    /\ {"prose", "verbatim"} \subseteq DOMAIN Words
    /\ Expressions \subseteq
          [wording : DOMAIN Words \ {"prose", "verbatim"}, params : Seq(DOMAIN R!TypeName),
           plain : BOOLEAN]
    /\ Handlers \subseteq [stateful : BOOLEAN, params : Seq(Parameter)]
    /\ Written \subseteq [R!OathSet -> Seq(Sentence)]

textVars == <<text, mark, skip, pos, start, out>>
bodyVars ==
    <<body, sentence, left, reached, kept, steps, ambiguities, unit, diagnostics>>
renameVars ==
    <<docs, expression, handler, phase, cursor, location, plan, answers, edits, written, typed>>
allVars == <<vars, textVars, bodyVars, renameVars>>

--------------------------------------------------------------------------------
\* Oaths of a few lines, of every kind.
MCLine == [kind : Kinds \ {"fence"}] \cup [kind : {"fence"}, ticks : {3, 4}]
MCSources == UNION {[1 .. n -> MCLine] : n \in 0 .. MaxLines}

\* Texts of a few characters.
MCCharacters ==
    {"Upper", "lower", "digit", ".", "!", "space", "newline", "tick", "quote"}
MCTexts == UNION {[1 .. n -> MCCharacters] : n \in 0 .. MaxLength}
MCAbbreviations == {<<"lower", ".", "lower", ".">>}

\* Paragraphs of two sentences, matched by up to three expressions.
MCExpressions == {"deposit", "withdraw", "balance"}
MCSpan == 3
MCMatches ==
    {h \in [expression : MCExpressions, from : 0 .. MCSpan, to : 0 .. MCSpan] :
        h.from < h.to}

\* findHits: one expression matches at disjoint places.
MCFound ==
    {hits \in UNION {kSubset(n, MCMatches) : n \in 0 .. MaxHits} :
        \A g, h \in hits :
            g.expression = h.expression => g = h \/ g.to <= h.from \/ h.to <= g.from}
MCSecond ==
    LET Match(e, f, t) == [expression |-> e, from |-> f, to |-> t]
    IN {{}, {Match("balance", 0, 2)}, {Match("deposit", 1, 2), Match("withdraw", 1, 2)}}

Table(cells, rows) == [kind |-> "table", cells |-> cells, rows |-> rows]
Fence(info) == [kind |-> "fence", info |-> info]
MCRests ==
    {<< >>, <<Table({"owner"}, 2)>>, <<Table({"owner", "total"}, 2)>>, <<Fence("json")>>,
     <<Fence("error")>>, <<Table({"owner"}, 1), Fence("error")>>}

MCBodies ==
    {[sentences |-> <<[start |-> 0, hits |-> h], [start |-> MCSpan + 2, hits |-> s]>>,
      words |-> {"owner"}, rest |-> r] : h \in MCFound, s \in MCSecond, r \in MCRests}

--------------------------------------------------------------------------------
\* Two oaths of up to two sentences; definitions with up to two parameters, a few of them
\* with optional or alternative text.
MCRenamed == {<< >>, <<"int">>, <<"string">>, <<"int", "int">>, <<"string", "int">>}
MCRenamedExpressions ==
    [wording : {"greet", "welcome"}, params : MCRenamed, plain : {TRUE}]
    \cup [wording : {"greet", "welcome"}, params : {<<"int">>}, plain : {FALSE}]
MCWords == [greet |-> {"name"}, welcome |-> {}, prose |-> {}, verbatim |-> {}]
MCAnswers == {[type |-> "int", value |-> 7], [type |-> "string", value |-> 8]}
MCOaths == <<"a", "b">>

Said(w, ps, n, hs) ==
    [wording |-> w, values |-> [j \in DOMAIN ps |-> [type |-> ps[j], value |-> n + j]],
     headers |-> hs]

\* There may be a table below the first sentence; where nothing is renamed, nothing is
\* written.
MCFirst == {Said("greet", ps, 10, hs) : ps \in MCRenamed, hs \in {<< >>, <<"name">>}}
NoSentences == [o \in {"a", "b"} |-> << >>]
MCWritten ==
    {NoSentences} \cup
    {[o \in {"a", "b"} |->
        IF o = "a" THEN <<f, s>> ELSE <<Said("greet", f2.params, 30, << >>)>>] :
            f \in MCFirst,
            s \in {Said("greet", <<"int">>, 20, << >>), Said("welcome", <<"int">>, 20, << >>)},
            f2 \in {e \in MCRenamedExpressions : e.wording = "greet" /\ Len(e.params) < 2}}

State == [name |-> <<"ctx", 1>>, type |-> "state"]
Param(base, type) == [name |-> <<base, 1>>, type |-> type]

MCTypeName == [int |-> "number", string |-> "string"]

\* Handlers that take what the expression captures, in the types it has them.
MCFull(e, stateful) ==
    [stateful |-> stateful,
     params |-> (IF stateful THEN <<State>> ELSE << >>)
                \o [j \in DOMAIN e.params |-> Param(IF j = 1 THEN "name" ELSE "count",
                                                    MCTypeName[e.params[j]])]]
MCHandlers == {MCFull(e, s) : e \in MCRenamedExpressions, s \in BOOLEAN}
              \cup {[stateful |-> TRUE, params |-> << >>], [stateful |-> FALSE, params |-> << >>]}

--------------------------------------------------------------------------------
NoLines == lines = << >>
NoText == text = << >>
NothingWritten == written = NoSentences
NoRename ==
    /\ docs = NoSentences /\ expression = [wording |-> "greet", params |-> << >>, plain |-> TRUE]
    /\ handler = [stateful |-> FALSE, params |-> << >>]
    /\ R!Init
NoBody == body = [sentences |-> << >>, words |-> {}, rest |-> << >>]

MCInit ==
    /\ i = 1 /\ open = None /\ blocks = {}
    /\ mark = 1 /\ skip = {} /\ pos = 1 /\ start = 1 /\ out = << >>
    /\ \/ lines \in Sources /\ NoText /\ NoBody /\ NoRename
       \/ NoLines /\ text \in Texts \ {<< >>} /\ NoBody /\ NoRename
       \/ NoLines /\ NoText /\ body \in Bodies /\ NoRename
       \/ NoLines /\ NoText /\ NoBody /\ R!Init /\ ~NothingWritten
    /\ C!Unread

MCNext ==
    \/ ~NoLines /\ Next /\ UNCHANGED <<textVars, bodyVars, renameVars>>
    \/ ~NoText /\ S!Next /\ UNCHANGED <<vars, bodyVars, renameVars>>
    \/ ~NoBody /\ C!Next /\ UNCHANGED <<vars, textVars, renameVars>>
    \/ ~NothingWritten /\ R!Next /\ UNCHANGED <<vars, textVars, bodyVars>>

MCSpec == MCInit /\ [][MCNext]_allVars

--------------------------------------------------------------------------------
\* See Sentences: cuts are at the terminators outside of code spans and strings.
CutsOutsideZones == S!CutsOutsideZones

\* See Candidate: the steps of a sentence are its leftmost and longest matches.
LongestLeftmostWins == C!LongestLeftmostWins

\* See Rename: the sentences go on matching, with the values they had.
StaysRunnable == R!StaysRunnable

\* See Rename: the handler takes what the expression captures.
HandlerFits == R!HandlerFits

\* See Candidate: of an ambiguous paragraph nothing runs.
AllOrNothing == C!AllOrNothing
================================================================================
