--------------------------------- MODULE Rename ---------------------------------
(***************************************************************************)
(* Renaming a step: var/planRename and var/renameStep (lsp/src/handlers.ts),*)
(* the rename provider that asks for values and makes one edit of them      *)
(* (vscode/src/extension.ts), and the user, who goes on typing meanwhile.   *)
(*                                                                         *)
(* A sentence is on a line of its oath: its wording, the values in it and   *)
(* the header cells of the table below it, if there is one.  Ranges are     *)
(* line numbers.  An expression is plain if it matches itself, written out  *)
(* with values in place of its parameters: one with "(s)", "red/green" or   *)
(* an escape need not.  Requests wait until the index is of the documents   *)
(* as they are (settled(), IndexPipeline).                                  *)
(***************************************************************************)
EXTENDS Integers, SequencesExt

CONSTANTS
    Oaths,        \* a sequence of oaths, in the order of the index
    Written,      \* the documents there may be: functions from oaths to lines
    Expressions,  \* expressions that a definition may have or be given
    Handlers,     \* the handlers it may have
    Words,        \* the words of a wording, that a table may name
    Answers,      \* what the user may answer
    MaxTyped      \* bound: lines typed during a rename

VARIABLES
    docs,         \* the documents
    expression,   \* the expression of the definition
    handler,      \* its parameters, and whether the state is one of them
    phase,        \* what the editor is doing
    cursor,       \* where F2 was pressed
    location,     \* what is offered for editing there
    plan,         \* what the server answered
    answers,      \* the answers for the first of the sites that are left, by parameter
    edits,        \* the edits made so far
    written,      \* history: the documents, had there been no rename
    typed         \* history: the oaths in which a line was typed, and where

vars == <<docs, expression, handler, phase, cursor, location, plan, answers, edits,
          written, typed>>

OathSet == ToSet(Oaths)
AtDefinition == [oath |-> "definition", line |-> 0]
NoPlan == [by |-> "none"]

--------------------------------------------------------------------------------
\* A sentence is matched by an expression.
Speaks(line, e) ==
    /\ line.wording = e.wording
    /\ [i \in DOMAIN line.values |-> line.values[i].type] = e.params

\* The paragraph is bound to the table below it (Candidate!Bound).
BoundTo(line) == line.headers # << >> /\ ToSet(line.headers) \subseteq Words[line.wording]

\* paramValues: the words of the header where a table is bound.
ParamValues(line) ==
    IF BoundTo(line)
    THEN [i \in DOMAIN line.headers |-> [type |-> "word", value |-> line.headers[i]]]
    ELSE line.values

\* The matches of the definition in the index.
MatchesIn(o) ==
    {[oath |-> o, line |-> l, values |-> ParamValues(docs[o][l])] :
        l \in {k \in DOMAIN docs[o] : Speaks(docs[o][k], expression)}}
Matches == UNION {MatchesIn(o) : o \in OathSet}

\* The order it has them in.
Precedes(m, n) ==
    \E j, k \in DOMAIN Oaths :
        Oaths[j] = m.oath /\ Oaths[k] = n.oath /\ (j < k \/ (j = k /\ m.line < n.line))
First(S) == CHOOSE m \in S : \A n \in S : m = n \/ Precedes(m, n)

--------------------------------------------------------------------------------
\* Mutant: a parameter is kept although its type changed.
KeptByPosition(old, new, j) == j \in DOMAIN old.params

\* diffExpressions: parameters are paired by position; nameUnchanged.
Kept(old, new, j) == j \in DOMAIN old.params /\ old.params[j] = new.params[j]

\* The parameters that the user is asked for.
Prompts(old, new) == {j \in DOMAIN new.params : ~Kept(old, new, j)}

Friendly == [int |-> <<"count", 1>>, string |-> <<"user", 1>>]
TypeName == [int |-> "number", string |-> "string"]

\* Mutant: the state is one of the parameters to reuse.
AllParams(h) == h.params

UserParams(h) == IF h.stateful /\ h.params # << >> THEN Tail(h.params) ELSE h.params

\* buildHandlerSync reuses a parameter that is kept, if the handler has it.
Reused(old, new, user, j) == Kept(old, new, j) /\ j \in DOMAIN user

\* bumpUsed: the name that a parameter uses up.
Claimed(old, new, user, j) ==
    IF Reused(old, new, user, j) THEN user[j].name ELSE Friendly[new.params[j]]

\* freshName: how often the name was used before.
Used(old, new, user, j) ==
    Cardinality({k \in 1 .. j - 1 : Claimed(old, new, user, k) = Friendly[new.params[j]]})

SyncParam(old, new, user, j) ==
    IF Reused(old, new, user, j) THEN user[j]
    ELSE [name |-> <<Friendly[new.params[j]][1], Used(old, new, user, j) + 1>>,
          type |-> TypeName[new.params[j]]]

StateParam(h) ==
    IF ~h.stateful THEN << >>
    ELSE IF h.params # << >> THEN <<Head(h.params)>>
    ELSE <<[name |-> <<"state", 1>>, type |-> "state"]>>

\* buildHandlerSync; an empty Kotlin parameter list is left as it is.
HandlerSync(h, old, new) ==
    LET user == UserParams(h)
    IN IF ~h.stateful /\ new.params = << >> THEN h
       ELSE [h EXCEPT !.params =
                StateParam(h) \o [j \in DOMAIN new.params |-> SyncParam(old, new, user, j)]]

--------------------------------------------------------------------------------
\* Its author gave the handler parameters of the types that the expression captures, fewer
\* of them or more.
AsWritten ==
    LET user == UserParams(handler)
    IN \A j \in DOMAIN user \cap DOMAIN expression.params :
           user[j].type = TypeName[expression.params[j]]

Init ==
    /\ docs \in Written /\ written = docs
    /\ expression \in Expressions
    /\ handler \in Handlers /\ AsWritten
    /\ phase = "idle" /\ plan = NoPlan /\ answers = << >> /\ edits = {}
    /\ cursor = AtDefinition /\ location = AtDefinition
    /\ typed = {}

\* prepareRename of the provider: in an oath, its first match of the definition.
Prepare ==
    /\ phase = "idle"
    /\ \E c \in {AtDefinition} \cup {[oath |-> m.oath, line |-> m.line] : m \in Matches} :
          /\ cursor' = c
          /\ location' = IF c = AtDefinition THEN c
                         ELSE [oath |-> c.oath, line |-> First(MatchesIn(c.oath)).line]
    /\ phase' = "naming"
    /\ UNCHANGED <<docs, expression, handler, plan, answers, edits, written, typed>>

\* provideRenameEdits up to the answer of var/planRename.
PlanRename(new) ==
    /\ phase = "naming" /\ new # expression
    /\ phase' = "filling"
    /\ plan' = [by |-> "planRename", old |-> expression, new |-> new, matches |-> Matches,
                handler |-> HandlerSync(handler, expression, new)]
    /\ answers' = << >> /\ edits' = {}
    /\ UNCHANGED <<docs, expression, handler, cursor, location, written, typed>>

\* "Nothing to rename": the provider throws.
NothingToRename ==
    /\ phase = "naming"
    /\ phase' = "idle"
    /\ UNCHANGED <<docs, expression, handler, cursor, location, plan, answers, edits,
                   written, typed>>

Unanswered == Prompts(plan.old, plan.new) \ DOMAIN answers

Asking ==
    /\ phase = "filling" /\ plan.by = "planRename" /\ plan.matches # {}
    /\ Unanswered # {}

\* The user gives a value of the parameter's type, for one parameter after the other.
Answer(v) ==
    /\ Asking
    /\ \E j \in Unanswered :
          /\ \A k \in Unanswered : j <= k
          /\ v.type = plan.new.params[j]
          /\ answers' = [k \in DOMAIN answers \cup {j} |-> IF k = j THEN v ELSE answers[k]]
    /\ UNCHANGED <<docs, expression, handler, phase, cursor, location, plan, edits,
                   written, typed>>

\* Escape aborts the whole rename.
Escape ==
    /\ Asking
    /\ phase' = "idle" /\ plan' = NoPlan /\ edits' = {} /\ answers' = << >>
    /\ UNCHANGED <<docs, expression, handler, cursor, location, written, typed>>

EmptyValue == [type |-> "word", value |-> 0]

\* The values for a site: those it has, and the answers.
ValuesFor(site) ==
    [j \in DOMAIN plan.new.params |->
        IF ~Kept(plan.old, plan.new, j) THEN answers[j]
        ELSE IF j \in DOMAIN site.values THEN site.values[j] ELSE EmptyValue]

\* var/renderExpressionText for the first site that is left.
Render ==
    /\ phase = "filling" /\ plan.by = "planRename" /\ plan.matches # {}
    /\ Unanswered = {}
    /\ LET site == First(plan.matches)
       IN /\ edits' = edits \cup {[oath |-> site.oath, line |-> site.line,
                                   values |-> ValuesFor(site)]}
          /\ plan' = [plan EXCEPT !.matches = @ \ {site}]
    /\ answers' = << >>
    /\ UNCHANGED <<docs, expression, handler, phase, cursor, location, written, typed>>

--------------------------------------------------------------------------------
\* var/renameStep: all at once, with the values that every site has.
RenameStep(new) ==
    /\ phase = "idle" /\ new # expression
    /\ Len(new.params) = Len(expression.params)
    /\ \A m \in Matches : Len(m.values) = Len(new.params)
    /\ phase' = "filling"
    /\ plan' = [by |-> "renameStep", old |-> expression, new |-> new, matches |-> {},
                handler |-> handler]
    /\ edits' = {[oath |-> m.oath, line |-> m.line, values |-> m.values] : m \in Matches}
    /\ answers' = << >>
    /\ UNCHANGED <<docs, expression, handler, cursor, location, written, typed>>

\* renderExpression: optional and alternative text is "emitted verbatim".
Rendered(e) == IF e.plain THEN e.wording ELSE "verbatim"

\* An edit replaces what is on its line.
Edited(o, l) ==
    IF \E e \in edits : e.oath = o /\ e.line = l
    THEN [wording |-> Rendered(plan.new),
          values |-> (CHOOSE e \in edits : e.oath = o /\ e.line = l).values,
          headers |-> docs[o][l].headers]
    ELSE docs[o][l]

\* The editor applies the edits, wherever the text has gone.
Apply ==
    /\ phase = "filling" /\ plan.matches = {}
    /\ docs' = [o \in OathSet |-> [l \in DOMAIN docs[o] |-> Edited(o, l)]]
    /\ expression' = plan.new
    /\ handler' = plan.handler
    /\ phase' = "applied"
    /\ UNCHANGED <<cursor, location, plan, answers, edits, written, typed>>

--------------------------------------------------------------------------------
\* The user types while an input box is open (ignoreFocusOut).  VS Code gives up a rename
\* whose own editor changes.
Prose == [wording |-> "prose", values |-> << >>, headers |-> << >>]

TypeLine(o, place) ==
    /\ Asking /\ o # cursor.oath
    /\ Cardinality(typed) < MaxTyped
    /\ typed' = typed \cup {<<o, place>>}
    /\ LET with(lines) == IF place = "above" THEN <<Prose>> \o lines ELSE Append(lines, Prose)
       IN /\ docs' = [docs EXCEPT ![o] = with(@)]
          /\ written' = [written EXCEPT ![o] = with(@)]
    /\ UNCHANGED <<expression, handler, phase, cursor, location, plan, answers, edits>>

Next ==
    \/ Prepare \/ NothingToRename \/ Escape \/ Render \/ Apply
    \/ \E new \in Expressions : PlanRename(new) \/ RenameStep(new)
    \/ \E v \in Answers : Answer(v)
    \/ \E o \in OathSet, place \in {"above", "below"} : TypeLine(o, place)

Spec == Init /\ [][Next]_vars

--------------------------------------------------------------------------------
Renamed == phase = "applied"
Rewords == plan.old.params = plan.new.params

\* editor-support.mdx:132-138, "re-renders every matching sentence across every oath to
\* the new wording ... so the oaths stay runnable": a sentence that the definition matched
\* it still matches, with the values that it keeps; no other sentence changes.  It is not
\* so of a sentence that is bound to a table, nor in an oath whose lines were moved while a
\* value was asked for; and where the new expression is not plain the sentences keep their
\* values, but need not match.
StaysRunnable ==
    Renamed /\ (plan.by = "planRename" \/ Rewords) =>
        \A o \in OathSet : <<o, "above">> \notin typed =>
            \A l \in DOMAIN written[o] :
                IF ~Speaks(written[o][l], plan.old) THEN docs[o][l] = written[o][l]
                ELSE ~BoundTo(written[o][l]) =>
                     /\ expression.plain => Speaks(docs[o][l], expression)
                     /\ \A j \in DOMAIN expression.params :
                           Kept(plan.old, expression, j) =>
                               docs[o][l].values[j] = written[o][l].values[j]

\* handlers.test.ts:332-418, "adds a new typed arg", "drops a removed arg", "swaps the TS
\* type": the handler takes, after the state, what the new expression captures.
HandlerFits ==
    Renamed /\ plan.by = "planRename" =>
        LET user == UserParams(handler)
        IN \/ [j \in DOMAIN user |-> user[j].type]
                  = [j \in DOMAIN expression.params |-> TypeName[expression.params[j]]]
           \/ ~handler.stateful /\ expression.params = << >>
================================================================================
