-------------------------------- MODULE MCEditors --------------------------------
(***************************************************************************)
(* The editors of the website: the views of one of them (EditorViews), and  *)
(* the semantic tokens that two views show (SemanticTokens).  A behaviour is *)
(* that of one of them; in the other nothing happens.                       *)
(***************************************************************************)
EXTENDS EditorViews

CONSTANTS
    Views, MaxKeystrokes, MaxRejected   \* of SemanticTokens

VARIABLES
    text, unsynced, debounce, shown, toServer, toClient, documents, dirty,
    links, landed, reading, indexed, waiting, keystrokes, rejected, missed,
    colouring                           \* it is a behaviour of SemanticTokens

T == INSTANCE SemanticTokens

tokenVars ==
    <<text, unsynced, debounce, shown, toServer, toClient, documents, dirty,
      links, landed, reading, indexed, waiting, keystrokes, rejected, missed, colouring>>
allVars == <<editorVars, tokenVars>>

--------------------------------------------------------------------------------
\* The oath and the step file in TypeScript have two versions, as those of Deep Thought.
MCOrder == <<"oath.md", "steps.ts", "steps.py">>
MCLang ==
    [f \in ToSet(MCOrder) |->
        CASE f = "oath.md" -> "neutral" [] f = "steps.ts" -> "ts" [] OTHER -> "py"]
MCVersions ==
    [f \in ToSet(MCOrder) |->
        CASE f = "oath.md" -> <<<<"a", "newline", "b", "c">>, <<"a", "newline", "c", "b">>>>
          [] f = "steps.ts" -> <<<<"a">>, <<"b", "newline">>>>
          [] OTHER -> <<<<"a">>>>]
MCLanguages == {"ts", "py", "go"}
MCViews == <<"oath.md", "steps.ts">>

--------------------------------------------------------------------------------
MCInit == Init /\ T!Init /\ colouring \in BOOLEAN

MCNext ==
    \/ ~colouring /\ Next /\ UNCHANGED tokenVars
    \/ colouring /\ T!Next /\ UNCHANGED <<editorVars, colouring>>

\* See EditorViews and SemanticTokens for why timers, messages and reindexes are fair.
MCFairness == Fairness /\ (colouring => T!Fairness)

MCSpec == MCInit /\ [][MCNext]_allVars /\ MCFairness

--------------------------------------------------------------------------------
\* See SemanticTokens: in the end every view shows the tokens of the texts as they are.
TokensSettle == colouring => T!TokensSettle
================================================================================
