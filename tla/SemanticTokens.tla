------------------------------ MODULE SemanticTokens ------------------------------
(***************************************************************************)
(* The semantic tokens that the editors of the website show                 *)
(* (website/src/lib/cm-semantic-tokens.ts), against the language server in  *)
(* its worker (lsp/src/server.ts): texts travel one way, notifications and  *)
(* answers the other, both in order.                                        *)
(*                                                                         *)
(* A text is its number of edits.  Tokens are what they were computed from: *)
(* the text of the file as the server had it and the texts of the index.    *)
(* IndexPipeline has the awaits of a reindex one by one; here it reads all  *)
(* files in one step and assigns the index in another.                      *)
(***************************************************************************)
EXTENDS Integers, SequencesExt

CONSTANTS
    Views,        \* the views that have the language server, in order of mounting
    MaxKeystrokes, \* bound: edits
    MaxRejected   \* bound: requests that fail

VARIABLES
    text,         \* of each view
    unsynced,     \* the views whose last edits the client has not sent
    debounce,     \* the views whose 150 ms run
    shown,        \* the tokens that each view shows
    toServer, toClient,   \* messages under way
    documents,    \* the texts that the server has
    dirty,        \* the server has a text that no reindex was begun for
    links,        \* reindexes that were put on the chain
    landed,       \* those that are over
    reading,      \* the texts that the one under way has read; << >> before
    indexed,      \* the texts that the index was built from
    waiting,      \* requests that await settled(), each with its link, in order
    keystrokes,   \* edits
    rejected,     \* requests that failed
    missed        \* history: the views whose last request failed

client == <<text, unsynced, debounce, shown>>
chain == <<links, landed, reading, indexed>>
wire == <<toServer, toClient>>
server == <<documents, dirty, waiting>>
history == <<rejected, missed>>
tokenVars == <<client, chain, wire, server, keystrokes, history>>

--------------------------------------------------------------------------------
Editors == Range(Views)
NoTokens == [text |-> 0, index |-> << >>]
Seed == [e \in Editors |-> 0]

Open(e, n) == [kind |-> "text", of |-> e, text |-> n]
Request(e) == [kind |-> "request", of |-> e]

\* The server has indexed the seed before anything is asked of it.  mountAll constructs
\* every view in one go: each opens its file and asks for its tokens.
Init ==
    /\ text = Seed /\ unsynced = {} /\ debounce = {}
    /\ shown = [e \in Editors |-> NoTokens]
    /\ toServer = FlattenSeq([i \in DOMAIN Views |-> <<Open(Views[i], 0), Request(Views[i])>>])
    /\ toClient = << >>
    /\ documents = Seed /\ dirty = FALSE
    /\ links = 0 /\ landed = 0 /\ reading = << >> /\ indexed = Seed
    /\ waiting = << >> /\ keystrokes = 0 /\ rejected = 0 /\ missed = {}

--------------------------------------------------------------------------------
\* The user types: update() starts the 150 ms anew.
Type(e) ==
    /\ keystrokes < MaxKeystrokes /\ keystrokes' = keystrokes + 1
    /\ text' = [text EXCEPT ![e] = @ + 1]
    /\ unsynced' = unsynced \cup {e} /\ debounce' = debounce \cup {e}
    /\ UNCHANGED <<shown, chain, wire, server, history>>

\* The client sends the text, in its own time.
Sync(e) ==
    /\ e \in unsynced /\ unsynced' = unsynced \ {e}
    /\ toServer' = Append(toServer, Open(e, text[e]))
    /\ UNCHANGED <<text, debounce, shown, chain, toClient, server, history, keystrokes>>

DebounceFires(e) ==
    /\ e \in debounce /\ debounce' = debounce \ {e}
    /\ toServer' = Append(toServer, Request(e))
    /\ UNCHANGED <<text, unsynced, shown, chain, toClient, server, history, keystrokes>>

--------------------------------------------------------------------------------
\* settled(): what is dirty is put on the chain.
Settled ==
    /\ links' = IF dirty THEN links + 1 ELSE links
    /\ dirty' = FALSE

Answer(e, index) == [kind |-> "tokens", of |-> e, tokens |-> [text |-> documents[e],
                                                              index |-> index]]

\* The server takes a text, a request, or the tick of its own debounce.
TakeText ==
    /\ toServer # << >> /\ Head(toServer).kind = "text"
    /\ LET m == Head(toServer) IN documents' = [documents EXCEPT ![m.of] = m.text]
    /\ dirty' = TRUE /\ toServer' = Tail(toServer)
    /\ UNCHANGED <<client, chain, toClient, waiting, history, keystrokes>>

TakeRequest ==
    /\ toServer # << >> /\ Head(toServer).kind = "request"
    /\ toServer' = Tail(toServer) /\ Settled
    /\ LET e == Head(toServer).of
       IN IF links' = landed
          THEN toClient' = Append(toClient, Answer(e, indexed)) /\ UNCHANGED waiting
          ELSE waiting' = Append(waiting, [of |-> e, link |-> links']) /\ UNCHANGED toClient
    /\ UNCHANGED <<client, landed, reading, indexed, documents, history, keystrokes>>

ReindexIsDue ==
    /\ dirty /\ Settled
    /\ UNCHANGED <<client, landed, reading, indexed, wire, documents, waiting, history, keystrokes>>

ReindexReads ==
    /\ landed < links /\ reading = << >> /\ reading' = documents
    /\ UNCHANGED <<client, links, landed, indexed, wire, server, history, keystrokes>>

\* The index is assigned, didIndex is sent, and those who waited go on, in order.
ReindexLands ==
    LET due(w) == w.link = landed + 1
        answers == SelectSeq(waiting, due)
    IN
    /\ reading # << >> /\ reading' = << >>
    /\ indexed' = reading /\ landed' = landed + 1
    /\ toClient' = Append(toClient, [kind |-> "didIndex"])
                     \o [i \in DOMAIN answers |-> Answer(answers[i].of, indexed')]
    /\ waiting' = SelectSeq(waiting, LAMBDA w : ~due(w))
    /\ UNCHANGED <<client, links, toServer, documents, dirty, history, keystrokes>>

--------------------------------------------------------------------------------
\* Mutant: the last view mounted is the one that is refreshed.
RefreshedLast == <<Request(Last(Views))>>

\* refreshers, each run.
Refreshed == [i \in DOMAIN Views |-> Request(Views[i])]

\* 'var/didIndex': every refresher runs.
TakeDidIndex ==
    /\ toClient # << >> /\ Head(toClient).kind = "didIndex"
    /\ toClient' = Tail(toClient)
    /\ toServer' = toServer \o Refreshed
    /\ UNCHANGED <<client, chain, server, history, keystrokes>>

\* The rest of run(): the tokens replace what is shown, whatever was typed meanwhile.
TakeTokens ==
    /\ toClient # << >> /\ Head(toClient).kind = "tokens"
    /\ LET m == Head(toClient) IN
       /\ shown' = [shown EXCEPT ![m.of] = m.tokens]
       /\ missed' = missed \ {m.of}
    /\ toClient' = Tail(toClient)
    /\ UNCHANGED <<text, unsynced, debounce, chain, toServer, server, rejected, keystrokes>>

\* The client gives an answer up (it has a timeout of its own): run() ends.
Reject ==
    /\ rejected < MaxRejected /\ rejected' = rejected + 1
    /\ toClient # << >> /\ Head(toClient).kind = "tokens"
    /\ missed' = missed \cup {Head(toClient).of} /\ toClient' = Tail(toClient)
    /\ UNCHANGED <<client, chain, toServer, server, keystrokes>>

Next ==
    \/ \E e \in Editors : Type(e) \/ Sync(e) \/ DebounceFires(e)
    \/ TakeText \/ TakeRequest \/ ReindexIsDue \/ ReindexReads \/ ReindexLands
    \/ TakeDidIndex \/ TakeTokens \/ Reject

\* Timers fire, messages arrive, reindexes end; nobody need type.
Fairness ==
    /\ \A e \in Editors : WF_tokenVars(Sync(e)) /\ WF_tokenVars(DebounceFires(e))
    /\ WF_tokenVars(TakeText) /\ WF_tokenVars(TakeRequest)
    /\ WF_tokenVars(ReindexIsDue) /\ WF_tokenVars(ReindexReads) /\ WF_tokenVars(ReindexLands)
    /\ WF_tokenVars(TakeDidIndex) /\ WF_tokenVars(TakeTokens \/ Reject)

Spec == Init /\ [][Next]_tokenVars /\ Fairness

--------------------------------------------------------------------------------
\* cm-semantic-tokens.ts:48-49: in the end every view shows the tokens of its own text and
\* of an index of all texts as they are, also those typed in the other views, unless the
\* last answer to it was given up.
TokensSettle ==
    <>[](\A e \in Editors \ missed : shown[e] = [text |-> text[e], index |-> text])
================================================================================
