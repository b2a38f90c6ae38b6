----------------------------- MODULE Autocomplete -----------------------------
(***************************************************************************)
(* Suggestions while a title or an author is typed: the hook               *)
(* ui/src/hooks/useDebouncedAutocomplete.ts under WorkAutocompleteInput    *)
(* and AuthorAutocompleteInput (ui/src/components/searchBars). A text that *)
(* has not changed for two seconds is looked up; answers come in any order.*)
(***************************************************************************)
EXTENDS Integers, FiniteSets

CONSTANTS
    Text,           \* texts long enough to be looked up
    Short,          \* any text shorter than that
    NoText,         \* no timer, no suggestions
    MaxEdits        \* bound on the number of edits

Nulls ==
    /\ {Short, NoText} \intersect Text = {} /\ Short # NoText
    /\ MaxEdits \in Nat

VARIABLES
    query,      \* the text in the field
    timer,      \* the text the timer will look up
    request,    \* requestIdRef
    sent,       \* look-ups under way: [id, text]
    data,       \* the text the suggestions are for
    loading, error,
    isOpen      \* the list may be shown

vars == <<query, timer, request, sent, data, loading, error, isOpen>>

TypeOK ==
    /\ query \in Text \union {Short}
    /\ timer \in Text \union {NoText} /\ data \in Text \union {NoText}
    /\ request \in 0..MaxEdits
    /\ sent \subseteq [id: 1..request, text: Text]
    /\ loading \in BOOLEAN /\ error \in BOOLEAN /\ isOpen \in BOOLEAN

Init ==
    /\ query = Short /\ timer = NoText /\ request = 0 /\ sent = {}
    /\ data = NoText /\ loading = FALSE /\ error = FALSE /\ isOpen = FALSE

\* The effect of a new text: the timer starts again under a new id, or all is
\* cleared.
Effect(t) ==
    IF t = Short
    THEN /\ timer' = NoText /\ data' = NoText /\ loading' = FALSE /\ error' = FALSE
         /\ UNCHANGED request
    ELSE /\ request' = request + 1 /\ timer' = t
         /\ UNCHANGED <<data, loading, error>>

\* Typing opens the list of suggestions.
onChange(t) ==
    /\ t # query /\ request < MaxEdits
    /\ query' = t /\ Effect(t)
    /\ isOpen' = TRUE
    /\ UNCHANGED sent

\* A suggestion is taken by pressing the mouse on it: the caller fills in its
\* name, which is looked up like a typed one.
onPick(t) ==
    /\ isOpen /\ data # NoText /\ request < MaxEdits
    /\ IF t = query THEN UNCHANGED <<query, timer, request, data, loading, error>>
       ELSE query' = t /\ Effect(t)
    /\ isOpen' = FALSE
    /\ UNCHANGED sent

\* Leaving the field closes the list a little later.
FocusOrBlur == isOpen' = ~isOpen /\ UNCHANGED <<query, timer, request, sent, data, loading, error>>

\* Two seconds of quiet.
TimerFires ==
    /\ timer # NoText /\ timer' = NoText
    /\ sent' = sent \union {[id |-> request, text |-> timer]}
    /\ loading' = TRUE /\ error' = FALSE
    /\ UNCHANGED <<query, request, data, isOpen>>

\* Mutant: an answer is shown whatever it is for.
AnyAnswer(r) == TRUE

\* Every answer that is not the newest look-up's is dropped.
Newest(r) == r.id = request

Answered(r) ==
    /\ r \in sent /\ sent' = sent \ {r}
    /\ IF Newest(r)
       THEN /\ \/ data' = r.text /\ UNCHANGED error
               \/ error' = TRUE /\ UNCHANGED data
            /\ loading' = FALSE
       ELSE UNCHANGED <<data, error, loading>>
    /\ UNCHANGED <<query, timer, request, isOpen>>

Next ==
    \/ \E t \in Text \union {Short} : onChange(t)
    \/ \E t \in Text : onPick(t)
    \/ FocusOrBlur \/ TimerFires
    \/ \E r \in sent : Answered(r)

Spec == Init /\ [][Next]_vars

-----------------------------------------------------------------------------
(* Properties.                                                             *)

\* "Earlier in-flight requests are abandoned (their results discarded)"
\* (useDebouncedAutocomplete.ts:4-6): when the field has come to rest the
\* suggestions are those for its text, however the answers crossed, or the
\* look-up failed.
SuggestionsFit ==
    query \in Text /\ timer = NoText /\ ~loading /\ ~error => data = query

\* Why they fit: the timer has the text of the field and a number of its own, and
\* a look-up of that number is one for that text.
OneLookUp ==
    /\ timer # NoText => timer = query /\ request > 0 /\ \A r \in sent : r.id # request
    /\ query \in Text /\ timer = NoText => \A r \in sent : r.id = request => r.text = query

SuggestInv == TypeOK /\ OneLookUp /\ SuggestionsFit

\* "Queries shorter than `minLen` clear the state and skip the fetch"
\* (useDebouncedAutocomplete.ts:6-7): under a text that short nothing is shown. TLC
\* refutes it: an answer under way is shown when it comes.
ShortClears == query = Short => data = NoText
===============================================================================
