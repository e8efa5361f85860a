--------------------------- MODULE ArtifactStore ---------------------------
(***************************************************************************)
(* What the draft store promises its readers: an artifact is opened, grows *)
(* chunk by chunk, may be cleared for a replay while it is open, and is    *)
(* sealed once, with content; a sealed artifact never changes.             *)
(***************************************************************************)
EXTENDS Naturals

CONSTANTS
    Artifacts,
    Texts       \* what a chunk may hold

VARIABLES
    state,      \* "none", "open" or "sealed"
    body        \* chunk_index -> text

artVars == <<state, body>>

\* The index of the next chunk of a body.
NextIndex(b) == IF DOMAIN b = {} THEN 0 ELSE 1 + CHOOSE i \in DOMAIN b : \A j \in DOMAIN b : j <= i

\* A body with text x at index k.
With(b, k, x) == [i \in DOMAIN b \cup {k} |-> IF i = k THEN x ELSE b[i]]

NoText == [i \in {} |-> i]

ArtInit ==
    /\ state = [a \in Artifacts |-> "none"]
    /\ body  = [a \in Artifacts |-> NoText]

Open(a) ==
    /\ state[a] = "none"
    /\ state' = [state EXCEPT ![a] = "open"]
    /\ UNCHANGED body

Grow(a, x) ==
    /\ state[a] = "open"
    /\ body' = [body EXCEPT ![a] = With(body[a], NextIndex(body[a]), x)]
    /\ UNCHANGED state

Clear(a) ==
    /\ state[a] = "open"
    /\ body' = [body EXCEPT ![a] = NoText]
    /\ UNCHANGED state

Seal(a) ==
    /\ state[a] = "open" /\ body[a] # NoText
    /\ state' = [state EXCEPT ![a] = "sealed"]
    /\ UNCHANGED body

ArtNext == \E a \in Artifacts : Open(a) \/ Clear(a) \/ Seal(a) \/ \E x \in Texts : Grow(a, x)

ArtSpec == ArtInit /\ [][ArtNext]_artVars
=============================================================================
