---------------------------- MODULE MCKnowledge -----------------------------
(***************************************************************************)
(* What a tenant's documents go through: connecting the accounts and the   *)
(* tokens they yield, the initialisation run, extraction, the document     *)
(* index, the drafts, and the content packages made from them.  As in      *)
(* MCAgents, each behaviour exercises one component and the others rest.   *)
(***************************************************************************)
EXTENDS Connections, InstallationTokens, Onboarding, KnowledgeExtraction, Documents,
        MCDraftStore, ContentPackages, TLC

VARIABLE focus

knowledgeVars == <<focus, connVars, tokenVars, onbVars, extractVars, docVars, draftVars, contentVars>>

OneAccount  == [i \in Installations |-> "acc"]
PageGroups  == <<{"a"}, {"b", "c"}, {"d"}>>
OneChannel  == <<"blog">>

\* Nothing tells two generations or two review requests apart.
ContentSymmetry == Permutations(Generations) \cup Permutations(ContentReviews)

Init ==
    /\ focus \in {"connections", "tokens", "onboarding", "extraction", "documents", "drafts", "content"}
    /\ ConnInit
    /\ TokenInit
    /\ IF focus = "onboarding" THEN OnbInit ELSE OnbInitFor(NoRow, TRUE)
    /\ IF focus = "extraction" THEN ExtractInit ELSE ExtractInitFor("workers")
    /\ DocInit
    /\ DraftInit
    /\ IF focus = "content" THEN ContentInit ELSE ContentInitFor({"direct"})

Next ==
    \/ /\ focus = "connections" /\ ConnNext
       /\ UNCHANGED <<focus, tokenVars, onbVars, extractVars, docVars, draftVars, contentVars>>
    \/ /\ focus = "tokens" /\ TokenNext
       /\ UNCHANGED <<focus, connVars, onbVars, extractVars, docVars, draftVars, contentVars>>
    \/ /\ focus = "onboarding" /\ OnbNext
       /\ UNCHANGED <<focus, connVars, tokenVars, extractVars, docVars, draftVars, contentVars>>
    \/ /\ focus = "extraction" /\ ExtractNext
       /\ UNCHANGED <<focus, connVars, tokenVars, onbVars, docVars, draftVars, contentVars>>
    \/ /\ focus = "documents" /\ DocNext
       /\ UNCHANGED <<focus, connVars, tokenVars, onbVars, extractVars, draftVars, contentVars>>
    \/ /\ focus = "drafts" /\ DraftNext
       /\ UNCHANGED <<focus, connVars, tokenVars, onbVars, extractVars, docVars, contentVars>>
    \/ /\ focus = "content" /\ ContentNext
       /\ UNCHANGED <<focus, connVars, tokenVars, onbVars, extractVars, docVars, draftVars>>

Spec == Init /\ [][Next]_knowledgeVars
=============================================================================
