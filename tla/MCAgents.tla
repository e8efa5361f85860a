------------------------------ MODULE MCAgents ------------------------------
(***************************************************************************)
(* What surrounds one agent call: steering, the loop guards, the choice of *)
(* a model, the graph the call belongs to, and the writer's session.  The  *)
(* components share no state, so each behaviour exercises one of them (the *)
(* focus) and the others rest: the reachable states are the sum of theirs. *)
(***************************************************************************)
EXTENDS Steering, AgentGuards, ModelRouting, ModelCatalogue, WorkflowGraphs, WriterSession, TLC

VARIABLE focus

agentsVars == <<focus, steerVars, guardVars, routeVars, catalogueVars, graphVars, sessionVars>>

Assigned   == [a \in Agents |-> IF a = "d" THEN "delivery" ELSE "writer"]
Priorities == [p \in Providers |-> CASE p = "a" -> 1 [] p = "b" -> 2 [] OTHER -> 3]
Spaces     == [p \in Providers |-> IF p = "c" THEN "s2" ELSE "s1"]
Deployed   == {Registered, Production, {"nebius_token_factory"}, {"mantle", "nebius_token_factory"}}

Init ==
    /\ focus \in {"steering", "guards", "routing", "catalogue", "graph", "session"}
    /\ IF focus = "steering" THEN SteerInit ELSE SteerInitFor("off")
    /\ GuardInit
    /\ RouteInit
    /\ IF focus = "catalogue" THEN CatalogueInit ELSE CatalogueInitFor({})
    /\ IF focus = "graph" THEN GraphInit ELSE GraphInitFor("documentation")
    /\ SessionInit

Next ==
    \/ /\ focus = "steering" /\ SteerNext
       /\ UNCHANGED <<focus, guardVars, routeVars, catalogueVars, graphVars, sessionVars>>
    \/ /\ focus = "guards" /\ GuardNext
       /\ UNCHANGED <<focus, steerVars, routeVars, catalogueVars, graphVars, sessionVars>>
    \/ /\ focus = "routing" /\ RouteNext
       /\ UNCHANGED <<focus, steerVars, guardVars, catalogueVars, graphVars, sessionVars>>
    \/ /\ focus = "catalogue" /\ CatalogueNext
       /\ UNCHANGED <<focus, steerVars, guardVars, routeVars, graphVars, sessionVars>>
    \/ /\ focus = "graph" /\ GraphNext
       /\ UNCHANGED <<focus, steerVars, guardVars, routeVars, catalogueVars, sessionVars>>
    \/ /\ focus = "session" /\ SessionNext
       /\ UNCHANGED <<focus, steerVars, guardVars, routeVars, catalogueVars, graphVars>>

Spec == Init /\ [][Next]_agentsVars
=============================================================================
