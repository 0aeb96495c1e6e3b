----------------------------- MODULE MCRendering -----------------------------
(***************************************************************************)
(* From the output of a command to the text that is shown, for TLC: the    *)
(* pipeline over outputs and reducers of every kind, or one of the         *)
(* reducers over the lines it tells apart.  Nothing joins the two but what *)
(* the pipeline relies on of a reducer: one is chosen and the other stays  *)
(* at rest.                                                                *)
(***************************************************************************)
EXTENDS MCFilters, MCRenderPipeline

NoFilter == "none"

RenderingInit ==
  \/ /\ FilterInit
     /\ job = CHOOSE j \in Jobs : TRUE
     /\ Init
  \/ /\ filter = NoFilter /\ fed = <<>> /\ state = <<>> /\ open = TRUE
     /\ said = Said({}, 0, 0, FALSE)
     /\ Init

ReduceOnly == filter # NoFilter /\ FilterNext /\ UNCHANGED vars

RenderOnly == filter = NoFilter /\ Next /\ UNCHANGED filterVars

RenderingNext == ReduceOnly \/ RenderOnly

RenderingSpec == RenderingInit /\ [][RenderingNext]_<<filterVars, vars>>
=============================================================================
