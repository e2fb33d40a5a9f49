----------------------------- MODULE MCKnowledge ------------------------------
(***************************************************************************)
(* One instance of each of three components of the knowledge base: the     *)
(* gateway to the models, the chain of passes over the statements, and the *)
(* turn of a reader.  The component that moves is chosen at the start; the *)
(* others stay as they began.                                              *)
(***************************************************************************)
EXTENDS ModelGateway, KnowledgeChain, AgentTurn, TLC

CONSTANTS c1, c2, c3, c4, c5, glm, mini, odd, f1, f2, p1, p2

VARIABLE moving

\* Two calls of the extraction profile; a payload beyond the cap; a model that
\* is not allowed.
AskedModel == [c \in Calls |-> IF c = c4 THEN odd ELSE glm]
TwoModels == <<glm, mini>>

OneEach == [f \in Fragments |-> f]
\* The day's catch-up beside a pass somebody starts by hand.
StartedAs == [p \in Passes |-> IF p = p1 THEN {"catch-up"} ELSE {"read-claims"}]

KnowledgeInit ==
    /\ GatewayInit /\ ChainInit /\ TurnInit
    /\ moving \in {"gateway", "chain", "turn"} /\ (moving # "turn" => key = "active")

KnowledgeNext ==
    /\ UNCHANGED moving
    /\ \/ /\ moving = "gateway" /\ GatewayNext
          /\ UNCHANGED <<chainVars, turnVars>>
       \/ /\ moving = "chain" /\ ChainNext
          /\ UNCHANGED <<gatewayVars, turnVars>>
       \/ /\ moving = "turn" /\ TurnNext
          /\ UNCHANGED <<gatewayVars, chainVars>>

KnowledgeSpec ==
    KnowledgeInit /\ [][KnowledgeNext]_<<moving, gatewayVars, chainVars, turnVars>>

\* The state of each component is of its kind.
KnowledgeTypeOK == GatewayTypeOK /\ ChainTypeOK /\ TurnTypeOK
=============================================================================
