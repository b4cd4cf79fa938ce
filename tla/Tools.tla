-------------------------------- MODULE Tools --------------------------------
(***************************************************************************)
(* The outer and the inner end of a tool: the protocol the reader speaks   *)
(* to its clients (Service), and what its tools ask the graph of Fedlex    *)
(* (LawTools).  A behaviour is about one of them; NormReader has the way   *)
(* of one call through both.                                               *)
(***************************************************************************)
EXTENDS LawTools

CONSTANTS opaque, Environments, Redeployed, Kids, Messages, Dated, Sources

\* none is told from an answer to a message.
ASSUME NoneAssumption ==
    none \notin [status : {200, 202, 400, 403}, id : {none, "null"},
                 kind : {"guard", "parse_error", "accepted"}, m : Messages, result : {none}]

VARIABLES
    part,                                                   \* the end it is about
    pod, env, keys, serving, told, agreed, listed, log      \* Service

Svc == INSTANCE Service WITH call <- serving, Days <- Dated
svcVars == <<pod, env, keys, serving, told, agreed, listed, log>>

ToolsInit ==
    /\ part \in {"protocol", "law"}
    /\ Svc!Init /\ (part # "protocol" => env = CHOOSE e \in Environments : TRUE)
    /\ Init /\ (part # "law" => theme = CHOOSE t \in Themes : TRUE)

ToolsNext ==
    /\ UNCHANGED part
    /\ \/ part = "protocol" /\ Svc!Next /\ UNCHANGED vars
       \/ part = "law" /\ Next /\ UNCHANGED svcVars

toolsVars == <<part, vars, svcVars>>

ToolsSpec == ToolsInit /\ [][ToolsNext]_toolsVars

(* Service: what initialize agrees on is not turned away afterwards.         *)
HandshakeHolds == Svc!HandshakeHolds

(* ToolContract: what is listed to a token can be called with it.            *)
ListedIsCallable == Svc!ListedIsCallable

(* Service: every message that wants one has its own answer, no other has.   *)
AnswersMatch == Svc!AnswersMatch

(* Startup: a token is trusted as the environment says, or by nobody.        *)
TrustAsConfigured == Svc!TrustAsConfigured

(* Service: the audit log has the calls that were let through, and no more    *)
(* of them than it may.                                                      *)
LogTellsTheCall == Svc!LogTellsTheCall
==============================================================================
