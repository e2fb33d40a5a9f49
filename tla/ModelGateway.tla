---------------------------- MODULE ModelGateway ----------------------------
(***************************************************************************)
(* The one way out of the knowledge contour: ModelGateway.run of           *)
(* kx/src/radar_kx/orchestrator.py, called at the same time by any number  *)
(* of passes and by the agent API.  A call walks a chain of models,        *)
(* waiting out a busy profile and walking the chain again when nobody      *)
(* answered, and leaves a row of kx.egress_audit for every attempt.  A     *)
(* post and its row are two steps, so a call may be killed between them.   *)
(* supports_tools posts its own fixed question and leaves no row.          *)
(* Abstracted: the payload to whether it is over the run type's cap, an    *)
(* answer to whether it carries text, the waits to nothing.                *)
(***************************************************************************)
EXTENDS Naturals, Sequences, FiniteSets, SequencesExt

CONSTANTS
    Calls,          \* the calls made during a behaviour
    Allowed,        \* the models of ALLOWED_MODELS
    Fallback,       \* FALLBACK_ORDER, as a sequence of models
    Asked,          \* the model each call starts with: named, or the run type's
    Pinned,         \* the calls whose caller named the model
    Oversize,       \* the calls whose payload exceeds the run type's cap
    ToolProbes,     \* the calls of supports_tools, which posts once by itself
    BusyRetries,    \* BUSY_RETRIES
    ChainRounds,    \* CHAIN_ROUNDS
    Ceiling,        \* concurrent requests the extraction profile serves
    NoModel         \* no model

ASSUME GatewayAssumption ==
    /\ Fallback \in Seq(Allowed)
    /\ Pinned \subseteq Calls /\ Oversize \subseteq Calls /\ ToolProbes \subseteq Calls
    /\ DOMAIN Asked = Calls
    /\ BusyRetries \in Nat
    /\ ChainRounds \in Nat \ {0}
    /\ NoModel \notin Allowed

VARIABLES
    call,       \* per call: where it stands in the loops of run
    posted,     \* per call: the models its payload went to, in order
    egress      \* per call: its rows of kx.egress_audit, in order

gatewayVars == <<call, posted, egress>>

-----------------------------------------------------------------------------

\* A call that names its model is pinned to it; any other walks the order.
Chain(c) ==
    IF c \in Pinned \cup ToolProbes THEN <<Asked[c]>>
    ELSE <<Asked[c]>> \o SelectSeq(Fallback, LAMBDA m : m # Asked[c])

Steps == {"idle", "posting", "sent", "caught", "answered", "refusing",
          "returned", "raised", "escaped", "told", "killed"}
Errors == {"busy", "other"}
Outcomes == {"refused_model", "refused_oversize_payload", "failed", "succeeded"}

Fresh == [step |-> "idle", round |-> 1, link |-> 1, tries |-> 0,
          error |-> "other", body |-> NoModel, text |-> FALSE]

CallType == [step : Steps, round : 1..ChainRounds, link : Nat \ {0},
             tries : 0..BusyRetries, error : Errors,
             body : Allowed \cup {NoModel}, text : BOOLEAN]

Chosen(c) == Chain(c)[call[c].link]

GatewayInit ==
    /\ call = [c \in Calls |-> Fresh]
    /\ posted = [c \in Calls |-> <<>>]
    /\ egress = [c \in Calls |-> <<>>]

\* Variant: the waits of a busy profile are not recorded.
RecordButBusy(c, outcome, model) ==
    egress' = IF outcome = "failed" /\ call[c].error = "busy" THEN egress
              ELSE [egress EXCEPT ![c] = Append(@, [outcome |-> outcome, model |-> model])]

Record(c, outcome, model) ==
    egress' = [egress EXCEPT ![c] = Append(@, [outcome |-> outcome, model |-> model])]

-----------------------------------------------------------------------------

\* A model that is not allowed and a payload over the cap are refused before
\* anything leaves, and the refusal is a row too.  supports_tools looks at
\* neither.
RefuseAtOnce(c) ==
    /\ call[c].step = "idle" /\ c \notin ToolProbes
    /\ \/ /\ Asked[c] \notin Allowed
          /\ Record(c, "refused_model", Asked[c])
       \/ /\ Asked[c] \in Allowed /\ c \in Oversize
          /\ Record(c, "refused_oversize_payload", Asked[c])
    /\ call' = [call EXCEPT ![c].step = "raised"]
    /\ UNCHANGED posted

Admit(c) ==
    /\ call[c].step = "idle"
    /\ c \in ToolProbes \/ (Asked[c] \in Allowed /\ c \notin Oversize)
    /\ call' = [call EXCEPT ![c].step = "posting"]
    /\ UNCHANGED <<posted, egress>>

Post(c) ==
    /\ call[c].step = "posting"
    /\ posted' = [posted EXCEPT ![c] = Append(@, Chosen(c))]
    /\ call' = [call EXCEPT ![c].step = "sent"]
    /\ UNCHANGED egress

\* The profile refuses a request past its ceiling with 429, and a request
\* that times out reads the same to _is_busy.
Overloaded == Cardinality({d \in Calls : call[d].step = "sent"}) > Ceiling

ReplyText(c) ==
    /\ call[c].step = "sent" /\ ~Overloaded /\ c \notin ToolProbes
    /\ call' = [call EXCEPT ![c].step = "answered", ![c].body = Chosen(c), ![c].text = TRUE]
    /\ UNCHANGED <<posted, egress>>

\* A 200 whose body is an object without text content: _post has already
\* bound body when _content raises.
ReplyNoText(c) ==
    /\ call[c].step = "sent" /\ ~Overloaded /\ c \notin ToolProbes
    /\ call' = [call EXCEPT ![c].step = "caught", ![c].body = Chosen(c), ![c].error = "other"]
    /\ UNCHANGED <<posted, egress>>

\* A 200 whose bytes are not UTF-8: response.json raises a UnicodeDecodeError,
\* which is none of the errors that run catches, so the call ends without a row.
ReplyUndecodable(c) ==
    /\ call[c].step = "sent" /\ ~Overloaded /\ c \notin ToolProbes
    /\ call' = [call EXCEPT ![c].step = "escaped"]
    /\ UNCHANGED <<posted, egress>>

\* Any other reply, or none: a status, a body that is no JSON object, a failed
\* connection or a timeout.
ReplyError(c) ==
    /\ call[c].step = "sent" /\ c \notin ToolProbes
    /\ \E e \in Errors :
          /\ Overloaded => e = "busy"
          /\ call' = [call EXCEPT ![c].step = "caught", ![c].error = e]
    /\ UNCHANGED <<posted, egress>>

\* What follows a failed attempt: the same model again when it was busy, out
\* of both loops when a body is bound, else the next model, the next round,
\* or the end.
After(k, links) ==
    IF k.error = "busy" /\ k.tries < BusyRetries
    THEN [k EXCEPT !.step = "posting", !.tries = @ + 1]
    ELSE IF k.body # NoModel
    THEN [k EXCEPT !.step = "answered"]
    ELSE IF k.link < links
    THEN [k EXCEPT !.step = "posting", !.link = @ + 1, !.tries = 0]
    ELSE IF k.round < ChainRounds
    THEN [k EXCEPT !.step = "posting", !.link = 1, !.tries = 0, !.round = @ + 1]
    ELSE [k EXCEPT !.step = "refusing"]

RecordFailure(c) ==
    /\ call[c].step = "caught"
    /\ Record(c, "failed", Chosen(c))
    /\ call' = [call EXCEPT ![c] = After(call[c], Len(Chain(c)))]
    /\ UNCHANGED posted

Return(c) ==
    /\ call[c].step = "answered"
    /\ Record(c, "succeeded", Chosen(c))
    /\ call' = [call EXCEPT ![c].step = "returned"]
    /\ UNCHANGED posted

Raise(c) ==
    /\ call[c].step = "refusing"
    /\ Record(c, "failed", Chosen(c))
    /\ call' = [call EXCEPT ![c].step = "raised"]
    /\ UNCHANGED posted

\* supports_tools returns what came back, or its error, and records neither.
EndToolProbe(c) ==
    /\ call[c].step = "sent" /\ c \in ToolProbes
    /\ call' = [call EXCEPT ![c].step = "told"]
    /\ UNCHANGED <<posted, egress>>

Concluded == {"returned", "raised", "escaped", "told", "killed"}

\* The process is stopped, or the row cannot be written.
KillCall(c) ==
    /\ call[c].step \notin Concluded \cup {"idle"}
    /\ call' = [call EXCEPT ![c].step = "killed"]
    /\ UNCHANGED <<posted, egress>>

GatewayStep(c) ==
    \/ RefuseAtOnce(c) \/ Admit(c) \/ Post(c)
    \/ ReplyText(c) \/ ReplyNoText(c) \/ ReplyUndecodable(c) \/ ReplyError(c)
    \/ RecordFailure(c) \/ Return(c) \/ Raise(c) \/ EndToolProbe(c) \/ KillCall(c)

GatewayNext == \E c \in Calls : GatewayStep(c)

GatewaySpec == GatewayInit /\ [][GatewayNext]_gatewayVars

-----------------------------------------------------------------------------

\* Every call stands at a place of the loops and every row is a row.
GatewayTypeOK ==
    /\ call \in [Calls -> CallType]
    /\ \A c \in Calls : call[c].step \notin {"idle", "raised"} => call[c].link <= Len(Chain(c))
    /\ posted \in [Calls -> Seq(Allowed \cup {Asked[c] : c \in ToolProbes})]
    /\ egress \in [Calls -> Seq([outcome : Outcomes, model : Allowed \cup {Asked[c] : c \in Calls}])]

\* What crossed the boundary is in the audit: the n-th row of a call names the
\* model of its n-th post, and at most its last post has no row.  That one is
\* still under way, or its call was killed, or its reply could not be decoded, or
\* it is the post of supports_tools; a call that returned or raised an error of
\* its own has a row for every post, however its attempts failed.
LedgerCovers ==
    \A c \in Calls :
        /\ \A n \in 1..Len(posted[c]) : n <= Len(egress[c]) => egress[c][n].model = posted[c][n]
        /\ Len(posted[c]) <= Len(egress[c]) + 1
        /\ Len(posted[c]) > Len(egress[c])
              => \/ call[c].step \in {"sent", "caught", "answered", "escaped", "killed"}
                 \/ c \in ToolProbes
=============================================================================
