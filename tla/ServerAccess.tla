----------------------------- MODULE ServerAccess ------------------------------
(***************************************************************************)
(* Who gets through to the approval runtime: the layers and handlers of    *)
(* the hook server (winvibe-hook-server, middleware/ and handlers/) and    *)
(* the HTTP client of the hook (winvibe-hookcli, http_client.rs), on top   *)
(* of the file through which they share their token.                       *)
(*                                                                         *)
(* An exchange reads nothing but the request and the server's own copy of  *)
(* the token, so it is one step, and taken while no process is starting.   *)
(* The runtime behind the handlers is ApprovalRuntime; here it answers     *)
(* anything it may answer.                                                 *)
(***************************************************************************)
EXTENDS ConfigFile

CONSTANTS
  Unlinkable, \* addresses the server can bind and the hook cannot put in a URL: ::1
  Traces,     \* trace ids
  DrawnTrace  \* those that the server draws

ASSUME AccessAssumption ==
  /\ Unlinkable \subseteq Addresses
  /\ DrawnTrace \notin Traces
  /\ {"none", "other"} \cap Hooks = {}

VARIABLE exchange  \* the exchange that has just ended, or NoExchange

(* What a header names: "foreign" stands for every value that is not a loopback
   address or localhost, the unreadable ones included. *)
Named == {"absent", "loopback", "foreign"}

(* What is wrong with a body, or with the X-Approval-Id header or the approval_id. *)
Forms(endpoint) ==
  {"not_typed", "bad_id", "sound"} \cup (IF endpoint = "submit" THEN {"no_object"} ELSE {})

(* A token of Nothing is a header that is missing or has no bearer token; a trace
   that is missing is as unreadable as a garbled one.  Nothing reads the body of a
   request before the layers let it pass: it varies in those that may pass. *)
Requests ==
  {r \in [token : Tokens \cup {Nothing}, origin : Named, host : Named,
          trace : Traces \cup {"unreadable"},
          endpoint : {"submit", "poll"}, form : Forms("submit")] :
     /\ r.form \in Forms(r.endpoint)
     /\ r.form # "sound" => r.token # Nothing /\ r.origin = "absent" /\ r.host = "loopback"}

(* A reply: its status, the code of its body, the trace id in its body and in its
   traceparent header, and whether it comes from the runtime or from before it. *)
Reply(status, code, trace, from) ==
  [status |-> status, code |-> code, trace |-> trace, header |-> "absent", from |-> from]

Refusal(status, code, trace)  == Reply(status, code, trace, "server")
Verdict(status, body, trace)  == Reply(status, body, trace, "runtime")

(* The client has no connection. *)
Unreached == Refusal("none", "none", "absent")

NoExchange == [from |-> "none"]

Exchange(from, to, request, reply) ==
  [from |-> from, to |-> to, sent |-> request, reply |-> reply]

--------------------------------------------------------------------------------
(* The layers *)

(* from_traceparent: four parts, version 00, and two ids of the right lengths. *)
Readable(trace) == trace \in Traces

(* extract_trace_ctx: the client's, when it can be parsed. *)
ExtractTrace(request) == IF Readable(request.trace) THEN request.trace ELSE DrawnTrace

(* validate_bearer_token *)
BearerOk(token, expected) == token = expected

\* mutant of OriginOk: every request must have an Origin
OriginOkDemandsOrigin(request) ==
  request.origin = "loopback" /\ request.host # "foreign"

\* mutant of OriginOk: a good Origin is enough, or a good Host
OriginOkEither(request) == "loopback" \in {request.origin, request.host}

(* validate_origin: one of the two must be there, and what is there must be a
   loopback address or localhost. *)
OriginOk(request) ==
  LET named == {request.origin, request.host}
  IN "loopback" \in named /\ "foreign" \notin named

--------------------------------------------------------------------------------
(* The handlers *)

(* map_runtime_error, for the errors that a submission and a poll can meet: StoreFull
   is never raised, and nobody decides over HTTP. *)
RuntimeErrors(endpoint, trace) ==
  IF endpoint = "submit"
    THEN {Verdict("503", "shutting_down", trace), Verdict("409", "busy_another_active", trace),
          Verdict("409", "duplicate_id", trace)}
    ELSE {Verdict("404", "approval_not_found", trace)}

(* The two answers of the runtime that are not errors. *)
RuntimeAnswers == {Verdict("200", "decided", "absent"), Verdict("202", "pending", "absent")}

(* A body that the Json extractor refuses is answered in plain text, before the
   handler runs. *)
Extracted(request) == request.form # "not_typed"

(* handle_submit and handle_poll: the id first, then the object. *)
Handler(request, trace) ==
  CASE ~ Extracted(request)        -> {Refusal("4xx", "plain text", "absent")}
    [] request.form = "bad_id"     -> {Refusal("400", "invalid_request", trace)}
    [] request.form = "no_object"  -> {Refusal("422", "payload_unprocessable", trace)}
    [] request.form = "sound"      ->
         RuntimeErrors(request.endpoint, trace) \cup RuntimeAnswers

OriginLayer(request, trace) ==
  IF OriginOk(request) THEN Handler(request, trace)
                       ELSE {Refusal("403", "origin_forbidden", trace)}

AuthLayer(p, request, trace) ==
  IF BearerOk(request.token, app[p].config.token)
    THEN OriginLayer(request, trace)
    ELSE {Refusal("401", "unauthorized", trace)}

(* Every reply has the header, and every refusal further in has the id. *)
TraceparentLayer(p, request) ==
  LET trace == ExtractTrace(request)
  IN {[reply EXCEPT !.header = trace] : reply \in AuthLayer(p, request, trace)}

\* mutant of Router: the layers are added in the order in which they should run
RouterReversed(p, request) ==
  LET trace == ExtractTrace(request)
  IN IF OriginOk(request)
       THEN IF BearerOk(request.token, app[p].config.token)
              THEN {[reply EXCEPT !.header = trace] : reply \in Handler(request, trace)}
              ELSE {Refusal("401", "unauthorized", "absent")}
       ELSE {Refusal("403", "origin_forbidden", "absent")}

(* build_router: the traceparent layer is the outermost one. *)
Router(p, request) == TraceparentLayer(p, request)

--------------------------------------------------------------------------------
(* The client *)

(* acquire_or_create_trace: inherited from the agent or drawn, readable either way. *)
HookTraces == Traces

(* HookClient::submit and poll: the token of its configuration, the address as the
   Host, no Origin, the trace it inherited or drew, and what it read as a typed
   payload under an id it drew itself. *)
HookRequest(h, trace, endpoint, form) ==
  [token |-> hook[h].config.token, origin |-> "absent", host |-> "loopback",
   trace |-> trace, endpoint |-> endpoint, form |-> form]

(* The process that has the address of the hook's URL. *)
Reachable(h, p) ==
  /\ At(p, "serving")
  /\ app[p].config.settings = hook[h].config.settings
  /\ hook[h].config.settings \notin Unlinkable

Calm == exchange = NoExchange /\ \A p \in Apps : ~ Starting(p)

HookAsks(h) ==
  /\ Calm
  /\ hook[h].pc = "loaded"
  /\ \E trace \in HookTraces, endpoint \in {"submit", "poll"} :
       \E form \in Forms(endpoint) \ {"not_typed", "bad_id"} :
         LET request == HookRequest(h, trace, endpoint, form)
         IN \/ /\ \A p \in Apps : ~ Reachable(h, p)
               /\ exchange' = Exchange(h, Nothing, request, Unreached)
            \/ \E p \in {q \in Apps : Reachable(h, q)} : \E reply \in Router(p, request) :
                 exchange' = Exchange(h, p, request, reply)
  /\ UNCHANGED vars

(* Anyone else on the machine, a web page included. *)
OtherAsks(p) ==
  /\ Calm
  /\ At(p, "serving")
  /\ \E request \in Requests : \E reply \in Router(p, request) :
       exchange' = Exchange("other", p, request, reply)
  /\ UNCHANGED vars

Ended ==
  /\ exchange # NoExchange
  /\ exchange' = NoExchange
  /\ UNCHANGED vars

AccessInit == Init /\ exchange = NoExchange

AccessNext ==
  \/ exchange = NoExchange /\ Next /\ UNCHANGED exchange
  \/ \E h \in Hooks : HookAsks(h)
  \/ \E p \in Apps : OtherAsks(p)
  \/ Ended

AccessSpec == AccessInit /\ [][AccessNext]_<<vars, exchange>>

--------------------------------------------------------------------------------
(* A hook that has read the file, however long ago and whatever crash, restart,
   rewrite or other settings lie in between, is never turned away by a server that it
   reaches: the runtime answers, or it is told that its payload is not one.  Only a
   user who changes the token between the two reads of it parts them. *)
HooksAreServed ==
  (~ contended /\ exchange.from \in Hooks \ overtaken /\ exchange.to \notin overtaken) =>
    \/ exchange.reply = Unreached
    \/ exchange.reply.from = "runtime"
    \/ exchange.sent.form = "no_object" /\ exchange.reply.code = "payload_unprocessable"

(* What reaches the runtime of a server whose text takes a token came with the one
   that is on disk now, whatever was written since the server read it, and nothing
   that reaches any runtime comes from a page of another host. *)
OnlyHoldersAreServed ==
  (exchange # NoExchange /\ exchange.reply.from = "runtime") =>
    /\ (~ contended /\ exchange.to \in Standing /\ Writable(app[exchange.to].config)) =>
         exchange.sent.token = content[path].token
    /\ "foreign" \notin {exchange.sent.origin, exchange.sent.host}

(* The replies that have no id in their body. *)
Untraced == {"plain text", "decided", "pending"}

(* Every reply carries the trace id that the client sent, if it sent one that can
   be read, and a refusal that has an id in its body has the same one. *)
AnswersCarryTheTrace ==
  (exchange # NoExchange /\ exchange.reply # Unreached) =>
    /\ exchange.reply.header \in Traces \cup {DrawnTrace}
    /\ exchange.sent.trace \in Traces => exchange.reply.header = exchange.sent.trace
    /\ exchange.reply.code \notin Untraced =>
         exchange.reply.trace = exchange.reply.header
================================================================================
