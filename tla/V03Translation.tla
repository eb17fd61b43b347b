---------------------------- MODULE V03Translation ----------------------------
(***************************************************************************)
(* The v0.3 compatibility layer of the .NET server, with the client behind *)
(* it: the middleware rewrites a v0.3 request, keeps the whole answer of   *)
(* the v1.0 handler in memory, and translates it back when the handler is  *)
(* done; the client reads server-sent events with the playground's reader. *)
(*                                                                         *)
(* A part is the kind it names, "none" in v1.0, and the members it has.    *)
(***************************************************************************)
EXTENDS Naturals, Sequences

CONSTANTS Parts,      \* the parts of the messages v0.3 clients send
          V1Parts,    \* and of those v1.0 clients send
          MaxEvents   \* bound: events of one stream

ASSUME EventsAssumption == MaxEvents \in Nat \ {0}

\* A part of a kind that v0.3 has names no members that the kind has not.
Members(kind) ==
  CASE kind = "text" -> {"text", "metadata"}
    [] kind = "file" -> {"uri", "bytes", "mimeType", "name", "metadata"}
    [] kind = "data" -> {"data", "metadata"}

ASSUME PartsAssumption ==
  \A p \in Parts :
    /\ p = [kind |-> p.kind, members |-> p.members]
    /\ p.kind \in {"text", "file", "data"} => p.members \subseteq Members(p.kind)

V03Methods == {"message/send", "message/stream", "tasks/resubscribe", "tasks/list"}
V1Methods == {"SendMessage", "SendStreamingMessage", "SubscribeToTask"}
Messages ==
  [kind : {TRUE}, role : {"user"}, part : Parts]
    \union [kind : {FALSE}, role : {"ROLE_USER"}, part : V1Parts]

Requests ==
  {q \in [post : BOOLEAN, header : BOOLEAN, body : {"json", "null", "unparsable"},
          method : V03Methods \union V1Methods, message : Messages] :
     q.message.kind = (q.method \in V03Methods)}

VARIABLES
  request,      \* what the client sends
  pc,           \* "arrived", "inner" while the v1.0 handler runs, "answered"
  forwarded,    \* the method and the message the handler gets
  translating,  \* the answer is collected and translated
  sent,         \* the handler's results so far, in order
  buffer,       \* the response in memory: a sequence of lines
  wire,         \* lines on their way to the client
  ended,        \* how the response ended: "no", "yes" or "broken"
  line,         \* the client's reader: the data of the frame it is in
  got,          \* results the client has read
  over          \* "open", "complete" or "lost"

server == <<request, pc, forwarded, translating, sent, buffer, ended>>
client == <<line, got, over>>
vars == <<server, wire, client>>

-----------------------------------------------------------------------------
(* The translator.                                                         *)

MethodToV1(m) ==
  CASE m = "message/send"      -> "SendMessage"
    [] m = "message/stream"    -> "SendStreamingMessage"
    [] m = "tasks/resubscribe" -> "SubscribeToTask"
    [] OTHER                   -> m

Named == {<<"uri", "url">>, <<"bytes", "raw">>, <<"mimeType", "mediaType">>, <<"name", "filename">>}
Metadata(p) == p.members \intersect {"metadata"}

FileToV1IgnoresBytes(members) == {x[2] : x \in {y \in Named : y[1] \in members \ {"bytes"}}}

FileToV1(members) == {x[2] : x \in {y \in Named : y[1] \in members}}
FileToV03(members) == {x[1] : x \in {y \in Named : y[2] \in members}}

PartToV1(p) ==
  [kind |-> "none",
   members |-> Metadata(p) \union
     CASE p.kind = "text" -> p.members \intersect {"text"}
       [] p.kind = "file" -> FileToV1(p.members)
       [] p.kind = "data" -> p.members \intersect {"data"}
       [] OTHER           -> p.members]

PartToV03(p) ==
  CASE "text" \in p.members ->
         [kind |-> "text", members |-> {"text"} \union Metadata(p)]
    [] "text" \notin p.members /\ p.members \intersect {"url", "raw"} # {} ->
         [kind |-> "file", members |-> FileToV03(p.members) \union Metadata(p)]
    [] p.members \intersect {"text", "url", "raw"} = {} /\ "data" \in p.members ->
         [kind |-> "data", members |-> {"data"} \union Metadata(p)]
    [] OTHER -> p

MessageToV1(m) == [kind |-> FALSE, role |-> "ROLE_USER", part |-> PartToV1(m.part)]

\* A message of a task's history: its kind is named again.
MessageToV03(m) == [kind |-> TRUE, role |-> "user", part |-> PartToV03(m.part)]

\* A result that is not an error is a task, which quotes the client's message.
ResultToV03(r) ==
  IF r.error THEN r ELSE [r EXCEPT !.dialect = "0.3", !.quotes = MessageToV03(@)]

\* A line of an event's data, a blank line, or a whole JSON document.
Data(r) == [type |-> "data", result |-> r]
Blank == [type |-> "blank"]
Document(r) == [type |-> "json", result |-> r]

\* Every line is written with a line feed, also the empty one after the last.
TranslateSseContent(lines) ==
  Append([i \in DOMAIN lines |->
            IF lines[i].type = "data" THEN Data(ResultToV03(lines[i].result)) ELSE lines[i]],
         Blank)

\* Lines of events are no JSON: they come back as they are.
TranslateJsonResponse(lines) ==
  [i \in DOMAIN lines |->
     IF lines[i].type = "json" THEN Document(ResultToV03(lines[i].result)) ELSE lines[i]]

-----------------------------------------------------------------------------
(* The middleware.                                                         *)

NoMessage == [kind |-> FALSE, role |-> "none", part |-> [kind |-> "none", members |-> {}]]
NoLine == [n |-> 0]

Init ==
  /\ request \in Requests
  /\ pc = "arrived"
  /\ forwarded = [method |-> "none", message |-> NoMessage]
  /\ translating = FALSE
  /\ sent = <<>> /\ buffer = <<>> /\ wire = <<>>
  /\ ended = "no"
  /\ line = NoLine /\ got = <<>> /\ over = "open"

IsV03Method(m) == m \in V03Methods

Intercepts(q) == q.post /\ ~q.header /\ q.body = "json" /\ IsV03Method(q.method)

InvokeNext ==
  /\ pc = "arrived" /\ ~Intercepts(request)
  /\ forwarded' = [method |-> request.method, message |-> request.message]
  /\ pc' = "inner"
  /\ UNCHANGED <<request, translating, sent, buffer, ended, wire, client>>

InvokeTranslated ==
  /\ pc = "arrived" /\ Intercepts(request)
  /\ forwarded' = [method |-> MethodToV1(request.method),
                   message |-> MessageToV1(request.message)]
  /\ translating' = TRUE
  /\ pc' = "inner"
  /\ UNCHANGED <<request, sent, buffer, ended, wire, client>>

IsStreamingNever(method) == method = "message/streaming"
IsStreaming(method) == method = "message/stream"

(* The v1.0 handler, which is the A2A library: it answers a stream with    *)
(* events, and everything else, and what it refuses, with one document.    *)
Streams == request.post /\ request.body = "json"
             /\ forwarded.method \in {"SendStreamingMessage", "SubscribeToTask"}

Result(error) ==
  [n |-> Len(sent) + 1, error |-> error, dialect |-> IF error THEN "any" ELSE "1.0",
   quotes |-> IF error THEN NoMessage ELSE forwarded.message]

WriteUnbuffered(lines) == wire' = wire \o lines /\ UNCHANGED buffer

\* The response body is the memory buffer while the middleware translates.
Write(lines) ==
  IF translating THEN buffer' = buffer \o lines /\ UNCHANGED wire
                 ELSE wire' = wire \o lines /\ UNCHANGED buffer

HandlerEmits ==
  /\ pc = "inner" /\ Streams
  /\ Len(sent) < MaxEvents
  /\ \A i \in DOMAIN sent : ~sent[i].error
  /\ sent' = Append(sent, Result(FALSE))
  /\ Write(<<Data(Result(FALSE)), Blank>>)
  /\ UNCHANGED <<request, pc, forwarded, translating, ended, client>>

HandlerAnswers ==
  /\ pc = "inner" /\ sent = <<>>
  /\ \E error \in BOOLEAN :
       /\ ~error => forwarded.method = "SendMessage" /\ request.post /\ request.body = "json"
       /\ sent' = <<Result(error)>>
       /\ Write(<<Document(Result(error))>>)
  /\ UNCHANGED <<request, pc, forwarded, translating, ended, client>>

HasEvents == \E i \in DOMAIN buffer : buffer[i].type = "data"

\* The handler is done; only now is anything collected sent.
HandlerReturns ==
  /\ pc = "inner" /\ (Streams \/ sent # <<>>)
  /\ pc' = "answered" /\ ended' = "yes"
  /\ wire' = IF ~translating THEN wire
             ELSE IF IsStreaming(request.method) /\ HasEvents
                  THEN TranslateSseContent(buffer)
                  ELSE TranslateJsonResponse(buffer)
  /\ buffer' = <<>>
  /\ UNCHANGED <<request, forwarded, translating, sent, client>>

\* An exception of the handler takes the collected answer with it.
HandlerThrows ==
  /\ pc = "inner"
  /\ pc' = "answered" /\ ended' = "broken"
  /\ buffer' = <<>>
  /\ UNCHANGED <<request, forwarded, translating, sent, wire, client>>

-----------------------------------------------------------------------------
(* The client's reader: a frame ends at a blank line, and one without data *)
(* is no event.  The handler ends every frame, so that nothing is left of  *)
(* the text at the end.                                                    *)

ReadLineAgain ==
  /\ line' = IF Head(wire).type = "data" THEN Head(wire).result ELSE line
  /\ got' = CASE Head(wire).type = "blank" /\ line # NoLine -> Append(got, line)
              [] Head(wire).type = "json"                   -> Append(got, Head(wire).result)
              [] OTHER                                      -> got

ReadLine ==
  /\ line' = IF Head(wire).type = "data" THEN Head(wire).result ELSE NoLine
  /\ got' = CASE Head(wire).type = "blank" /\ line # NoLine -> Append(got, line)
              [] Head(wire).type = "json"                   -> Append(got, Head(wire).result)
              [] OTHER                                      -> got

ClientReads ==
  /\ over = "open" /\ wire # <<>>
  /\ ReadLine
  /\ wire' = Tail(wire)
  /\ UNCHANGED <<server, over>>

ClientEnds ==
  /\ over = "open" /\ wire = <<>> /\ ended # "no"
  /\ over' = IF ended = "yes" THEN "complete" ELSE "lost"
  /\ UNCHANGED <<server, wire, line, got>>

-----------------------------------------------------------------------------
Handler == HandlerEmits \/ HandlerAnswers \/ HandlerReturns \/ HandlerThrows
Next == InvokeNext \/ InvokeTranslated \/ Handler \/ ClientReads \/ ClientEnds

\* The middleware and the reader go on; the handler's streams end, since a run
\* of an agent does.
Fairness == WF_vars(Next)
Spec == Init /\ [][Next]_vars /\ Fairness

-----------------------------------------------------------------------------
(* Of the translation nothing reaches the client before the handler is     *)
(* done, and nothing stays in memory after.                                *)
TypeOK ==
  /\ request \in Requests
  /\ pc \in {"arrived", "inner", "answered"} /\ ended \in {"no", "yes", "broken"}
  /\ translating \in BOOLEAN
  /\ pc = "inner" /\ translating => wire = <<>> /\ got = <<>>
  /\ pc = "answered" => buffer = <<>>
  /\ Len(got) <= Len(sent) /\ Len(sent) <= MaxEvents
  /\ over \in {"open", "complete", "lost"}

(* A client is answered in the dialect it asked in: v0.3 for a v0.3 method *)
(* without the version header, v1.0 otherwise.  The exception is a v0.3    *)
(* resubscription, whose stream comes back untranslated.                   *)
ClientDialect ==
  \A i \in DOMAIN got :
    got[i].error \/ got[i].dialect =
      IF Intercepts(request) /\ request.method # "tasks/resubscribe" THEN "0.3" ELSE "1.0"

HasContent(p) ==
  \/ p.kind = "text" /\ "text" \in p.members
  \/ p.kind = "file" /\ p.members \intersect {"uri", "bytes"} # {}
  \/ p.kind = "data" /\ "data" \in p.members

(* A client finds its own message in the history of the task it started,   *)
(* member for member: what the request's translation renames, the answer's *)
(* translation names back.  It is true of the parts v0.3 has, when they    *)
(* hold anything.                                                          *)
OwnMessageComesBack ==
  \A i \in DOMAIN got :
    \/ got[i].error \/ request.method = "tasks/resubscribe"
    \/ request.message.kind /\ ~HasContent(request.message.part)
    \/ got[i].quotes = request.message

(* The middleware with the client behind it is a relay: the results arrive *)
(* in order, each once, and in the end all of them, or the client sees the *)
(* stream break.  The extra blank line of the translation is no event.     *)
Relay == INSTANCE EventRelay WITH
           sent <- Len(sent), got <- [i \in DOMAIN got |-> got[i].n], over <- over
RelaysEvents == Relay!RelaySpec
=============================================================================
