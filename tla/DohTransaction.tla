--------------------------- MODULE DohTransaction ---------------------------
(***************************************************************************)
(* One DNS-over-HTTPS request.  Over TCP it is handle_http_request in      *)
(* src/src/proxy/http.rs and forward_http_request in upstream/http.rs;     *)
(* over QUIC it is handle_request in src/src/readers/doh3.rs and           *)
(* forward_http3_request in upstream/quic.rs.  The two do the same with    *)
(* different timers, cancellation and errors.                              *)
(*                                                                         *)
(* Of a request the model keeps what is wrong with it, of a body its size, *)
(* in units of which Limit are the most that a DNS message has and one is  *)
(* enough for one.  An error of the H3 listener is its type and which of   *)
(* the phrases are in its text that send_error_response looks for.  Such   *)
(* a text may quote the URI of the request, or its host, and so the client.*)
(*                                                                         *)
(* hyper, h3 and the client's and upstream's connections are external.  Of *)
(* hyper the model uses that it may drop a request at any await.           *)
(***************************************************************************)
EXTENDS Timeouts, Sequences

CONSTANT Limit   \* MAX_DNS_MESSAGE_SIZE, in units

ASSUME DohAssumption == Limit \in Nat \ {0}

VARIABLES
    protocol,      \* the listener: doh is over TCP and h3 over QUIC; dot and doq
                   \* have no HTTP request
    request,       \* its method, what is wrong with it, the phrases in its names
    upload,        \* units of the body the client sent
    uploadEnd,     \* open; fin; broken
    kept,          \* units that were collected
    step,          \* where the handler waits
    since,         \* ticks since that await began
    head,          \* of the upstream's response: none; dns; page: successful, but
                   \* no DNS message; other: not successful
    download,      \* units of its body the upstream sent
    downloadEnd,   \* open; fin; broken, also before the head
    got,           \* units that were collected
    listens,       \* the client takes a response
    pending,       \* the status send_error_response has chosen
    status,        \* the status the client was sent; 0: none
    counted        \* what was recorded in the metrics

dohVars == <<protocol, request, upload, uploadEnd, kept, step, since, head, download,
             downloadEnd, got, listens, pending, status, counted>>

clientVars == <<request, upload, uploadEnd, listens>>
upstreamVars == <<head, download, downloadEnd>>

\* What is looked at before the body, in this order: the status of the DoH
\* listener, the phrases in the error of the H3 listener, and those that what it
\* quotes may have: the URI, or the name of the host, which is in lower case.
\* The phrases are those of 404, 405, 415 and 413.
Check(flaw, plain, phrases, quotes) ==
    [flaw |-> flaw, plain |-> plain, phrases |-> phrases, quotes |-> quotes]

Checks == <<
    Check("path",    404, {404}, {}),
    Check("no host", 400, {},    {413, 415}),
    Check("host",    400, {},    {}),   \* it is not the TLS SNI
    Check("method",  405, {405}, {}),
    Check("query",   400, {},    {}),   \* GET: no dns parameter, or not base64url
    Check("size",    400, {413}, {}),   \* GET: not the size of a message
    Check("type",    415, {415}, {}),   \* POST
    Check("name",    400, {},    {413})>>  \* no base domain matches

\* A request has one method, and one Host or none.
FlawsOf(method) ==
    LET common == {"path", "no host", "host", "name"}
        own == CASE method = "GET" -> {"query", "size"}
                 [] method = "POST" -> {"type"}
                 [] OTHER -> {"method"}
    IN  {flaws \in SUBSET (common \cup own) :
            /\ ~({"no host", "host"} \subseteq flaws)
            /\ ~({"query", "size"} \subseteq flaws)
            /\ method = "other" => "method" \in flaws}

Requests == UNION {[method : {method}, flaws : FlawsOf(method), echo : SUBSET {413, 415}] :
                      method \in {"GET", "POST", "other"}}

HasBody == request.method = "POST"
InRequest == step # "done"

\* get_client of the DoH listener is not an await: it has no timer and nothing can
\* cancel it.  It need not return (HttpClientPool, EvictionEnds).
InGetClient == protocol = "doh" /\ step = "session"

\* resolve_request, the wait for a permit and send_error_response have no timer.
Timed == step \notin {"headers", "refuse", "done"} /\ ~InGetClient

\* Nothing has been done yet.
DohFresh ==
    /\ upload = 0 /\ uploadEnd = "open" /\ kept = 0
    /\ since = 0
    /\ head = "none" /\ download = 0 /\ downloadEnd = "open" /\ got = 0
    /\ listens = TRUE
    /\ pending = 0 /\ status = 0
    /\ counted = "nothing"

DohInit ==
    /\ protocol \in {"doh", "h3"}
    /\ request \in Requests
    /\ step = "headers"
    /\ DohFresh

-----------------------------------------------------------------------------
\* The client and the upstream: what they do when nobody looks any more is left out.

Uploads ==
    /\ step \in {"headers", "body"} /\ HasBody /\ listens
    /\ uploadEnd = "open"
    /\ \/ upload <= Limit /\ upload' = upload + 1 /\ UNCHANGED uploadEnd
       \/ uploadEnd' \in {"fin", "broken"} /\ UNCHANGED upload
    /\ UNCHANGED <<protocol, request, kept, step, since, upstreamVars, got, listens,
                   pending, status, counted>>

\* The client resets the stream or the connection is lost.
ClientLeaves ==
    /\ InRequest /\ listens
    /\ listens' = FALSE
    /\ uploadEnd' = IF uploadEnd = "open" /\ step \in {"headers", "body"}
                    THEN "broken" ELSE uploadEnd
    /\ UNCHANGED <<protocol, request, upload, kept, step, since, upstreamVars, got,
                   pending, status, counted>>

Answers ==
    /\ step \in {"head", "collect"}
    /\ downloadEnd = "open"
    /\ IF head = "none"
       THEN \/ head' \in {"dns", "page", "other"} /\ UNCHANGED <<download, downloadEnd>>
            \/ downloadEnd' = "broken" /\ UNCHANGED <<head, download>>
       ELSE \/ download <= Limit /\ download' = download + 1
               /\ UNCHANGED <<head, downloadEnd>>
            \/ downloadEnd' \in {"fin", "broken"} /\ UNCHANGED <<head, download>>
    /\ UNCHANGED <<protocol, clientVars, kept, step, since, got, pending, status, counted>>

-----------------------------------------------------------------------------
\* The two ways out

\* The next await, with a new timer.
StepTo(next) == step' = next /\ since' = 0

\* send_error_response: the first phrase that is in the text, and then the type.
H3Status(type, phrases) ==
    IF 404 \in phrases THEN 404
    ELSE IF 405 \in phrases THEN 405
    ELSE IF 415 \in phrases THEN 415
    ELSE IF 413 \in phrases THEN 413
    ELSE CASE type = "timeout" -> 504
           [] type = "upstream" -> 502
           [] OTHER -> 400

\* The request ends in an error: DoH returns a response with its status, H3 has
\* one to send.
Rejects(plain, type, phrases) ==
    IF protocol = "doh"
    THEN StepTo("done") /\ status' = plain /\ UNCHANGED pending
    ELSE StepTo("refuse") /\ pending' = H3Status(type, phrases) /\ UNCHANGED status

\* forward_http_request or forward_http3_request is over.  The latter's error,
\* whatever its type, becomes an Upstream error that quotes it.
ForwardFails(plain, phrases) ==
    /\ counted' = "failure"
    /\ Rejects(plain, "upstream", phrases \cup request.echo)

\* The response of the upstream is that of the listener, which H3 has to send.
Forwarded(code) ==
    /\ counted' = IF code = 200 THEN "success" ELSE "failure"
    /\ IF protocol = "doh"
       THEN StepTo("done") /\ status' = code /\ UNCHANGED pending
       ELSE StepTo("reply head") /\ UNCHANGED <<pending, status>>

\* A status of the upstream that is not a success is passed on, with its body.
\* 503 stands for all of them: the listeners never send it themselves.
UpstreamStatus == IF head = "other" THEN 503 ELSE 200

-----------------------------------------------------------------------------
\* The request

\* Where a faultless request goes from its head.
AfterHead == IF HasBody THEN "body" ELSE "session"

\* The head is there: it is looked at.  Only a POST has a body to be collected.
Begins ==
    /\ step = "headers"
    /\ \/ /\ request.flaws = {}
          /\ StepTo(AfterHead)
          /\ UNCHANGED <<pending, status>>
       \/ \E i \in DOMAIN Checks :
             /\ Checks[i].flaw \in request.flaws
             /\ \A j \in 1..(i - 1) : Checks[j].flaw \notin request.flaws
             /\ Rejects(Checks[i].plain, "client",
                        Checks[i].phrases \cup (request.echo \cap Checks[i].quotes))
    /\ UNCHANGED <<protocol, clientVars, kept, upstreamVars, got, counted>>

\* H3: resolve_request fails, and there is no stream to answer on.
HeadersFail ==
    /\ step = "headers" /\ protocol = "h3"
    /\ ~listens \/ uploadEnd = "broken"
    /\ StepTo("done")
    /\ UNCHANGED <<protocol, clientVars, kept, upstreamVars, got, pending, status, counted>>

BodyUnit ==
    /\ step = "body"
    /\ kept < upload
    /\ IF kept = Limit
       THEN Rejects(413, "client", {413}) /\ UNCHANGED kept
       ELSE kept' = kept + 1 /\ StepTo(step) /\ UNCHANGED <<pending, status>>
    /\ UNCHANGED <<protocol, clientVars, upstreamVars, got, counted>>

\* Mutant: a body that broke off is taken for all of it.
BodyEnds_OrBreaks ==
    /\ step = "body"
    /\ kept = upload /\ uploadEnd # "open"
    /\ IF kept = 0
       THEN Rejects(400, "client", {413})
       ELSE StepTo("session") /\ UNCHANGED <<pending, status>>
    /\ UNCHANGED <<protocol, clientVars, kept, upstreamVars, got, counted>>

\* validate_dns_message: only what is shorter than a header is left to refuse.
BodyEnds ==
    /\ step = "body"
    /\ kept = upload /\ uploadEnd = "fin"
    /\ IF kept = 0
       THEN Rejects(400, "client", {413})
       ELSE StepTo("session") /\ UNCHANGED <<pending, status>>
    /\ UNCHANGED <<protocol, clientVars, kept, upstreamVars, got, counted>>

BodyFails ==
    /\ step = "body"
    /\ uploadEnd = "broken"
    /\ Rejects(400, "client", {})
    /\ UNCHANGED <<protocol, clientVars, kept, upstreamVars, got, counted>>

-----------------------------------------------------------------------------
\* The upstream

\* A client of the pool, or a session of it.  DoH connects and sends the request
\* in one future, which ends with the head of the response.
SessionOpens ==
    /\ step = "session"
    /\ StepTo(IF protocol = "doh" THEN "head" ELSE "send")
    /\ UNCHANGED <<protocol, clientVars, kept, upstreamVars, got, pending, status, counted>>

\* H3: send_request, then send_data if there is a body, then finish.
Sends ==
    /\ step \in {"send", "send data", "send end"}
    /\ StepTo(CASE step = "send" -> IF HasBody THEN "send data" ELSE "send end"
                [] step = "send data" -> "send end"
                [] OTHER -> "head")
    /\ UNCHANGED <<protocol, clientVars, kept, upstreamVars, got, pending, status, counted>>

\* No session or client, or the request cannot be sent.  The texts of h3 are
\* taken to have none of the phrases.
SendFails ==
    /\ step \in {"session", "send", "send data", "send end"}
    /\ ForwardFails(502, {})
    /\ UNCHANGED <<protocol, clientVars, kept, upstreamVars, got>>

HeadArrives ==
    /\ step = "head"
    /\ head # "none"
    /\ StepTo("collect")
    /\ UNCHANGED <<protocol, clientVars, kept, upstreamVars, got, pending, status, counted>>

\* DoH makes a response of it, which is then passed on.
HeadFails ==
    /\ step = "head"
    /\ head = "none" /\ downloadEnd = "broken"
    /\ ForwardFails(502, {})
    /\ UNCHANGED <<protocol, clientVars, kept, upstreamVars, got>>

AnswerUnit ==
    /\ step = "collect"
    /\ got < download
    /\ IF got = Limit
       THEN ForwardFails(502, {413}) /\ UNCHANGED got
       ELSE got' = got + 1 /\ StepTo(step) /\ UNCHANGED <<pending, status, counted>>
    /\ UNCHANGED <<protocol, clientVars, kept, upstreamVars>>

\* A successful response is one DNS message; others are not looked at.
AnswerIsWhole ==
    /\ step = "collect"
    /\ got = download /\ downloadEnd = "fin"
    /\ IF head = "page" THEN ForwardFails(502, {})
       ELSE IF head = "dns" /\ got = 0 THEN ForwardFails(502, {413})
       ELSE Forwarded(UpstreamStatus)
    /\ UNCHANGED <<protocol, clientVars, kept, upstreamVars, got>>

AnswerFails ==
    /\ step = "collect"
    /\ downloadEnd = "broken"
    /\ ForwardFails(502, {})
    /\ UNCHANGED <<protocol, clientVars, kept, upstreamVars, got>>

-----------------------------------------------------------------------------
\* The response of the H3 listener

\* send_response, send_data and finish
Replies ==
    /\ step \in {"reply head", "reply data", "reply end"} /\ listens
    /\ StepTo(CASE step = "reply head" -> "reply data"
                [] step = "reply data" -> "reply end"
                [] OTHER -> "done")
    /\ status' = IF step = "reply head" THEN UpstreamStatus ELSE status
    /\ UNCHANGED <<protocol, clientVars, kept, upstreamVars, got, pending, counted>>

\* Mutant: what became of the answer is counted, too.
ReplyFails_CountsAgain ==
    /\ step \in {"reply head", "reply data", "reply end"} /\ ~listens
    /\ Rejects(400, "client", {})
    /\ counted' = "failure"
    /\ UNCHANGED <<protocol, clientVars, kept, upstreamVars, got>>

ReplyFails ==
    /\ step \in {"reply head", "reply data", "reply end"} /\ ~listens
    /\ Rejects(400, "client", {})
    /\ UNCHANGED <<protocol, clientVars, kept, upstreamVars, got, counted>>

\* send_error_response, also where a response was begun: the status of the client
\* is that of the first head.
Refuses ==
    /\ step = "refuse" /\ listens
    /\ StepTo("done")
    /\ status' = IF status = 0 THEN pending ELSE status
    /\ UNCHANGED <<protocol, clientVars, kept, upstreamVars, got, pending, counted>>

RefusalFails ==
    /\ step = "refuse" /\ ~listens
    /\ StepTo("done")
    /\ UNCHANGED <<protocol, clientVars, kept, upstreamVars, got, pending, status, counted>>

-----------------------------------------------------------------------------
\* Time

\* There is something for the await to return.
Due ==
    \/ step = "body" /\ (kept < upload \/ uploadEnd # "open")
    \/ step = "head" /\ (head # "none" \/ downloadEnd # "open")
    \/ step = "collect" /\ (got < download \/ downloadEnd # "open")

\* Mutant: a client that is slow is taken for a slow upstream in DoH, too.
DohTimesOut_OneKind ==
    /\ Timed /\ since = IdleTimeout /\ ~Due
    /\ IF step \in {"body", "reply head", "reply data", "reply end"}
       THEN Rejects(504, "timeout", {}) /\ UNCHANGED counted
       ELSE ForwardFails(504, {})
    /\ UNCHANGED <<protocol, clientVars, kept, upstreamVars, got>>

\* Mutant: the timer is around the request, and not around the body of the answer.
DohTimesOut_NotInTheAnswer ==
    /\ Timed /\ since = IdleTimeout /\ ~Due /\ step # "collect"
    /\ IF step \in {"body", "reply head", "reply data", "reply end"}
       THEN Rejects(408, "timeout", {}) /\ UNCHANGED counted
       ELSE ForwardFails(504, {})
    /\ UNCHANGED <<protocol, clientVars, kept, upstreamVars, got>>

\* timeout polls what it waits for first.
DohTimesOut ==
    /\ Timed /\ since = IdleTimeout /\ ~Due
    /\ IF step \in {"body", "reply head", "reply data", "reply end"}
       THEN Rejects(408, "timeout", {}) /\ UNCHANGED counted
       ELSE ForwardFails(504, {})
    /\ UNCHANGED <<protocol, clientVars, kept, upstreamVars, got>>

DohTick ==
    /\ Timed /\ since < IdleTimeout
    /\ since' = since + 1
    /\ UNCHANGED <<protocol, clientVars, kept, step, upstreamVars, got, pending, status,
                   counted>>

\* Mutant: all of handle_request is in the select!.
DohCancelled_Anywhere ==
    /\ InRequest
    /\ StepTo("done")
    /\ UNCHANGED <<protocol, clientVars, kept, upstreamVars, got, pending, status, counted>>

\* hyper drops the request with its connection, at any await; H3 looks for the
\* cancellation until there is a response.
DohCancelled ==
    /\ InRequest /\ ~InGetClient
    /\ protocol = "h3" => step \in {"headers", "body", "session", "send", "send data",
                                   "send end", "head", "collect"}
    /\ StepTo("done")
    /\ UNCHANGED <<protocol, clientVars, kept, upstreamVars, got, pending, status, counted>>

-----------------------------------------------------------------------------
DohEnds == Uploads \/ ClientLeaves \/ Answers

DohReads ==
    \/ BodyUnit \/ BodyEnds \/ BodyFails
    \/ HeadArrives \/ HeadFails
    \/ AnswerUnit \/ AnswerIsWhole \/ AnswerFails

DohWrites ==
    \/ Begins \/ HeadersFail
    \/ SessionOpens \/ Sends \/ SendFails
    \/ Replies \/ ReplyFails
    \/ Refuses \/ RefusalFails

DohNext == DohEnds \/ DohReads \/ DohWrites \/ DohTimesOut \/ DohCancelled \/ DohTick

\* Time goes on, a timer that elapsed is served, and what can be read is read.  That
\* get_client returns is not assumed.
DohFairness ==
    /\ WF_dohVars(DohTick)
    /\ WF_dohVars(DohTimesOut)
    /\ WF_dohVars(DohReads)

-----------------------------------------------------------------------------
Steps == {"headers", "body", "session", "send", "send data", "send end", "head",
          "collect", "reply head", "reply data", "reply end", "refuse", "done"}

\* The awaits of forward_http_request and forward_http3_request.
Forwarding == {"session", "send", "send data", "send end", "head", "collect"}

\* Every variable has its type.
DohTypeOK ==
    /\ protocol \in {"dot", "doq", "doh", "h3"}
    /\ request \in Requests
    /\ upload \in 0..(Limit + 1)
    /\ uploadEnd \in {"open", "fin", "broken"}
    /\ kept \in 0..Limit
    /\ step \in Steps
    /\ since \in 0..IdleTimeout
    /\ head \in {"none", "dns", "page", "other"}
    /\ download \in 0..(Limit + 1)
    /\ downloadEnd \in {"open", "fin", "broken"}
    /\ got \in 0..Limit
    /\ listens \in BOOLEAN
    /\ pending \in {0, 400, 404, 405, 413, 415, 502, 504}
    /\ status \in {0, 200, 400, 404, 405, 408, 413, 415, 502, 503, 504}
    /\ counted \in {"nothing", "success", "failure"}

\* What there was to be had, whatever the handler made of it.
ClientFault ==
    request.flaws # {} \/ (HasBody /\ ~(uploadEnd = "fin" /\ upload \in 1..Limit))

UpstreamFault ==
    ~(head \in {"dns", "other"} /\ downloadEnd = "fin"
      /\ download <= Limit /\ (head = "dns" => download > 0))

\* The status tells who is at fault.  That of DoH always does; the 413 and 415 of H3
\* may come from an upstream error whose text has the phrase, and its 504 never
\* means the upstream, whose timeouts are 502.
BlameIsRight ==
    /\ status \in {400, 404, 405, 408} => ClientFault
    /\ status = 502 => UpstreamFault /\ ~ClientFault
    /\ protocol = "doh" =>
          /\ status \in {413, 415} => ClientFault
          /\ status = 504 => UpstreamFault /\ ~ClientFault
    /\ protocol = "h3" =>
          /\ status \in {413, 415} => ClientFault \/ counted = "failure"
          /\ status = 504 => ClientFault \/ ~UpstreamFault

\* Only a whole, faultless request goes upstream and into the metrics.  It counts
\* as a success exactly if the answer is a whole DNS message, and only that is
\* sent as a success.
OnlyAnswersCount ==
    /\ step \notin {"headers", "body", "refuse", "done"} \/ counted # "nothing" =>
          ~ClientFault /\ (HasBody => kept = upload)
    /\ counted = "success" =>
          ~UpstreamFault /\ head = "dns" /\ got = download
    /\ status = 200 => counted = "success"
    /\ status = 503 => head = "other" /\ counted = "failure"
=============================================================================
