----------------------------- MODULE HttpParser -----------------------------
(***************************************************************************)
(* HttpParser (HttpParser.cpp) and HttpServer::onMessage, for one          *)
(* connection.  The peer sends requests; TCP hands their bytes to          *)
(* onMessage in messages of its own making; each is given to the parser,   *)
(* whose process() answers every request it can complete and says whether  *)
(* the connection is kept.                                                 *)
(*                                                                         *)
(* Data: a line is its text, CR and LF, and the text one symbol: a request *)
(* line ("GET", "GET404" of a file that is not there, "GET500" of one that *)
(* cannot be read, "HEAD", "POST", "PUT" for a method that is not known),  *)
(* a header ("keep" for Connection: keep-alive, "length" for               *)
(* Content-Length: BodyLength, "other").  A body is BodyLength times "x".  *)
(***************************************************************************)
EXTENDS Integers, Sequences, FiniteSets, FiniteSetsExt, SequencesExt

CONSTANTS
    Methods,        \* the request lines that the peer uses
    BodyLength,     \* bytes of a body
    Fragments,      \* whether a message may end within a request
    MaxRequests     \* bound: requests sent

ASSUME HttpParserAssumption ==
    /\ Methods \subseteq {"GET", "GET404", "GET500", "HEAD", "POST", "PUT"}
    /\ BodyLength \in Nat \ {0}
    /\ Fragments \in BOOLEAN
    /\ MaxRequests \in Nat

VARIABLES
    p,              \* the parser's fields
    stream,         \* bytes sent by the peer and not yet received
    requests,       \* history: the requests sent
    received,       \* history: how many bytes were received
    answers,        \* history: the responses sent
    shut            \* shutdown() was called

vars == <<p, stream, requests, received, answers, shut>>

Request == [method : Methods, keep : BOOLEAN, body : BOOLEAN]

Line(text) == <<text, "CR", "LF">>

\* A request as the peer writes it.
Written(r) ==
    Line(r.method)
    \o (IF r.keep THEN Line("keep") ELSE Line("other"))
    \o (IF r.body THEN Line("length") ELSE <<>>)
    \o <<"CR", "LF">>
    \o (IF r.body THEN [i \in 1..BodyLength |-> "x"] ELSE <<>>)

NewParser ==
    [input |-> <<>>, pos |-> 0, checkState |-> "RequestLine",
     connecting |-> FALSE, contentLength |-> 0, method |-> "none",
     hung |-> FALSE]

\* Type correctness; the position stays within the input.
TypeOK ==
    /\ p.pos \in 0..Len(p.input)
    /\ p.checkState \in {"RequestLine", "Header", "Content"}
    /\ p.connecting \in BOOLEAN
    /\ p.contentLength \in {0, BodyLength}
    /\ requests \in Seq(Request)
    /\ shut \in BOOLEAN

Init ==
    /\ p = NewParser
    /\ stream = <<>>
    /\ requests = <<>>
    /\ received = 0
    /\ answers = <<>>
    /\ shut = FALSE

-----------------------------------------------------------------------------
(* parseLine and the parts of a request                                    *)

\* parseLine(): the line that starts at q.pos, what became of it, and the
\* position after it.  A LF is first met where pos_ stands only when a body
\* ended between a CR and its LF, or when the input begins with it: then the
\* code looks at the byte before the input, which is never a CR.
ParseLine(q) ==
    LET ends == {i \in (q.pos + 1)..Len(q.input) : q.input[i] \in {"CR", "LF"}}
        i == CHOOSE j \in ends : \A k \in ends : j <= k
        afterCR == i > 1 /\ q.input[i - 1] = "CR"
    IN  CASE ends = {} -> [is |-> "Open", pos |-> Max({q.pos, Len(q.input)})]
          [] ends # {} /\ q.input[i] = "LF" /\ afterCR ->
                [is |-> "OK", pos |-> i, text |-> <<>>]
          [] ends # {} /\ q.input[i] = "LF" /\ ~afterCR ->
                [is |-> "Bad", pos |-> i - 1]
          [] ends # {} /\ q.input[i] = "CR" ->
                IF i = Len(q.input) THEN [is |-> "Open", pos |-> i - 1]
                ELSE IF q.input[i + 1] # "LF" THEN [is |-> "Bad", pos |-> i - 1]
                ELSE [is |-> "OK", pos |-> i + 1,
                      text |-> SubSeq(q.input, q.pos + 1, i - 1)]

\* parseRequestLine: a result and the parser after it.  Only GET, POST and
\* HEAD are known.
ParseRequestLine(q, text) ==
    IF Len(text) = 1 /\ text[1] \in {"GET", "GET404", "GET500", "HEAD", "POST"}
    THEN [ret |-> "NoRequest",
          q |-> [q EXCEPT !.method = text[1], !.checkState = "Header"]]
    ELSE [ret |-> "Invalid", q |-> q]

\* parseHeaders: the empty line ends them.
ParseHeaders(q, text) ==
    CASE text = <<>> /\ q.contentLength = 0 -> [ret |-> "GetRequest", q |-> q]
      [] text = <<>> /\ q.contentLength # 0 ->
            [ret |-> "NoRequest", q |-> [q EXCEPT !.checkState = "Content"]]
      [] text = <<"keep">> ->
            [ret |-> "NoRequest", q |-> [q EXCEPT !.connecting = TRUE]]
      [] text = <<"length">> ->
            [ret |-> "NoRequest", q |-> [q EXCEPT !.contentLength = BodyLength]]
      [] text = <<"other">> -> [ret |-> "NoRequest", q |-> q]
      [] OTHER -> [ret |-> "Invalid", q |-> q]

\* The body is complete when contentLength_ bytes are there.
ParseContent(q) ==
    IF Len(q.input) - q.pos >= q.contentLength
    THEN [ret |-> "GetRequest", q |-> [q EXCEPT !.pos = @ + q.contentLength]]
    ELSE [ret |-> "NoRequest", q |-> q]

\* getResource: what the file that the URI names turns out to be.
GetResource(q) ==
    CASE q.method = "GET404" -> "NotFound"
      [] q.method = "GET500" -> "InternalError"
      [] OTHER               -> "GetResource"

DoRequest(q) == IF q.method = "HEAD" THEN "OnlyHead" ELSE GetResource(q)

\* processRead(): lines are parsed until a request is complete, a line is
\* wrong or the input ends.  When a body is not complete, what there is of it
\* is scanned by parseLine all the same.
RECURSIVE ProcessRead(_)
ProcessRead(q) ==
    LET inBody == q.checkState = "Content"
        content == ParseContent(q)
        line == ParseLine(q)
        read == [q EXCEPT !.pos = line.pos]
        step == CASE q.checkState = "RequestLine" -> ParseRequestLine(read, line.text)
                  [] q.checkState = "Header" -> ParseHeaders(read, line.text)
                  [] inBody -> [ret |-> "NoRequest", q |-> read]
    IN  IF inBody /\ content.ret = "GetRequest"
        THEN [state |-> DoRequest(content.q), q |-> content.q]
        ELSE CASE line.is = "Open" -> [state |-> "NoRequest", q |-> read]
               [] line.is = "Bad" -> [state |-> "Invalid", q |-> read]
               [] line.is = "OK" ->
                    CASE step.ret = "NoRequest" -> ProcessRead(step.q)
                      [] step.ret = "Invalid" -> [state |-> "Invalid", q |-> step.q]
                      [] step.ret = "GetRequest" ->
                            [state |-> DoRequest(step.q), q |-> step.q]

-----------------------------------------------------------------------------
(* process()                                                               *)

\* processWrite(): the condition of line 225 is always true, so that every
\* response has a body.
Answer(state, keep) ==
    [status |-> CASE state \in {"GetResource", "OnlyHead"} -> 200
                  [] state = "NotFound" -> 404
                  [] state = "InternalError" -> 500
                  [] OTHER -> 400,
     body   |-> CASE state = "GetResource" -> "file"
                  [] state = "NotFound" -> "form404"
                  [] state = "InternalError" -> "form500"
                  [] OTHER -> "form400",
     keep   |-> keep]

\* Mutant: contentLength_ is not reset.
InitParser_KeepsLength(q) ==
    LET fresh == [q EXCEPT !.checkState = "RequestLine"]
    IN  IF q.pos = Len(q.input) THEN [fresh EXCEPT !.input = <<>>, !.pos = 0]
        ELSE fresh

\* Mutant: pos_ is not reset when the input is cleared.
InitParser_KeepsPos(q) ==
    LET fresh == [q EXCEPT !.checkState = "RequestLine", !.contentLength = 0]
    IN  IF q.pos = Len(q.input) THEN [fresh EXCEPT !.input = <<>>] ELSE fresh

\* Mutant: connecting_ is reset with the rest.
InitParser_ResetsConnecting(q) ==
    LET fresh == [q EXCEPT !.checkState = "RequestLine", !.contentLength = 0,
                           !.connecting = FALSE]
    IN  IF q.pos = Len(q.input) THEN [fresh EXCEPT !.input = <<>>, !.pos = 0]
        ELSE fresh

\* init(clear): neither connecting_ nor the request is reset.
InitParser(q) ==
    LET fresh == [q EXCEPT !.checkState = "RequestLine", !.contentLength = 0]
    IN  IF q.pos = Len(q.input) THEN [fresh EXCEPT !.input = <<>>, !.pos = 0]
        ELSE fresh

\* process(): the parser after it, the responses it sent and what it
\* returned.  A wrong line is not skipped, so on a kept connection the loop
\* meets it again and again: hung.
RECURSIVE Process(_, _)
Process(q, sent) ==
    LET r == ProcessRead(q)
        all == Append(sent, Answer(r.state, r.q.connecting))
        stuck == r.state = "Invalid" /\ ParseLine(r.q) = [is |-> "Bad", pos |-> r.q.pos]
    IN  CASE r.state = "NoRequest" ->
                [q |-> r.q, sent |-> sent, kept |-> r.q.connecting]
          [] r.state # "NoRequest" /\ ~r.q.connecting ->
                [q |-> r.q, sent |-> all, kept |-> FALSE]
          [] r.state # "NoRequest" /\ r.q.connecting /\ stuck ->
                [q |-> [InitParser(r.q) EXCEPT !.hung = TRUE],
                 sent |-> all, kept |-> TRUE]
          [] OTHER -> Process(InitParser(r.q), all)

-----------------------------------------------------------------------------
(* The connection                                                          *)

PeerSends(r) ==
    /\ Len(requests) < MaxRequests
    /\ requests' = Append(requests, r)
    /\ stream' = stream \o Written(r)
    /\ UNCHANGED <<p, received, answers, shut>>

\* A message of n bytes ends where a request ends.
AtBoundary(n) == n < Len(stream) => stream[n + 1] \in Methods

\* hasData() is true when there is none, so that what is left of the last
\* message is replaced by the new one.
NewInput(q, message) ==
    IF q.input = <<>> /\ q.pos = 0
    THEN [q EXCEPT !.input = @ \o message]
    ELSE [q EXCEPT !.input = message, !.pos = 0]

\* onMessage with the next n bytes.  It is called after shutdown() as well,
\* but then send() and shutdown() have no effect.
OnMessage(n) ==
    /\ ~p.hung
    /\ Fragments \/ AtBoundary(n)
    /\ LET done == Process(NewInput(p, SubSeq(stream, 1, n)), <<>>)
       IN  /\ p' = done.q
           /\ answers' = IF shut THEN answers ELSE answers \o done.sent
           /\ shut' = (shut \/ ~done.kept)
    /\ stream' = SubSeq(stream, n + 1, Len(stream))
    /\ received' = received + n
    /\ UNCHANGED requests

Next ==
    \/ \E r \in Request : PeerSends(r)
    \/ \E n \in 1..Len(stream) : OnMessage(n)

Spec == Init /\ [][Next]_vars

-----------------------------------------------------------------------------
(* Properties                                                              *)

Complete(k) == Len(FlattenSeq([i \in 1..k |-> Written(requests[i])])) <= received

\* Request k is answered: it has come in, and every request before it was
\* on a connection that is kept.
Answerable(k) ==
    Complete(k) /\ \A j \in 1..(k - 1) : \E i \in 1..j : requests[i].keep

\* Pipelined requests (README.md:24): every request of a known method that
\* comes in on a kept connection is answered by process(), once, in order
\* and according to its own request line, however many of them come in one
\* message and whatever bodies they carry.
AnsweredInOrder ==
    /\ Len(answers) =
          Cardinality({k \in 1..Len(requests) : Answerable(k)})
    /\ \A k \in DOMAIN answers :
          LET method == requests[k].method
          IN  CASE method = "GET404" ->
                      answers[k].status = 404 /\ answers[k].body = "form404"
                [] method = "GET500" ->
                      answers[k].status = 500 /\ answers[k].body = "form500"
                [] method = "HEAD" -> answers[k].status = 200
                [] OTHER -> answers[k].status = 200 /\ answers[k].body = "file"

\* The client is told what will happen: onMessage shuts the connection down
\* exactly when the last response said "Connection: close".
ShutAsAnnounced ==
    shut <=> answers # <<>> /\ ~Last(answers).keep

\* A request that is not complete needs more data
\* ("请求不完整，需要继续读数据", HttpParser.h:33): the connection is not shut
\* down before a request has been answered.
IncompleteIsContinued == shut => answers # <<>>
=============================================================================
