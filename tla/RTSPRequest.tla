---------------------------- MODULE RTSPRequest ----------------------------
(***************************************************************************)
(* RTSPRequest: the incremental parser behind                              *)
(* Connection::append_to_message().  A message is a sequence of symbols    *)
(* that stand for the pieces the parser can tell apart: "CR", "LF", "SP",  *)
(* ":", digits and words.  TCP may cut it anywhere, inside a line and      *)
(* between CR and LF included; every chunk is appended to message_buffer   *)
(* and parse_request() runs again from where it left off.  Header names    *)
(* are in lower case already.                                              *)
(***************************************************************************)
EXTENDS Integers, Sequences, FiniteSets, FiniteSetsExt, SequencesExt

CONSTANTS
    Symbols,    \* the pieces of a message
    Requests,   \* what clients send: records [line, headers, body]
    LineEnds    \* the line terminators clients use

ASSUME SymbolsAssumption == {"CR", "LF", "SP", ":", ","} \subseteq Symbols

\* A line of a client's request does not contain a line terminator.
Words == Symbols \ {"CR", "LF"}

ASSUME RequestsAssumption ==
    \A r \in Requests :
        /\ r.line \in Seq(Words) \ {<<>>}
        /\ r.headers \in Seq(Words \X Seq(Words))
        /\ r.body \in Seq(Symbols)

ASSUME LineEndsAssumption == LineEnds \subseteq {<<"CR", "LF">>, <<"CR">>, <<"LF">>}

VARIABLES
    sent,           \* the request the client sends and its line terminator
    wire,           \* symbols that have not arrived yet
    message_buffer, \* Connection::message_buffer
    request,        \* Connection::request: cursor, line, headers and body
    thrown,         \* an exception left parse_request(); serve() gives up
    chunks,         \* chunks received (history)
    cutHead         \* an earlier chunk held a line terminator (history)

vars == <<sent, wire, message_buffer, request, thrown, chunks, cutHead>>

PARSE_COMPLETE == -1

unique_headers == {"cseq", "content-length", "session", "timestamp", "content-type"}

Digits == <<"0", "1", "2", "3">>

(***************************************************************************)
(* parse_request()                                                         *)
(***************************************************************************)

\* Mutant: "\r\n" is not among the delimiters.
TerminatorSizeOfOneByte(m, p) == IF m[p + 1] \in {"CR", "LF"} THEN 1 ELSE 0

\* delimiters[]: "\r\n" is tried before "\r" and "\n".  Size of the line
\* terminator that starts at offset p of m, 0 when there is none.
TerminatorSize(m, p) ==
    IF p + 2 <= Len(m) /\ m[p + 1] = "CR" /\ m[p + 2] = "LF" THEN 2
    ELSE IF m[p + 1] \in {"CR", "LF"} THEN 1 ELSE 0

\* Mutant of Scan: the cursor is put behind a line that is not complete yet.
ScanToTheEnd(m, c) ==
    LET scan[k \in 0..Len(m)] ==
            LET ends == {p \in k..(Len(m) - 1) : TerminatorSize(m, p) > 0}
                next == Min(ends) + TerminatorSize(m, Min(ends))
            IN  CASE ends = {} -> [parts |-> <<>>, cursor |-> Len(m), header_end |-> 0]
                  [] k \in ends -> [parts |-> <<>>, cursor |-> k, header_end |-> next]
                  [] OTHER -> [scan[next] EXCEPT !.parts = <<SubSeq(m, k + 1, Min(ends))>> \o @]
    IN  scan[c]

\* The loop over the lines from offset c on: the lines, where the cursor
\* stops, and the offset behind the empty line (0 when there is none).
Scan(m, c) ==
    LET scan[k \in 0..Len(m)] ==
            LET ends == {p \in k..(Len(m) - 1) : TerminatorSize(m, p) > 0}
                next == Min(ends) + TerminatorSize(m, Min(ends))
            IN  CASE ends = {} -> [parts |-> <<>>, cursor |-> k, header_end |-> 0]
                  [] k \in ends -> [parts |-> <<>>, cursor |-> k, header_end |-> next]
                  [] OTHER -> [scan[next] EXCEPT !.parts = <<SubSeq(m, k + 1, Min(ends))>> \o @]
    IN  scan[c]

Spaces(part) == {i \in DOMAIN part : part[i] = "SP"}
Colons(part) == {i \in DOMAIN part : part[i] = ":" /\ i + 1 \in Spaces(part)}

\* set_request_line_parts(): method, url and version, cut at two spaces.
RequestLine(part) ==
    LET i == Min(Spaces(part))
        j == Min(Spaces(part) \ {i})
    IN  <<SubSeq(part, 1, i - 1), SubSeq(part, i + 1, j - 1), SubSeq(part, j + 1, Len(part))>>

\* add_header(): the first value of a unique header stays, others are joined.
AddHeader(headers, part) ==
    LET i     == Min(Colons(part))
        key   == SubSeq(part, 1, i - 1)
        value == SubSeq(part, i + 2, Len(part))
    IN  CASE key \notin DOMAIN headers ->
                [k \in DOMAIN headers \cup {key} |-> IF k = key THEN value ELSE headers[k]]
          [] key \in DOMAIN headers /\ key \in {<<u>> : u \in unique_headers} -> headers
          [] OTHER -> [headers EXCEPT ![key] = @ \o <<",", "SP">> \o value]

\* The first line of the call is taken for the request line.
AddLines(r, parts) ==
    IF parts = <<>> THEN r
    ELSE [r EXCEPT !.line = RequestLine(Head(parts)),
                   !.headers = FoldLeft(AddHeader, @, Tail(parts))]

HasBody(r) == <<"content-length">> \in DOMAIN r.headers
ContentLength(r) == r.headers[<<"content-length">>][1]
BodyLength(r) ==
    IF HasBody(r) THEN SelectInSeq(Digits, LAMBDA d : d = ContentLength(r)) - 1 ELSE 0

\* Mutant: the cursor is put where the body will end.
TakeBodyFromItsEnd(r, m, header_end) ==
    IF header_end + BodyLength(r) > Len(m)
    THEN [r EXCEPT !.cursor = header_end + BodyLength(r)]
    ELSE [r EXCEPT !.cursor = PARSE_COMPLETE]

\* The empty line was met: the body is taken once all of it is there.
TakeBody(r, m, header_end) ==
    IF header_end + BodyLength(r) > Len(m) THEN [r EXCEPT !.cursor = header_end]
    ELSE [r EXCEPT !.cursor = PARSE_COMPLETE,
                   !.body = IF HasBody(r) THEN SubSeq(m, header_end + 1, header_end + BodyLength(r))
                                          ELSE @]

\* Mutant: running out of bytes ends the head.
ParsedHastily(r, m) ==
    LET found == Scan(m, r.cursor)
        read  == AddLines([r EXCEPT !.cursor = found.cursor], found.parts)
    IN  TakeBody(read, m, found.cursor)

\* What parse_request() makes of r when message_buffer is m ...
Parsed(r, m) ==
    LET found == Scan(m, r.cursor)
        read  == AddLines([r EXCEPT !.cursor = found.cursor], found.parts)
    IN  IF found.header_end = 0 THEN read ELSE TakeBody(read, m, found.header_end)

\* ... unless it throws.
Throws(r, m) ==
    LET found == Scan(m, r.cursor)
        malformed == \E i \in DOMAIN found.parts :
                        IF i = 1 THEN Cardinality(Spaces(found.parts[i])) < 2
                                 ELSE Colons(found.parts[i]) = {}
        read == AddLines(r, found.parts)
    IN  \/ malformed
        \/ /\ found.header_end > 0
           /\ HasBody(read)
           /\ ~Contains(Digits, ContentLength(read))

(***************************************************************************)
(* The client's bytes and how they arrive.                                 *)
(***************************************************************************)

Marshal(r, eol) ==
    r.line \o eol
    \o FlattenSeq([i \in DOMAIN r.headers |-> <<r.headers[i][1], ":", "SP">> \o r.headers[i][2] \o eol])
    \o eol \o r.body

Empty == [cursor |-> 0, line |-> <<>>, headers |-> <<>>, body |-> <<>>]

Ready == request.cursor = PARSE_COMPLETE

Init ==
    /\ sent \in [request : Requests, eol : LineEnds]
    /\ wire = Marshal(sent.request, sent.eol)
    /\ message_buffer = <<>>
    /\ request = Empty
    /\ thrown = FALSE
    /\ chunks = 0
    /\ cutHead = FALSE

\* append_to_message() with the next n symbols.  A request that is ready is
\* dispatched and an exception ends the handling, so neither is fed again.
AppendToMessage(n) ==
    LET m == message_buffer \o SubSeq(wire, 1, n)
    IN  /\ ~Ready
        /\ ~thrown
        /\ message_buffer' = m
        /\ wire' = SubSeq(wire, n + 1, Len(wire))
        /\ thrown' = Throws(request, m)
        /\ request' = IF thrown' THEN request ELSE Parsed(request, m)
        /\ chunks' = chunks + 1
        /\ cutHead' = (\E i \in DOMAIN message_buffer : message_buffer[i] \in {"CR", "LF"})
        /\ UNCHANGED sent

Next == \E n \in 1..Len(wire) : AppendToMessage(n)

Spec == Init /\ [][Next]_vars
-----------------------------------------------------------------------------
(***************************************************************************)
(* What the request should be, from what the client meant.                 *)
(***************************************************************************)
\* What the i-th header line adds to the value of the header called name: the
\* first line gives it, further ones are joined to it or ignored.
Contribution(headers, i, name) ==
    LET again == \E j \in 1..(i - 1) : headers[j][1] = name
    IN  CASE headers[i][1] # name                              -> <<>>
          [] headers[i][1] = name /\ ~again                    -> headers[i][2]
          [] again /\ headers[i][1] = name /\ name \in unique_headers -> <<>>
          [] OTHER                                             -> <<",", "SP">> \o headers[i][2]

ValueOf(headers, name) ==
    FlattenSeq([i \in DOMAIN headers |-> Contribution(headers, i, name)])

Meaning(r) ==
    [line |-> r.line, body |-> r.body,
     headers |-> [k \in {<<r.headers[i][1]>> : i \in DOMAIN r.headers} |->
                    ValueOf(r.headers, k[1])]]

Understood ==
    /\ Ready
    /\ Meaning(sent.request) =
          [line |-> request.line[1] \o <<"SP">> \o request.line[2] \o <<"SP">> \o request.line[3],
           body |-> request.body, headers |-> request.headers]

\* A request with a method, an URL and a version, whose body is as long as its
\* first Content-Length says.
WellFormed(r) ==
    LET lengths == {i \in DOMAIN r.headers : r.headers[i][1] = "content-length"}
    IN  /\ Cardinality(Spaces(r.line)) >= 2
        /\ IF lengths = {} THEN r.body = <<>>
           ELSE /\ Len(r.body) < Len(Digits)
                /\ r.headers[Min(lengths)][2] = <<Digits[Len(r.body) + 1]>>

\* Where lines end in CR alone, an LF at the start of the body is taken for the
\* second half of the empty line's terminator.
TerminatorReachesBody ==
    sent.eol = <<"CR">> /\ sent.request.body # <<>> /\ sent.request.body[1] = "LF"

Clear == WellFormed(sent.request) /\ ~TerminatorReachesBody

\* Symbols of the message up to and including the first terminator symbol of
\* its empty line.
HeadLength == Len(Marshal(sent.request, sent.eol)) - Len(sent.request.body)
                - (Len(sent.eol) - 1)

TypeOK ==
    /\ sent \in [request : Requests, eol : LineEnds]
    /\ message_buffer \o wire = Marshal(sent.request, sent.eol)
    /\ request.cursor \in {PARSE_COMPLETE} \cup 0..Len(message_buffer)
    /\ thrown \in BOOLEAN
    /\ cutHead \in BOOLEAN
    /\ chunks \in 0..Len(message_buffer)

\* However many chunks have come, the parser knows what one call with all of
\* their bytes would make of them, and throws if that call would throw, as
\* long as no call has stopped behind a line terminator.
ChunksLeaveNoTrace ==
    ~cutHead =>
        /\ thrown = Throws(Empty, message_buffer)
        /\ request = IF thrown THEN Empty ELSE Parsed(Empty, message_buffer)

\* A well-formed request of which everything behind the first line terminator,
\* the body included, comes in the last chunk is understood as the client meant
\* it, whatever its line terminators and repeated headers, and however many
\* chunks came before (parse_request() restarts at a cursor that is still 0).
UnderstoodWhenWhole ==
    wire = <<>> /\ ~cutHead /\ Clear => Understood

\* The parser never takes a request for complete, and serve() never
\* dispatches one, before its empty line has begun to arrive, unless an
\* earlier call stopped between two lines.
NeverReadyEarly ==
    Ready /\ ~cutHead => Len(message_buffer) >= HeadLength

\* SplitDescribeRequest of the tests: a request cut into two sends is
\* answered like one that arrives whole.
SplitRequestUnderstood ==
    wire = <<>> /\ chunks <= 2 /\ Clear => Understood
=============================================================================
