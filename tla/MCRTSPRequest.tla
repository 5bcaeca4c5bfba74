--------------------------- MODULE MCRTSPRequest ---------------------------
(***************************************************************************)
(* Requests with no header, with repeated headers of both kinds, with a    *)
(* body and with an empty body, with a body that begins with a line        *)
(* terminator, and without a version, sent with each line terminator that  *)
(* RTSPRequest::delimiters names.                                          *)
(***************************************************************************)
EXTENDS RTSPRequest

RequestLineOf(method) == <<method, "SP", "url", "SP", "version">>

MCSymbols ==
    {"CR", "LF", "SP", ":", "0", "1", "2", "3"}
    \cup {"OPTIONS", "DESCRIBE", "PLAY", "PAUSE", "url", "version"}
    \cup {"cseq", "accept", "range", "content-length", "sdp", "html", ",", "text", "npt", "b", "c"}

MCRequests == {
    [line |-> RequestLineOf("OPTIONS"), headers |-> <<>>, body |-> <<>>],
    [line |-> RequestLineOf("DESCRIBE"),
     headers |-> << <<"cseq", <<"2">> >>, <<"accept", <<"sdp">> >> >>, body |-> <<>>],
    [line |-> RequestLineOf("DESCRIBE"),
     headers |-> << <<"accept", <<"sdp">> >>, <<"cseq", <<"1">> >>,
                    <<"accept", <<"html", ",", "SP", "text">> >>, <<"cseq", <<"2">> >> >>,
     body |-> <<>>],
    [line |-> RequestLineOf("PLAY"),
     headers |-> << <<"range", <<"npt", ":", "1">> >>, <<"content-length", <<"2">> >> >>,
     body |-> <<"b", "c">>],
    [line |-> RequestLineOf("PLAY"),
     headers |-> << <<"content-length", <<"3">> >>, <<"content-length", <<"0">> >> >>,
     body |-> <<"b", "LF", "c">>],
    [line |-> RequestLineOf("PAUSE"),
     headers |-> << <<"content-length", <<"0">> >> >>, body |-> <<>>],
    [line |-> RequestLineOf("PLAY"),
     headers |-> << <<"content-length", <<"2">> >> >>, body |-> <<"LF", "b">>],
    [line |-> <<"OPTIONS", "SP", "url">>,
     headers |-> << <<"cseq", <<"1">> >> >>, body |-> <<>>] }

MCLineEnds == {<<"LF">>, <<"CR">>, <<"CR", "LF">>}
=============================================================================
