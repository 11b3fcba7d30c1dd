-------------------------- MODULE MCHttpConnection --------------------------
(* A small instance of HttpConnection for TLC. *)
EXTENDS HttpConnection

\* "/p", with a query that has a '?' of its own, and with an empty one ...
MCUris == {<<"/", "p">>, <<"/", "p", "?", "q", "?">>, <<"/", "p", "?">>}

\* ... and header lines, one of them for the second time.
MCHeaderLines ==
  <<<<"CONTENT_LENGTH", <<"3">>>>, <<"COOKIE", <<"c">>>>, <<"COOKIE", <<"d", ";", "e">>>>>>
MCBody == <<<<"a">>, NewLine, <<"b">>>>

\* The default headers and what a slot makes of them: a status, two cookies.
MCDefault == <<<<"STATUS", "200 OK">>, <<"TYPE", "html">>>>
MCHeaderCalls == {<<"STATUS", "404">>, <<"COOKIE", "1">>, <<"COOKIE", "2">>}
=============================================================================
