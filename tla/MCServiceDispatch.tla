------------------------- MODULE MCServiceDispatch -------------------------
(* A small instance of ServiceDispatch for TLC. *)
EXTENDS ServiceDispatch, TLC

\* "/s", "/s/", "/s/1%2F1/1/x", "/1" and "/" ...
MCPaths == {<<"s">>, <<"s", "">>, <<"s", "1%2F1", "1", "x">>, <<"1">>, <<"">>}
MCEncoding == <<"1%2F1", "1", "x">> :> <<"1", "1", "1", "x">>

\* ... with a service for "s", and with or without a default one, for which a null
\* expression comes first ...
MCMappings == {{"s"}, {"s", ""}}
MCServices == "s" :> IndexUrlMap \o Tail(ArticleUrlMap) @@ "" :> ExampleUrlMap \o ArticleUrlMap

\* ... whose methods use a stylesheet, drop one that they have set, or have none.
MCScripts ==
  "list" :> <<"setXsltUrl", "write", "setNoXsltUrl">> @@ "show" :> <<"write", "addXsltFile">>
    @@ "index" :> <<"write">> @@ "helloWorld" :> <<"addXsltFile", "write">>

\* The theorem that every request is answered supposes this; the services of the examples keep it.
ASSUME MCMapsFit == MapsFit
=============================================================================
