---------------------------- MODULE MCFormUpload ----------------------------
(* A small instance of FormUpload for TLC. *)
EXTENDS FormUpload

\* Three parameters, with a name and a value long enough for lengths of four bytes.
MCHeaders == <<<<<<1>>, <<>>>>, <<<<2>>, <<1, 3>>>>, <<<<2, 1>>, <<2>>>>>>

\* A responder, with and without FCGI_KEEP_CONN; an authorizer; an unknown role.
Begin(roleB1, roleB0, flags) == [roleB1 |-> roleB1, roleB0 |-> roleB0, flags |-> flags]
MCBegins == {Begin(0, 1, 0), Begin(0, 1, 1), Begin(0, 2, 1), Begin(1, 0, 1)}

MCForms == {<<>>, <<<<<<"a">>, <<"1", "2">>>>>>,
            <<<<<<"a", "b">>, <<"1">>>>, <<<<"c">>, <<>>>>, <<<<"d">>, <<"2">>>>>>}

\* Content with what looks like the beginning of a boundary, and without any.
MCParts == {<<<<"H">>, <<"x", "nl", "--", "y">>>>, <<<<"H", "K">>, <<>>>>, <<<<"K">>, <<"nl", "nl", "--">>>>}
MCDocuments ==
  [boundaryGiven : BOOLEAN, preamble : {<<>>, <<"p">>, <<"nl">>},
   parts : {<<p>> : p \in MCParts} \union (MCParts \X MCParts)]

MCGroups == {<<>>, <<<<"a", "b", "c">>, <<"d", "e", "f">>, <<"g", "h", "i">>>>, <<<<"a", "b">>>>}
=============================================================================
