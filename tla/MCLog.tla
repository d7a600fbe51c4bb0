------------------------------- MODULE MCLog --------------------------------
EXTENDS Log
CONSTANTS t1, t2, Web

MCThreads == {t1, t2}
MCSetters == {t1}
MCLoggers == {Root, Web}
MCPaths == {<<>>, <<"net">>, <<"net", "web">>}

\* A logger in a group.
MCGroupOf == (Root :> <<>>) @@ (Web :> <<"net">>)
MCIdOf == (Root :> <<>>) @@ (Web :> <<"web">>)
=============================================================================
