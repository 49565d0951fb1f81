----------------------------- MODULE MCSmtpRead -----------------------------
EXTENDS SmtpRead

\* "222" CRLF: the shortest valid response.
Short == <<"2", "2", "2", CR, LF>>
\* "222-x" LF "222 x" CRLF: two lines, the first ended by a bare LF.
Multi == <<"2", "2", "2", "-", "x", LF, "2", "2", "2", SP, "x", CR, LF>>
\* "555 " CRLF: an error response with white space before the CRLF.
Fail == <<"5", "5", "5", SP, CR, LF>>
\* "2x" CRLF: not a reply line.
Bad == <<"2", "x", CR, LF>>

MCResponses == {Short, Multi, Fail, Bad}
MCScripts == {<<a, b>> : a, b \in MCResponses}
=============================================================================
