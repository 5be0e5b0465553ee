------------------------------- MODULE MCHttp -------------------------------
EXTENDS Http
MCRequests == {
  [method |-> "GET", uri |-> "/a", version |-> "HTTP/1.1", headers |-> <<>>, body |-> <<>>],
  [method |-> "POST", uri |-> "/b", version |-> "HTTP/1.1",
   headers |-> <<<<"Content-Length", "2">>>>, body |-> <<"\r", "GET">>],
  [method |-> "POST", uri |-> "/c", version |-> "HTTP/1.0",
   headers |-> <<<<"Content-Length", "1">>, <<"Connection", "Keep-Alive">>>>, body |-> <<"\n">>],
  [method |-> "GET", uri |-> "/d", version |-> "HTTP/1.0", headers |-> <<>>, body |-> <<>>]}
=============================================================================
