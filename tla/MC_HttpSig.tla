----------------------------- MODULE MC_HttpSig -----------------------------
(* Small instances of HttpSig for TLC.                                     *)
EXTENDS HttpSig, TLC

MCVerbs == {"GET", "POST"}
MCLower == ("GET" :> "get") @@ ("POST" :> "post")
MCPathChars == {"/", "a", "b", "?"}
MCPaths == {<<"/", "a">>, <<"/", "b">>}
\* a path that holds a '?', as a percent-decoded path can
MCPathsWithQueryMark == MCPaths \cup {<<"/", "a", "?", "b">>}
MCQueries == {<<>>, <<"b">>}
MCBodies == {"hello", "hullo"}
MCSha256 == ("hello" :> "H(hello)") @@ ("hullo" :> "H(hullo)")
MCPlainNames == {"content-length", "x-extra"}
MCPlainValues == {"5", "0"}

\* The header map holding exactly the entries of f.
Hdrs(f) ==
  LET Get(n) == IF n \in DOMAIN f THEN f[n] ELSE Absent
  IN  [plain |-> [n \in PlainNames |-> Get(n)],
       digest |-> Get("digest"), auth |-> Get("authorization")]

\* A fresh POST, and a GET with a query whose digest header is stale.
MCClientRequests ==
  { [verb |-> "POST", path |-> <<"/", "a">>, query |-> <<>>,
     headers |-> Hdrs("content-length" :> "5"), body |-> "hello"],
    [verb |-> "GET", path |-> <<"/", "a">>, query |-> <<"b">>,
     headers |-> Hdrs(("content-length" :> "0")
                        @@ ("digest" :> [eq |-> TRUE, alg |-> "SHA-256",
                                        hash |-> "H(hello)"])),
     body |-> "hullo"] }

\* A request that already carries an Authorization header, as when a
\* client signs a request a second time.
MCClientRequestsResigned ==
  MCClientRequests \cup
  { [verb |-> "POST", path |-> <<"/", "a">>, query |-> <<>>,
     headers |-> Hdrs(("content-length" :> "5")
                        @@ ("authorization" :>
                              AuthValue(<<"(request-target)">>, 0))),
     body |-> "hello"] }

\* The default list of sign_request, one without the digest and one that
\* names a header the requests lack.
MCSignLists ==
  { <<"(request-target)", "digest", "content-length">>,
    <<"(request-target)", "content-length">>,
    <<"(request-target)", "digest", "x-extra">> }

MCSignListsWithAuth ==
  MCSignLists \cup {<<"(request-target)", "digest", "authorization">>}

MCAttackLists ==
  { <<"(request-target)", "digest", "content-length">>,
    <<"(request-target)", "digest">>,
    <<"(request-target)", "content-length">> }

MCRequiredHeaders == {"(request-target)", "digest"}
=============================================================================
