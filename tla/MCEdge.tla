------------------------------- MODULE MCEdge -------------------------------
(* Instances of Edge for TLC: two concurrent requests.                      *)
EXTENDS Edge, TLC

CONSTANTS q1, q2

Alike == Permutations({q1, q2})

Grant(path, wild) == [path |-> path, wild |-> wild]
Token(grants) == [keyed |-> TRUE, signed |-> TRUE, claims |-> TRUE, subject |-> "uuid", tenant |-> "uuid",
                  jti |-> "j", exp |-> 1, grants |-> grants]
MCTokens == [full |-> Token({Grant(<<"order">>, TRUE)}),
             other |-> Token({Grant(<<"user", "read">>, FALSE)}),
             odd |-> [Token({}) EXCEPT !.subject = "email"],
             forged |-> [Token({}) EXCEPT !.signed = FALSE]]

Write == <<[rule |-> "one", perms |-> {<<"order", "write">>}],
           [rule |-> "any", perms |-> {<<"order">>, <<"user">>}],
           [rule |-> "all", perms |-> {<<"order">>, <<"order", "read">>}], [rule |-> "own", perms |-> {}]>>
Input == [transport |-> "http", write |-> TRUE, probe |-> FALSE, corr |-> TRUE, tenant |-> "none",
          token |-> "full", key |-> "ip", auth |-> TRUE, policies |-> Write]

MCInputs ==
  {Input,
   [Input EXCEPT !.token = "other", !.tenant = "t1", !.corr = FALSE],
   [Input EXCEPT !.tenant = "t2", !.token = "odd", !.key = "none"],
   [Input EXCEPT !.tenant = "t3", !.write = FALSE, !.auth = FALSE, !.policies = <<>>, !.token = "forged", !.key = "none"],
   [Input EXCEPT !.tenant = "t3", !.key = "none"],
   [Input EXCEPT !.probe = TRUE, !.write = FALSE, !.token = "none"],
   [Input EXCEPT !.transport = "grpc", !.key = "none"],
   [Input EXCEPT !.transport = "grpc", !.key = "none", !.token = "other", !.policies = <<>>]}

\* As documented, and as add_middleware after setup_qx_app builds it.
MCStacks == {<<"RequestContext", "RegionRedirect", "JwtAuth", "RateLimit", "Metrics">>,
             <<"RateLimit", "JwtAuth", "RequestContext", "RegionRedirect", "Metrics">>}

MCHomeOf == [t1 |-> "eu", t2 |-> "us", t3 |-> "unknown"]
MCChecks == {<<"healthy", "nothing">>, <<"degraded", "healthy">>, <<"degraded", "timeout">>}
=============================================================================
