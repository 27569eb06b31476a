------------------------ MODULE MCAuthenticatedGateway ------------------------
(* A small instance of AuthenticatedGateway: one route, one request it allows, one with
   a scope that no identity holds, and one of an attempt above the limit of the route. *)
EXTENDS AuthenticatedGateway

MCRoutes == {[key |-> "model", scopes |-> {"read", "write"}, bytes |-> 2, attempts |-> 1]}
MCInput ==
  {[key |-> "model", scopes |-> {"read"}, bytes |-> 1, attempt |-> 1],
   [key |-> "model", scopes |-> {"read", "write"}, bytes |-> 1, attempt |-> 1],
   [key |-> "model", scopes |-> {"read"}, bytes |-> 3, attempt |-> 2]}
=============================================================================
