----------------------------- MODULE MCContainer -----------------------------
(***************************************************************************)
(* Registrations for the container: a client and a service that needs it   *)
(* (both singletons, the client built by an async factory), a scoped unit  *)
(* of work that needs the client, and a handler class nobody registered    *)
(* that needs the unit of work and, optionally, itself.  In the second one *)
(* the client is the child's and needs the root's service; the unit of     *)
(* work is not registered there.                                           *)
(***************************************************************************)
EXTENDS Container

Nothing == [k \in Keys |-> None]
With(entries) == [k \in Keys |-> IF k \in DOMAIN entries THEN entries[k] ELSE None]

Service == FactoryProvider("singleton", <<"client">>, {1}, FALSE)
Client == FactoryProvider("singleton", <<>>, {}, TRUE)
Unit == FactoryProvider("scoped", <<"client">>, {}, FALSE)
MCClasses == [handler |-> FactoryProvider("transient", <<"uow", "handler">>, {2}, FALSE)]

MCRegistries ==
  { [root |-> With([service |-> Service, client |-> Client, uow |-> Unit]),
     child |-> Nothing],
    [root |-> With([service |-> Service]),
     child |-> With([client |-> FactoryProvider("singleton", <<"service">>, {}, TRUE)])] }

MCExtra == { Injectable("client", "singleton", <<>>, {}) }

=============================================================================
