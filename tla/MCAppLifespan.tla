--------------------------- MODULE MCAppLifespan ---------------------------
(* Two tenants with a connector each.                                      *)
EXTENDS AppLifespan

CONSTANTS a, b, a1, b1

MCTenants == <<a, b>>
MCConnectors == <<a1, b1>>
MCTenantOf == (a1 :> a) @@ (b1 :> b)
=============================================================================
