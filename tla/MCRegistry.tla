---------------------------- MODULE MCRegistry -----------------------------
(* Model-checking instance of Registry: two servant names, one of them    *)
(* configured, and three registrations, enough to register a name twice, *)
(* as both kinds, or before the configuration is loaded.                  *)
EXTENDS Registry

MCObjs == {"o1", "o2"}
MCConfigured == {"o1"}
====
