------------------------------ MODULE Registry ------------------------------
(***************************************************************************)
(* Servant registration (src/TarsGo/tars/servanthandle.go): an application *)
(* names each servant object; registration looks the name up in the       *)
(* server configuration and records a TARS server (goSvrs) or an HTTP      *)
(* server (httpSvrs) for it, and the name in objRunList, the list the      *)
(* application later starts.  The configuration is loaded by               *)
(* GetServerConfig, outside src/; until then tarsConfig is empty.          *)
(* Addresses, protocols and HTTP mux settings are abstracted away: a       *)
(* server is the kind of servant it serves.                                *)
(***************************************************************************)
EXTENDS Naturals, Sequences, SequencesExt

CONSTANTS
  Objs,        \* servant object names the application may register
  Configured,  \* the names the server configuration has an entry for
  MaxAdds      \* registrations one behaviour makes

ASSUME Configured \subseteq Objs /\ MaxAdds \in Nat

VARIABLES
  tarsConfig,  \* the names tarsConfig has been loaded with
  objRunList,  \* objRunList, in registration order
  goSvrs,      \* goSvrs: name -> TARS server, as a function
  httpSvrs,    \* httpSvrs: name -> HTTP server
  adds         \* registrations made so far

vars == <<tarsConfig, objRunList, goSvrs, httpSvrs, adds>>

\* Mutant of Put: the key stored in place of the value.
PutKeyOnly(m, k, v) == [x \in DOMAIN m \cup {k} |-> IF x = k THEN k ELSE m[x]]

\* m[k] = v added to a Go map, replacing what k held.
Put(m, k, v) == [x \in DOMAIN m \cup {k} |-> IF x = k THEN v ELSE m[x]]

\* GetServerConfig fills tarsConfig.
LoadConfig ==
  /\ tarsConfig = {}
  /\ tarsConfig' = Configured
  /\ UNCHANGED <<objRunList, goSvrs, httpSvrs, adds>>

\* addServantCommon (AddServant, AddServantWithContext): the name joins
\* objRunList first; only a configured name gets a TARS server.
AddServant(obj, withContext) ==
  /\ adds < MaxAdds
  /\ adds' = adds + 1
  /\ objRunList' = Append(objRunList, obj)
  /\ goSvrs' = IF obj \in tarsConfig
               THEN Put(goSvrs, obj, IF withContext THEN "tarsCtx" ELSE "tars")
               ELSE goSvrs
  /\ UNCHANGED <<tarsConfig, httpSvrs>>

\* objRunList = append(objRunList, obj) in AddHttpServant.
RunListAdd(l, obj) == Append(l, obj)

\* AddHttpServant: an unconfigured name returns at once; a configured one
\* joins objRunList and gets an HTTP server.
AddHttpServant(obj) ==
  /\ adds < MaxAdds
  /\ adds' = adds + 1
  /\ IF obj \in tarsConfig
     THEN /\ objRunList' = RunListAdd(objRunList, obj)
          /\ httpSvrs' = Put(httpSvrs, obj, "http")
     ELSE UNCHANGED <<objRunList, httpSvrs>>
  /\ UNCHANGED <<tarsConfig, goSvrs>>

\* Registration is over.
Done ==
  /\ adds = MaxAdds
  /\ UNCHANGED vars

Init ==
  /\ tarsConfig = {}
  /\ objRunList = <<>>
  /\ goSvrs = <<>>
  /\ httpSvrs = <<>>
  /\ adds = 0

Next ==
  \/ LoadConfig
  \/ \E obj \in Objs, withContext \in BOOLEAN : AddServant(obj, withContext)
  \/ \E obj \in Objs : AddHttpServant(obj)
  \/ Done

Spec == Init /\ [][Next]_vars

-----------------------------------------------------------------------------
(* Properties.                                                             *)

Servers == {"tars", "tarsCtx", "http"}

TypeOK ==
  /\ tarsConfig \in {{}, Configured}
  /\ objRunList \in Seq(Objs)
  /\ DOMAIN goSvrs \subseteq Objs /\ \A o \in DOMAIN goSvrs : goSvrs[o] \in Servers
  /\ DOMAIN httpSvrs \subseteq Objs /\ \A o \in DOMAIN httpSvrs : httpSvrs[o] \in Servers
  /\ adds \in 0 .. MaxAdds

====
