------------------------------ MODULE MCProcess ------------------------------
(* A finite instance of what one process does besides serving: its start   *)
(* and its end (ServerLifecycle), and the profile it starts with and       *)
(* reloads (Profiles).  They share no state; one is watched in every       *)
(* behaviour.                                                              *)
(*                                                                         *)
(* A field with a default, a required one, and an optional one that needs  *)
(* a restart; in the environment and the arguments, fields that documents  *)
(* have or leave out too.                                                  *)
EXTENDS Profiles, ServerLifecycle, TLC

CONSTANTS limit, url, region, v1, v2

MCFields   == {limit, url, region}
MCValues   == {v1, v2}
MCDefaults == (limit :> v1) @@ (url :> Unset) @@ (region :> Unset)
MCRequired == {url}
MCRestart  == {region, limit}

Setting(l, u, r) == (limit :> l) @@ (url :> u) @@ (region :> r)

MCDocuments ==
  {Setting(Unset, v1, Unset), Setting(v2, v2, v1)}
MCGiven ==
  {[environment |-> Setting(Unset, Unset, Unset), arguments |-> Setting(Unset, Unset, Unset)],
   [environment |-> Setting(v2, v1, Unset), arguments |-> Setting(v1, Unset, Unset)]}
MCValidConfigs == {c \in [MCFields -> MCValues \cup {Unset}] : ~(c[limit] = v2 /\ c[region] = v2)}
MCExtensions == <<"json", "yaml">>

VARIABLE watched   \* the part that moves: "server" or "profiles"

ProcessInit ==
  /\ Init /\ ServerInit
  /\ watched \in {"server", "profiles"}
  /\ watched = "server" =>
       /\ given.environment[url] = v1 /\ slot.config[region] = Unset
       /\ \A name \in Names : files[name] = Absent
  /\ watched = "profiles" => enabled = {}

InServer == watched = "server" /\ ServerNext /\ UNCHANGED <<vars, watched>>
InProfiles == watched = "profiles" /\ Next /\ UNCHANGED <<serverVars, watched>>

ProcessSpec ==
  /\ ProcessInit
  /\ [][InServer \/ InProfiles]_<<vars, serverVars, watched>>
  /\ ServerFairness
==============================================================================
