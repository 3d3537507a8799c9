------------------------------ MODULE ServicesMC -----------------------------
(***************************************************************************)
(* The services that are configured or stored apart from turns, checked in *)
(* one run.  They share no state, so a behaviour is one of a single        *)
(* service, chosen at the start, while the others stay in a state of which *)
(* there is nothing to say.  Model values are shared too: what is          *)
(* interchangeable in one service is interchangeable in all.               *)
(***************************************************************************)
EXTENDS Endpoints, ModelChoice, Channels, PluginLoading, TodoLists, TLC

CONSTANTS c1, c2, e1, e2

MCRequests == {c1, c2}
MCSaved == {e1, e2}
MCPool == 1..3
MCPutBodies == {[bot |-> e, token |-> e] : e \in MCSaved}
MCModelLists == {<<>>, <<"m">>}
MCSettings == {"plain", "based"}
MCBased == {"based"}
MCDirectory == <<"a", "b", "c">>

Symmetry == Permutations(MCRequests) \cup Permutations(MCSaved)

VARIABLE service

servicesVars == <<service, endpointVars, modelVars, channelVars, pluginVars, todoVars>>

ModelsRest == preset = [p \in Presets |-> NoPreset] /\ ModelInit
PluginsRest ==
  /\ loader = "sandboxed" /\ needs = <<>> /\ degree = <<>> /\ queue = <<>> /\ order = <<>>
  /\ remaining = <<>> /\ broken = {} /\ loaded = <<>> /\ registered = {}

ServicesInit ==
  /\ service \in {"endpoints", "models", "channels", "plugins", "lists"}
  /\ EndpointInit /\ ChannelInit
  /\ IF service = "models" THEN ModelInit ELSE ModelsRest
  /\ IF service = "plugins" THEN PluginInit ELSE PluginsRest
  /\ TodoInit /\ (service # "lists" => kind = "notes")

ServicesNext ==
  /\ UNCHANGED service
  /\ \/ service = "endpoints" /\ EndpointNext /\ UNCHANGED <<modelVars, channelVars, pluginVars, todoVars>>
     \/ service = "models" /\ ModelNext /\ UNCHANGED <<endpointVars, channelVars, pluginVars, todoVars>>
     \/ service = "channels" /\ ChannelNext /\ UNCHANGED <<endpointVars, modelVars, pluginVars, todoVars>>
     \/ service = "plugins" /\ PluginNext /\ UNCHANGED <<endpointVars, modelVars, channelVars, todoVars>>
     \/ service = "lists" /\ TodoNext
          /\ UNCHANGED <<endpointVars, modelVars, channelVars, pluginVars>>

ServicesSpec == ServicesInit /\ [][ServicesNext]_servicesVars
=============================================================================
