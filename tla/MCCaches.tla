------------------------------- MODULE MCCaches -------------------------------
(***************************************************************************)
(* The object cache, the loaders of settings, the outbound resources and   *)
(* the status of agents, side by side: a behaviour is about one of them    *)
(* (part), the others stay in their initial states.                        *)
(***************************************************************************)
EXTENDS ObjectCache, Settings, Resources, AgentStatus

VARIABLE part

MCMasks == {<<"5", "X">>}
MCCodes == {<<"5", "0">>, <<"1", "6">>}

MCInit ==
    /\ part \in {"cache", "settings", "resources", "agents"}
    /\ CacheInit /\ SettingsInit /\ ResourcesInit /\ Init
    /\ part # "settings" => kind = "queue" /\ ~lagging
    /\ part # "agents" => sock = [g \in Agents |-> FALSE]

CachePart ==
    /\ part = "cache" /\ CacheNext
    /\ UNCHANGED <<part, svars, rvars, vars>>
SettingsPart ==
    /\ part = "settings" /\ SettingsNext
    /\ UNCHANGED <<part, cvars, rvars, vars>>
ResourcesPart ==
    /\ part = "resources" /\ ResourcesNext
    /\ UNCHANGED <<part, cvars, svars, vars>>
AgentsPart ==
    /\ part = "agents" /\ Next
    /\ UNCHANGED <<part, cvars, svars, rvars>>

MCNext == CachePart \/ SettingsPart \/ ResourcesPart \/ AgentsPart

\* The fairness of the loaders and of the agents' statuses, for the part that moves.
MCFairness ==
    /\ \A c \in Callers : WF_svars(part = "settings" /\ LoaderStep(c))
    /\ \A r \in Replicas : WF_svars(part = "settings" /\ Replicate(r))
    /\ WF_svars(part = "settings" /\ Expire)
    /\ WF_vars(part = "agents" /\ ListGone)
    /\ \A g \in Agents : WF_vars(part = "agents" /\ LogoutGone(g))
    /\ \A p \in Procs : WF_vars(part = "agents" /\ Continue(p))
    /\ SF_vars(part = "agents" /\ SetOffline(Watcher) /\ call'[Watcher] # NoCall)

MCSpec == MCInit /\ [][MCNext]_<<part, cvars, svars, rvars, vars>> /\ MCFairness

MCTypeOK == CacheTypeOK /\ SettingsTypeOK /\ ResourcesTypeOK /\ TypeOK

\* lru.go: the cache implements the map its users rely on.
Map == INSTANCE ExpiringMap WITH map <- Visible

CacheIsMap == Map!MapSpec
================================================================================
