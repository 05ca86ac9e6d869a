------------------------------- MODULE Tracing -------------------------------
(***************************************************************************)
(* forgejudge/obs/tracing.py: where a run's spans go and the link to them  *)
(* that its record carries.  The environment's keys, and whether Langfuse   *)
(* answers, change between calls; a call runs on one thread without a       *)
(* break.  Langfuse is external; the host is taken to stay the same, since  *)
(* it is no part of the cache's key.                                       *)
(* A definition marked FAULT is no part of the model: it is a plausible     *)
(* defect in place of the definition after it, which a property must find.  *)
(***************************************************************************)
CONSTANTS
  Keys,        \* pairs of public and secret key
  ProjectOf,   \* the project Langfuse has for each pair, or None
  None         \* no keys, no project, no link

VARIABLES
  keys,       \* what the environment holds
  up,         \* Langfuse answers
  exporters,  \* the keys under which span processors export to Langfuse
  traced,     \* setup_tracing installed a provider: spans have a trace_id
  cache,      \* _PROJECT_ID_CACHE
  link,       \* the last call's trace_url_for: None or [keys, project]
  routed      \* history: since the keys are these, setup_tracing chose exporters

env == <<keys, up, routed>>
provider == <<exporters, traced>>
tracingVars == <<env, provider, cache, link>>

TracingInit ==
  /\ keys \in Keys \cup {None} /\ up \in BOOLEAN
  /\ exporters = {} /\ traced = FALSE
  /\ cache = [k \in Keys |-> None] /\ link = None /\ routed = FALSE

-----------------------------------------------------------------------------
\* the environment
SetKeys(k) ==
  /\ keys' = k /\ routed' = FALSE /\ link' = None
  /\ UNCHANGED <<up, provider, cache>>

Connectivity ==
  /\ up' = ~ up /\ link' = None
  /\ UNCHANGED <<keys, routed, provider, cache>>

\* Phoenix is left out: it has no part in a link
SetupTracing ==
  /\ traced' = TRUE
  /\ exporters' = IF keys = None THEN exporters ELSE exporters \cup {keys}
  /\ routed' = TRUE /\ link' = None
  /\ UNCHANGED <<keys, up, cache>>

\* setup_tracing with an explicit exporter: Langfuse gets none, keys or no keys
SetupWithExporter ==
  /\ traced' = TRUE /\ link' = None
  /\ UNCHANGED <<env, exporters, cache>>

\* _fetch_langfuse_project_id: None for an error or an account without projects
Fetched == IF up THEN ProjectOf[keys] ELSE None

ProjectId == IF cache[keys] # None THEN cache[keys] ELSE Fetched

\* FAULT: what was fetched is remembered under no keys in particular.
RememberForAll == [k \in Keys |-> ProjectId]

\* only a success is remembered
Remember == [cache EXCEPT ![keys] = ProjectId]

TraceUrlFor ==
  /\ IF traced /\ keys # None
     THEN link' = [keys |-> keys, project |-> ProjectId] /\ cache' = Remember
     ELSE link' = None /\ UNCHANGED cache
  /\ UNCHANGED <<env, provider>>

TracingNext ==
  \/ \E k \in Keys \cup {None} : SetKeys(k)
  \/ Connectivity \/ SetupTracing \/ SetupWithExporter \/ TraceUrlFor

TracingSpec == TracingInit /\ [][TracingNext]_tracingVars

-----------------------------------------------------------------------------
(* A link names the project of the keys in force, never that of others used  *)
(* before, and it falls back to none only when Langfuse cannot be asked now   *)
(* or has no project: an earlier failure is not remembered.  And it leads to a *)
(* trace that was sent there, if setup_tracing was called under these keys     *)
(* without an exporter of the caller's: with one, it may lead nowhere.         *)
LinkIsCurrent ==
  link # None =>
    /\ routed => link.keys \in exporters
    /\ link.keys = keys
    /\ link.project \in {ProjectOf[keys], None}
    /\ link.project = None => ~ up \/ ProjectOf[keys] = None
=============================================================================
