------------------------------ MODULE SourceConfig ------------------------------
(***************************************************************************)
(* Source.config, one JSON column in which everybody keeps something:      *)
(* scrapers and play requests merge their tokens and caches into it under  *)
(* the lock of config_store.py, the form of the web UI and the audits      *)
(* write the whole of it back, without the lock.                           *)
(*                                                                         *)
(* Every party has a key of its own and counts up what it puts there, so   *)
(* an older value is a smaller number.  A commit that finds the database   *)
(* locked waits 30 s, then fails.                                          *)
(***************************************************************************)
EXTENDS Naturals

CONSTANTS
    Mergers,         \* processes inside persist_source_config_updates()
    Rewriters,       \* requests and jobs that write the whole configuration
    MaxPuts,         \* bound: how often each party stores something
    MaxBusyCommits   \* bound: commits that fail because the database is locked
ASSUME ConfigAssumption ==
    /\ Mergers \cap Rewriters = {}
    /\ MaxPuts \in Nat /\ MaxBusyCommits \in Nat

Parties == Mergers \cup Rewriters

VARIABLES
    config,    \* the committed column
    party,     \* where each party is, what it has in its session, its attempts
    put,       \* the last value each party made up
    reported,  \* ... and the last one whose storing was reported a success
    mixed,     \* history: parties that have had a rewriter's commit since they
               \* read, or are rewriters
    busyCommits

configVars == <<config, party, put, reported, mixed, busyCommits>>

ConfigIdle == [at |-> "idle"]

ConfigInit ==
    /\ config = [p \in Parties |-> 0]
    /\ party = [p \in Parties |-> ConfigIdle]
    /\ put = [p \in Parties |-> 0]
    /\ reported = [p \in Parties |-> 0]
    /\ mixed = {}
    /\ busyCommits = 0

\* Faulty variant: the lock excludes nobody.
ConfigLockFreeAlways == TRUE

\* The lock file of the source is held by a merger from its read to its return.
ConfigLockFree == \A m \in Mergers : party[m].at = "idle"

\* Faulty variant: the counter runs ahead of what is stored.
ConfigReadTwice(p) ==
    /\ party[p] = ConfigIdle
    /\ p \in Mergers => ConfigLockFree
    /\ put[p] < MaxPuts
    /\ put' = [put EXCEPT ![p] = @ + 1]
    /\ party' = [party EXCEPT ![p] = [at |-> "edited", attempt |-> 1,
                                      copy |-> [config EXCEPT ![p] = put[p] + 2]]]
    /\ mixed' = mixed \ {p}
    /\ UNCHANGED <<config, reported, busyCommits>>

\* persist_source_config_updates() reads the row afresh under the lock and
\* merges; save_source_config(), run_stream_audit() and its recheck take a
\* copy of the column as they read it, the audit long before it commits.
ConfigRead(p) ==
    /\ party[p] = ConfigIdle
    /\ p \in Mergers => ConfigLockFree
    /\ put[p] < MaxPuts
    /\ put' = [put EXCEPT ![p] = @ + 1]
    /\ party' = [party EXCEPT ![p] = [at |-> "edited", attempt |-> 1,
                                      copy |-> [config EXCEPT ![p] = put[p] + 1]]]
    /\ mixed' = mixed \ {p}
    /\ UNCHANGED <<config, reported, busyCommits>>

ConfigCommit(p) ==
    /\ party[p].at = "edited"
    /\ config' = party[p].copy
    /\ party' = [party EXCEPT ![p] = ConfigIdle]
    /\ reported' = [reported EXCEPT ![p] = put[p]]
    /\ mixed' = IF p \in Rewriters THEN mixed \cup {q \in Parties : party[q].at = "edited"}
                                   ELSE mixed
    /\ UNCHANGED <<put, busyCommits>>

\* The commit fails.  A rewriter's request or job ends with an error; a merger
\* rolls back, which discards the edit, and tries up to three times.
ConfigBusy(p) ==
    /\ party[p].at = "edited"
    /\ busyCommits < MaxBusyCommits
    /\ busyCommits' = busyCommits + 1
    /\ party' = [party EXCEPT ![p] =
                    IF p \in Rewriters THEN ConfigIdle
                    ELSE [at |-> "rolled back", attempt |-> 2, copy |-> config]]
    /\ UNCHANGED <<config, put, reported, mixed>>

\* The next attempt has nothing to write, cannot fail, and reports success.
ConfigAgain(p) ==
    /\ party[p].at = "rolled back"
    /\ party' = [party EXCEPT ![p] = ConfigIdle]
    /\ reported' = [reported EXCEPT ![p] = put[p]]
    /\ UNCHANGED <<config, put, mixed, busyCommits>>

ConfigNext ==
    \E p \in Parties : ConfigRead(p) \/ ConfigCommit(p) \/ ConfigBusy(p) \/ ConfigAgain(p)

ConfigSpec == ConfigInit /\ [][ConfigNext]_configVars
-----------------------------------------------------------------------------
\* Type invariant
ConfigTypeOK ==
    /\ config \in [Parties -> 0 .. MaxPuts]
    /\ put \in [Parties -> 0 .. MaxPuts] /\ reported \in [Parties -> 0 .. MaxPuts]
    /\ \A p \in Parties : reported[p] <= put[p] /\ config[p] <= put[p]
    /\ \A p \in Parties : party[p].at \in {"idle", "edited", "rolled back"}
    /\ mixed \subseteq Parties
    /\ busyCommits \in 0 .. MaxBusyCommits

\* persist_source_config_updates() takes back nothing another process has
\* stored meanwhile, unless one that does not use the lock committed between
\* its read and its commit; and the types hold.
ConfigForward ==
    /\ []ConfigTypeOK
    /\ [][\A m \in Mergers \ mixed : ConfigCommit(m) =>
             \A p \in Parties : config'[p] >= config[p]]_configVars
===============================================================================
