------------------------ MODULE DatabaseConfigurationInterface ------------------------
(***************************************************************************)
(* DatabaseConfigurationInterface                                         *)
(* (src/otsdaq-core/ConfigurationInterface/DatabaseConfigurationInterface *)
(* .cc): the otsdaq side of artdaq-database.  Table versions are filled   *)
(* into and saved from the active views of configuration tables, and      *)
(* configuration groups (global configurations) map tables to versions.   *)
(*                                                                         *)
(* The database is the environment.  It holds a document per table and   *)
(* version (store) and a member map per group name (groups), and every    *)
(* call may fail (the provider is unreachable, a document is corrupt).    *)
(* The interface keeps no state of its own; each operation is one step    *)
(* that records its outcome in last, which is what the properties read.   *)
(* Group names are sequences of characters, since getKeys and the group   *)
(* name filter compare them by prefix.                                     *)
(***************************************************************************)
EXTENDS Integers, Sequences, SequencesExt, TLC

CONSTANTS
  Tables,      \* configuration tables whose versions are filled and saved
  MetaTable,   \* GROUP_METADATA_TABLE_NAME
  Versions,    \* ConfigurationVersion values (non-negative integers)
  Data,        \* table contents
  GroupNames,  \* global configuration names, as character sequences
  Filters      \* filter strings of getAllConfigurationGroupNames

Absent == "absent"     \* no document / no group / no contents
NoVersion == -1        \* ConfigurationVersion(): INVALID

MemberTables == Tables \cup {MetaTable}

\* config_version_map_t: a table-to-version map
MemberMaps == UNION {[D -> Versions] : D \in SUBSET MemberTables}

VARIABLES
  store,   \* store[t][v]: the document of table t, version v
  groups,  \* groups[g]: the member map of stored group g
  view,    \* view[t]: the active view of table t (ConfigurationBase)
  last,    \* the last call and its outcome
  filledFrom  \* history: the version whose document view[t] holds as filled,
              \* NoVersion once the caller has set the view itself

vars == <<store, groups, view, last, filledFrom>>

(***************************************************************************)
(* The operations' computations                                           *)
(***************************************************************************)

\* loadVersion fills the view's contents; whether it also sets the view's
\* version is not clear to the code ("not clear it was happening")
LoadVersion(t, v, setsVersion) ==
  [version |-> IF setsVersion THEN v ELSE view[t].version, data |-> store[t][v]]

FillView(t, v, setsVersion) == [LoadVersion(t, v, setsVersion) EXCEPT !.version = v]

\* saveActiveVersion: overwriteVersion replaces the document, storeVersion
\* stores only a version the database does not hold yet
Saved(t, overwrite, ok) == ok /\ (overwrite \/ store[t][view[t].version] = Absent)

Stored(t, overwrite, ok) ==
  IF Saved(t, overwrite, ok)
  THEN [store EXCEPT ![t][view[t].version] = view[t].data] ELSE store

\* getVersions: the stored versions; an exception gives the empty set
GetVersions(t, ok) == IF ok THEN {v \in Versions : store[t][v] # Absent} ELSE {}

\* findLatestVersion: INVALID for an empty set, else *versions.rbegin()
FindLatestVersion(t, ok) ==
  LET versions == GetVersions(t, ok)
  IN  IF versions = {} THEN NoVersion ELSE Max(versions)

\* getAllConfigurationGroupNames: findGlobalConfigurations(filter + "*"),
\* "*" alone for the empty filter
GetAllConfigurationGroupNames(filter) ==
  {n \in DOMAIN groups : IsPrefix(filter, n)}

\* getKeys: the group names n with n.find(groupName) == 0
GetKeys(groupName) ==
  {n \in GetAllConfigurationGroupNames(<<>>) : IsPrefix(groupName, n)}

\* getConfigurationGroupMembers' to_map: the metadata table removed unless
\* includeMetaDataTable
ToMap(members, includeMetaDataTable) ==
  IF includeMetaDataTable THEN members
  ELSE [t \in DOMAIN members \ {MetaTable} |-> members[t]]

(***************************************************************************)
(* The operations                                                         *)
(***************************************************************************)

Init ==
  /\ store = [t \in Tables |-> [v \in Versions |-> Absent]]
  /\ groups = <<>>
  /\ view = [t \in Tables |-> [version |-> NoVersion, data |-> Absent]]
  /\ last = [op |-> "none"]
  /\ filledFrom = [t \in Tables |-> NoVersion]

\* the caller prepares the active view of t (ConfigurationBase)
SetView(t, v, d) ==
  /\ view' = [view EXCEPT ![t] = [version |-> v, data |-> d]]
  /\ last' = [op |-> "setView", t |-> t]
  /\ filledFrom' = [filledFrom EXCEPT ![t] = NoVersion]
  /\ UNCHANGED <<store, groups>>

\* fill(configuration, version): throws when loadVersion fails
Fill(t, v) ==
  /\ \E ok, setsVersion \in BOOLEAN :
       LET loaded == ok /\ store[t][v] # Absent
       IN  /\ view' = IF loaded THEN [view EXCEPT ![t] = FillView(t, v, setsVersion)] ELSE view
           /\ last' = [op |-> "fill", t |-> t, v |-> v, ok |-> loaded]
           /\ filledFrom' = IF loaded THEN [filledFrom EXCEPT ![t] = v] ELSE filledFrom
  /\ UNCHANGED <<store, groups>>

\* saveActiveVersion(configuration, overwrite): throws when the store
\* fails; callers save only views that carry a version
SaveActiveVersion(t, overwrite) ==
  /\ view[t].version # NoVersion
  /\ \E ok \in BOOLEAN :
       /\ store' = Stored(t, overwrite, ok)
       /\ last' = [op |-> "save", t |-> t, v |-> view[t].version,
                   overwrite |-> overwrite, ok |-> Saved(t, overwrite, ok)]
  /\ UNCHANGED <<groups, view, filledFrom>>

\* findLatestVersion(configuration), noexcept
FindLatest(t) ==
  /\ \E ok \in BOOLEAN :
       last' = [op |-> "latest", t |-> t, result |-> FindLatestVersion(t, ok)]
  /\ UNCHANGED <<store, groups, view, filledFrom>>

\* getAllConfigurationNames: listCollections(""), the tables with a
\* collection; throws when the database fails
AllConfigurationNames ==
  /\ \E ok \in BOOLEAN :
       last' = [op |-> "tableNames", ok |-> ok,
                result |-> IF ok THEN {t \in Tables : GetVersions(t, TRUE) # {}} ELSE {}]
  /\ UNCHANGED <<store, groups, view, filledFrom>>

\* getAllConfigurationGroupNames(filter): throws when the database fails
GroupNamesCall(filter) ==
  /\ \E ok \in BOOLEAN :
       last' = [op |-> "groupNames", ok |-> ok,
                result |-> IF ok THEN GetAllConfigurationGroupNames(filter) ELSE {}]
  /\ UNCHANGED <<store, groups, view, filledFrom>>

\* getKeys(groupName): the exception of the name listing propagates
Keys(g) ==
  /\ \E ok \in BOOLEAN :
       last' = [op |-> "keys", g |-> g, ok |-> ok,
                result |-> IF ok THEN GetKeys(g) ELSE {}]
  /\ UNCHANGED <<store, groups, view, filledFrom>>

\* getConfigurationGroupMembers(group, includeMetaDataTable): throws when
\* loadGlobalConfiguration fails or knows no such group
Members(g, inc) ==
  /\ \E ok \in BOOLEAN :
       LET loaded == ok /\ g \in DOMAIN groups
       IN  last' = [op |-> "members", g |-> g, inc |-> inc, ok |-> loaded,
                    result |-> IF loaded THEN ToMap(groups[g], inc) ELSE <<>>]
  /\ UNCHANGED <<store, groups, view, filledFrom>>

\* saveConfigurationGroup(map, group): throws when the store fails
SaveConfigurationGroup(map, g) ==
  /\ \E ok \in BOOLEAN :
       /\ groups' = IF ok THEN (g :> map) @@ groups ELSE groups
       /\ last' = [op |-> "saveGroup", g |-> g, ok |-> ok]
  /\ UNCHANGED <<store, view, filledFrom>>

Next ==
  \/ \E t \in Tables, v \in Versions, d \in Data : SetView(t, v, d)
  \/ \E t \in Tables, v \in Versions : Fill(t, v)
  \/ \E t \in Tables, overwrite \in BOOLEAN : SaveActiveVersion(t, overwrite)
  \/ \E t \in Tables : FindLatest(t)
  \/ AllConfigurationNames
  \/ \E filter \in Filters : GroupNamesCall(filter)
  \/ \E g \in GroupNames : Keys(g)
  \/ \E g \in GroupNames, inc \in BOOLEAN : Members(g, inc)
  \/ \E map \in MemberMaps, g \in GroupNames : SaveConfigurationGroup(map, g)

Spec == Init /\ [][Next]_vars

(***************************************************************************)
(* Properties                                                             *)
(***************************************************************************)

=============================================================================
