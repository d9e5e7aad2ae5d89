------------------- MODULE MCDatabaseConfigurationInterface -------------------
(* The database interface with one table, the metadata table, two versions *)
(* and two contents, and group names "A" and "AB", one a prefix of the    *)
(* other.                                                                  *)
EXTENDS DatabaseConfigurationInterface

CONSTANTS t1, meta, d1, d2

MCTables == {t1}
MCVersions == {0, 1}
MCData == {d1, d2}
MCGroupNames == {<<"A">>, <<"A", "B">>}
MCFilters == {<<>>, <<"A", "B">>}
===============================================================================
