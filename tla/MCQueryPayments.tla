--------------------------- MODULE MCQueryPayments ---------------------------
(* Small instances of QueryPayments. *)
EXTENDS QueryPayments, TLC

\* Runs, payments and top-level queries are interchangeable.
Symmetric ==
  Permutations(Run) \cup Permutations(Uuid) \cup Permutations(QueryRoot)

Query(calls) == [endpoint |-> "query", calls |-> calls]
Stream(entity) == [endpoint |-> "stream", calls |-> {entity}]

TableQueries == {Query({"table"}), Query({"function", "table"})}
SingleQueries == {Query({"function"}), Query({"table"})}
FunctionAndTable == {Stream("function"), Query({"table"})}
TableStreams == {Stream("table")}
=============================================================================
