----------------------------- MODULE MCCsvExport ------------------------------
(* The instance of CsvExport that TLC checks: see the cfg file.            *)
EXTENDS CsvExport

Table(types, date, time) == [types |-> types, date |-> date, time |-> time]

\* The layout of most tables; one with a symbol; that of currenex_trade_reports
\* in small, with the date and the time further to the right, for a table that has
\* the columns it takes and for one that has not.
MCLayouts == {Table(<<"int64", "string">>, 0, 1),
              Table(<<"string", "symbol", "string">>, 0, 1),
              Table(<<"int64", "double">>, 1, 3),
              Table(<<"int64">>, 1, 3)}
=============================================================================
