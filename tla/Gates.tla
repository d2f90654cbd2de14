-------------------------------- MODULE Gates --------------------------------
(***************************************************************************)
(* The windowed gates, each described by how it asks its upstream for the  *)
(* readings of one Device and what it makes of the answers.  The upstreams *)
(* themselves are external: a gate's query says which bounds they apply    *)
(* and how they cut an answer.                                             *)
(*                                                                         *)
(* The fields of a gate:                                                   *)
(*   parts    what one request covers: the "whole" window, one "property", *)
(*            one calendar "day", or the calendar days of the window that  *)
(*            are "past"; "typed" asks for the properties of one type and, *)
(*            if there is nothing, for those of the other                  *)
(*   low,     whether a request covers the lower and the upper bound of    *)
(*   high     its span                                                     *)
(*   answers  how an answer is limited: not at all, or to the "oldest" or  *)
(*            "newest" Limit rows, or page by page ("page" by number,      *)
(*            "after" by the last instant)                                 *)
(*   wide     whether a row holds all properties of an instant, or one     *)
(*   filters  whether fetch drops what lies outside the window             *)
(*   skips    whether a request that fails is passed over                  *)
(*   policy   how requests are attempted                                   *)
(***************************************************************************)
EXTENDS HttpClient

HttpJson == [parts |-> "whole", low |-> TRUE, high |-> TRUE, answers |-> "all",
             wide |-> TRUE, filters |-> TRUE, skips |-> FALSE, policy |-> HttpPolicy]
HttpJsonPages == [HttpJson EXCEPT !.answers = "page"]
HttpCsv == HttpJson
HttpXml == HttpJson

\* One request per key; startTs is start + 1 ms.
ThingsBoard == [parts |-> "property", low |-> FALSE, high |-> TRUE, answers |-> "after",
                wide |-> FALSE, filters |-> FALSE, skips |-> FALSE, policy |-> BarePolicy]

Zabbix == [parts |-> "typed", low |-> FALSE, high |-> TRUE, answers |-> "oldest",
           wide |-> FALSE, filters |-> FALSE, skips |-> FALSE, policy |-> HttpPolicy]

Prometheus == [parts |-> "property", low |-> TRUE, high |-> TRUE, answers |-> "all",
               wide |-> FALSE, filters |-> TRUE, skips |-> FALSE, policy |-> HttpPolicy]

Obix == [parts |-> "property", low |-> TRUE, high |-> TRUE, answers |-> "oldest",
         wide |-> FALSE, filters |-> TRUE, skips |-> TRUE, policy |-> HttpPolicy]
OpcUa == [Obix EXCEPT !.policy = BarePolicy]

\* The instants of a Period run from its start to before its end.
Entsoe == [parts |-> "whole", low |-> TRUE, high |-> FALSE, answers |-> "all",
           wide |-> FALSE, filters |-> FALSE, skips |-> FALSE, policy |-> HttpPolicy]

NordPool == [parts |-> "day", low |-> TRUE, high |-> TRUE, answers |-> "all",
             wide |-> TRUE, filters |-> FALSE, skips |-> FALSE, policy |-> NordPoolPolicy]
OpenMeteo == [parts |-> "past", low |-> TRUE, high |-> TRUE, answers |-> "all",
              wide |-> TRUE, filters |-> FALSE, skips |-> FALSE, policy |-> OpenMeteoPolicy]

\* lastN counts per attribute, and keeps the newest.
NgsiLd == [parts |-> "whole", low |-> TRUE, high |-> TRUE, answers |-> "newest",
           wide |-> FALSE, filters |-> TRUE, skips |-> FALSE, policy |-> HttpPolicy]

\* The limit counts the common index of all attributes.
QuantumLeap == [parts |-> "whole", low |-> TRUE, high |-> TRUE, answers |-> "oldest",
                wide |-> TRUE, filters |-> TRUE, skips |-> FALSE, policy |-> HttpPolicy]
SthComet == [QuantumLeap EXCEPT !.parts = "property", !.wide = FALSE]

InfluxQL == [parts |-> "whole", low |-> FALSE, high |-> TRUE, answers |-> "all",
             wide |-> FALSE, filters |-> FALSE, skips |-> FALSE, policy |-> HttpPolicy]
\* Flux: range(start, stop) is [start, stop).
Flux == [InfluxQL EXCEPT !.low = TRUE, !.high = FALSE]

\* The query is the operator's; docs/gates.md asks for (:start, :end], in order.
\* A row is an instant with a column per property, or, in the long layout, one
\* reading.
Sql == [parts |-> "whole", low |-> FALSE, high |-> TRUE, answers |-> "oldest",
        wide |-> TRUE, filters |-> FALSE, skips |-> FALSE, policy |-> BarePolicy]
SqlLong == [Sql EXCEPT !.wide = FALSE]
===============================================================================
