----------------------------- MODULE MCGateFetch -----------------------------
(***************************************************************************)
(* Instances of GateFetch for TLC.                                         *)
(***************************************************************************)
EXTENDS GateFetch

TwoProperties == {1, 2}
Windows == {<<0, 3>>, <<1, 2>>}
AllKinds == {HttpJson, HttpJsonPages, HttpCsv, HttpXml, ThingsBoard, Zabbix, Prometheus, Obix, OpcUa, Entsoe,
             NordPool, OpenMeteo, NgsiLd, QuantumLeap, SthComet, InfluxQL, Flux, Sql, SqlLong}
AnyTypes == {{}, {2}}
AtOnce == {0}
===============================================================================
