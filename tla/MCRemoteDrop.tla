----------------------------- MODULE MCRemoteDrop -----------------------------
(***************************************************************************)
(* Instances of RemoteDrop for TLC.                                        *)
(***************************************************************************)
EXTENDS RemoteDrop

CONSTANTS t1, t2

TwoTasks == {t1, t2}
\* Of one file a first export, the same with a row more, and a correction of
\* the size of the first; another one that is no file of its format.
Export == <<<<t1, 2>>>>
Later == Export \o <<<<t2, 3>>>>
Correction == <<<<t2, 2>>>>
Broken == <<<<t1, 3>>>>
Exports == [a |-> {Export, Later, Correction}, b |-> {Broken}]
Garbage == {Broken}
AllProtocols == {"sftp", "ftp", "none"}
===============================================================================
