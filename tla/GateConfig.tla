------------------------------ MODULE GateConfig ------------------------------
(***************************************************************************)
(* gates.yaml, and what its two readers make of it: the DAG bag, and the   *)
(* command line.                                                           *)
(*                                                                         *)
(* An entry is [key, valid, enabled, builds]: whether GateConfig accepts   *)
(* its fields and its key, and whether the gate's type resolves and its    *)
(* constructor accepts its options.                                        *)
(***************************************************************************)
EXTENDS Naturals, Sequences, FiniteSets

CONSTANT Files      \* the contents gates.yaml may have

ASSUME FilesAssumption ==
  Files \subseteq Seq([key : STRING, valid : BOOLEAN, enabled : BOOLEAN, builds : BOOLEAN])

VARIABLE file

Entries == DOMAIN file
Enabled == {i \in Entries : file[i].enabled}
EntriesOf(key) == {i \in Entries : file[i].key = key}

\* load_config: one entry it does not accept costs the whole file.
FieldsValid == \A i \in Entries : file[i].valid   \* mutation
ConfigLoads ==
  /\ \A i \in Entries : file[i].valid
  /\ \A i, j \in Entries : file[i].key = file[j].key => i = j

\* datagates_dags: every enabled gate that can be built has its DAGs, those of
\* a later entry replacing those of an earlier one of the same key.
Newest(S) == CHOOSE i \in S : \A j \in S : j <= i
Built(key) == {i \in EntriesOf(key) : file[i].enabled /\ file[i].builds}
HasDags(key) == ConfigLoads /\ Built(key) # {}
DagsOf(key) == Newest(Built(key))

\* verify_platform.load_gates: a gate that cannot be built is not passed over.
VerifyLoads == ConfigLoads /\ \A i \in Enabled : file[i].builds

\* The command line builds the first entry of the key, enabled or not.
Oldest(S) == CHOOSE i \in S : \A j \in S : i <= j
GateOf(key) == Oldest(EntriesOf(key))

\* cli.main: a ValueError is not caught, and Python ends with status 1.
CheckExit(key, devices) ==
  IF ~ConfigLoads THEN 1
  ELSE IF EntriesOf(key) = {} THEN 2
  ELSE IF ~file[GateOf(key)].builds \/ devices = {} THEN 1
  ELSE 0

FileInit == file \in Files

\* An operator edits the file; the scheduler and every task parse it anew.
EditFile == file' \in Files /\ file' # file
===============================================================================
