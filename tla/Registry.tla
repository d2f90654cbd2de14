------------------------------- MODULE Registry -------------------------------
(***************************************************************************)
(* The registration of one gate's Devices in Orion-LD and InfluxDB: the    *)
(* init DAG, which any number of operators may trigger at once, against    *)
(* edits of gates.yaml, the run DAG, and a broker whose answers get lost.  *)
(*                                                                         *)
(* An entry of the gate's configuration is [props, attrs]: the Device's    *)
(* properties and those of its optional attributes that it gives.          *)
(***************************************************************************)
EXTENDS GateConfig

CONSTANTS
  Key,            \* the gate
  Device,         \* URNs the gate may register
  Property,
  Attr,           \* optional attributes: refBuilding, location, the device_attrs
  TypeOf,         \* entity_type of each Device
  Entry,          \* the entries the configuration may give each Device
  Registration,   \* runs of the init DAG
  MaxAttempts,    \* stop_after_attempt of upsert_entity
  ListLimit,      \* limit of get_all_devices, and of the verification script
  MaxEdits,       \* bound on the edits of one behaviour
  None            \* no item

NotConfigured == [props |-> {}, attrs |-> {}]

ASSUME RegistryAssumption ==
  /\ IsFiniteSet(Device)
  /\ Entry \in [Device -> SUBSET [props : SUBSET Property, attrs : SUBSET Attr]]
  /\ MaxAttempts \in Nat \ {0}
  /\ ListLimit \in Nat \ {0}
  /\ None \notin Device \cup (Device \X Property)
  /\ Device \cap (Device \X Property) = {}

Measurement == Device \X Property
Item == Device \cup Measurement

VARIABLES
  config,         \* what gates.yaml gives each Device
  entity,         \* the Devices in the broker
  summary,        \* their summaries: "absent", "empty", or with a "reading"
  bucket,         \* whether the bucket exists
  docs,           \* what the run DAG last loaded
  pc, plan, todo, item, exists, attempt,  \* the init runs
  edits,
  current,        \* history: init runs without a competitor of another plan
  settled         \* history: a current run has ended and nothing was edited since

brokerVars == <<entity, summary>>
initVars == <<pc, plan, todo, item, exists, attempt>>
historyVars == <<current, settled>>
vars == <<file, config, brokerVars, bucket, docs, initVars, edits, historyVars>>

NoPlan == [d \in Device |-> NotConfigured]
Choices(d) == Entry[d] \cup {NotConfigured}
Configuration == {c \in [Device -> UNION {Choices(d) : d \in Device}] : \A d \in Device : c[d] \in Choices(d)}
Configured == {d \in Device : config[d].props # {}}
InBroker == {d \in Device : entity[d].there}
Active(r) == pc[r] # "idle"

Nowhere == [there |-> FALSE, props |-> {}, attrs |-> {}, watermark |-> FALSE]

Init ==
  /\ FileInit
  /\ config \in Configuration
  /\ entity = [d \in Device |-> Nowhere]
  /\ summary = [m \in Measurement |-> "absent"]
  /\ bucket = FALSE
  /\ docs = [d \in Device |-> {}]
  /\ pc = [r \in Registration |-> "idle"]
  /\ plan = [r \in Registration |-> NoPlan]
  /\ todo = [r \in Registration |-> {}]
  /\ item = [r \in Registration |-> None]
  /\ exists = [r \in Registration |-> FALSE]
  /\ attempt = [r \in Registration |-> 0]
  /\ edits = 0
  /\ current = {}
  /\ settled = FALSE

-------------------------------------------------------------------------------
\* The operator.
EditEntry ==
  /\ edits < MaxEdits
  /\ \E d \in Device : \E e \in Choices(d) \ {config[d]} :
       config' = [config EXCEPT ![d] = e]
  /\ edits' = edits + 1
  /\ current' = {}
  /\ settled' = FALSE
  /\ UNCHANGED <<file, brokerVars, bucket, docs, initVars>>

Edit ==
  /\ edits < MaxEdits
  /\ EditFile
  /\ edits' = edits + 1
  /\ UNCHANGED <<config, brokerVars, bucket, docs, initVars, historyVars>>

-------------------------------------------------------------------------------
\* register(): the Devices, then the bucket and the sentinels, then the
\* summaries.  No gate of the repository has buildings.
SummariesFirst(c) == {m \in Measurement : m[2] \in c[m[1]].props}   \* mutation
DevicesOf(c) == {d \in Device : c[d].props # {}}
SummariesOf(r) == {m \in Measurement : m[2] \in plan[r][m[1]].props}

Trigger(r) ==
  /\ pc[r] = "idle"
  /\ HasDags(Key)
  /\ pc' = [pc EXCEPT ![r] = "devices"]
  /\ plan' = [plan EXCEPT ![r] = config]
  /\ todo' = [todo EXCEPT ![r] = DevicesOf(config)]
  /\ current' = IF \A other \in Registration : Active(other) => plan[other] = config
                THEN current \cup {r} ELSE current \ {r}
  /\ UNCHANGED <<file, config, brokerVars, bucket, docs, item, exists, attempt, edits, settled>>

\* What the broker holds once it has created, or appended to, an entity.
Created(r, i) ==
  IF i \in Device
  THEN /\ entity' = [entity EXCEPT ![i] =
            [there |-> TRUE, props |-> plan[r][i].props, attrs |-> plan[r][i].attrs, watermark |-> FALSE]]
       /\ UNCHANGED summary
  ELSE summary' = [summary EXCEPT ![i] = "empty"] /\ UNCHANGED entity

\* PATCH /attrs changes what is there and adds nothing.
Updated(r, i) ==   \* mutation
  IF i \in Device
  THEN entity' = [entity EXCEPT ![i].props = plan[r][i].props] /\ UNCHANGED summary
  ELSE UNCHANGED brokerVars
Appended(r, i) ==
  IF i \in Device
  THEN /\ entity' = [entity EXCEPT ![i].props = plan[r][i].props, ![i].attrs = @ \cup plan[r][i].attrs]
       /\ UNCHANGED summary
  ELSE UNCHANGED brokerVars

NeverThere(i) == FALSE   \* mutation
There(i) == IF i \in Device THEN entity[i].there ELSE summary[i] # "absent"

Upserting(r) == pc[r] \in {"devices", "summaries"}
\* The order is that of the configuration, the same for every run.
Picked(r) == IF item[r] # None THEN {item[r]} ELSE {i \in todo[r] : i = CHOOSE j \in todo[r] : TRUE}

Ended(r) ==
  /\ pc' = [pc EXCEPT ![r] = "idle"]
  /\ plan' = [plan EXCEPT ![r] = NoPlan]
  /\ todo' = [todo EXCEPT ![r] = {}]
  /\ item' = [item EXCEPT ![r] = None]
  /\ exists' = [exists EXCEPT ![r] = FALSE]
  /\ attempt' = [attempt EXCEPT ![r] = 0]
  /\ current' = current \ {r}

\* The entity is in the broker: on with the next one.
Stored(r, i) ==
  /\ todo' = [todo EXCEPT ![r] = @ \ {i}]
  /\ item' = [item EXCEPT ![r] = None]
  /\ exists' = [exists EXCEPT ![r] = FALSE]
  /\ attempt' = [attempt EXCEPT ![r] = 0]
  /\ UNCHANGED <<pc, plan, current>>

\* A connection error, a timeout or a 5xx: upsert_entity is tried again from
\* its POST, a number of times; then the task fails.
Transient(r, i) ==
  /\ IF attempt[r] + 1 < MaxAttempts
     THEN /\ attempt' = [attempt EXCEPT ![r] = @ + 1]
          /\ item' = [item EXCEPT ![r] = i]
          /\ exists' = [exists EXCEPT ![r] = FALSE]
          /\ UNCHANGED <<pc, plan, todo, current>>
     ELSE Ended(r)

\* POST /entities: 201, or 409 and the attributes are next.
Create(r) ==
  /\ Upserting(r)
  /\ ~exists[r]
  /\ \E i \in Picked(r) :
       \/ /\ ~There(i)
          /\ Created(r, i)
          /\ Stored(r, i)
       \/ /\ ~There(i)
          /\ Created(r, i)
          /\ Transient(r, i)
       \/ /\ There(i)
          /\ item' = [item EXCEPT ![r] = i]
          /\ exists' = [exists EXCEPT ![r] = TRUE]
          /\ UNCHANGED <<brokerVars, pc, plan, todo, attempt, current>>
       \/ /\ Transient(r, i)
          /\ UNCHANGED brokerVars
  /\ UNCHANGED <<file, config, bucket, docs, edits, settled>>

\* POST /entities/<id>/attrs.
AppendAttrs(r) ==
  /\ Upserting(r)
  /\ exists[r]
  /\ \/ /\ Appended(r, item[r])
        /\ Stored(r, item[r])
     \/ /\ Appended(r, item[r])
        /\ Transient(r, item[r])
     \/ /\ Transient(r, item[r])
        /\ UNCHANGED brokerVars
  /\ UNCHANGED <<file, config, bucket, docs, edits, settled>>

\* The broker dislikes the entity, or the worker dies: init has no retries.
Break(r) ==
  /\ Active(r)
  /\ Ended(r)
  /\ UNCHANGED <<file, config, brokerVars, bucket, docs, edits, settled>>

\* ensure_bucket reports a failure and goes on.  So does ensure_measurement,
\* whose sentinels are left out: they are in a field that readers exclude.
Seed(r) ==
  /\ pc[r] = "devices"
  /\ todo[r] = {}
  /\ \/ bucket' = TRUE
     \/ UNCHANGED bucket
  /\ pc' = [pc EXCEPT ![r] = "summaries"]
  /\ todo' = [todo EXCEPT ![r] = SummariesOf(r)]
  /\ UNCHANGED <<file, config, brokerVars, docs, plan, item, exists, attempt, edits, historyVars>>

Finish(r) ==
  /\ pc[r] = "summaries"
  /\ todo[r] = {}
  /\ Ended(r)
  /\ settled' = (settled \/ r \in current)
  /\ UNCHANGED <<file, config, brokerVars, bucket, docs, edits>>

-------------------------------------------------------------------------------
\* What the broker may answer when it is asked for the entities at S: there are
\* no pages, so as many as the limit are all that is ever seen.
Listed(S) ==
  IF Cardinality(S) <= ListLimit THEN {S} ELSE {some \in SUBSET S : Cardinality(some) = ListLimit}

\* The run DAG.  get_all_devices asks for the gate's Devices, of any type.  The
\* documents it loads become one task each, and tasks of different Devices have
\* nothing in common here: one of them is followed at a time.
Load ==
  /\ HasDags(Key)
  /\ \A d \in Device : docs[d] = {}
  /\ \E found \in Listed(InBroker) : \E d \in found : docs' = [docs EXCEPT ![d] = entity[d].props]
  /\ UNCHANGED <<file, config, brokerVars, bucket, initVars, edits, historyVars>>

\* One ingest that finds something new: the bucket if need be, the summaries
\* that are there (the others answer 404, which is logged), the watermark.  Some
\* gates look the fields of a Device up in the configuration and return nothing
\* for one that is gone from it; others go by what Orion-LD says.
Ingest(d) ==
  /\ HasDags(Key)
  /\ docs[d] # {}
  /\ \E measured \in {config[d].props, docs[d]} \ {{}} :
       summary' = [m \in Measurement |->
         IF m[1] = d /\ m[2] \in measured /\ summary[m] # "absent" THEN "reading" ELSE summary[m]]
  /\ bucket' = TRUE
  /\ entity' = [entity EXCEPT ![d].watermark = TRUE]
  /\ docs' = [docs EXCEPT ![d] = {}]
  /\ UNCHANGED <<file, config, initVars, edits, historyVars>>

\* ... or one that finds nothing, or fails.
NothingNew(d) ==
  /\ docs[d] # {}
  /\ docs' = [docs EXCEPT ![d] = {}]
  /\ UNCHANGED <<file, config, brokerVars, bucket, initVars, edits, historyVars>>

RegisterStep(r) == Trigger(r) \/ Create(r) \/ AppendAttrs(r) \/ Break(r) \/ Seed(r) \/ Finish(r)
Next ==
  \/ EditEntry
  \/ Edit
  \/ \E r \in Registration : RegisterStep(r)
  \/ Load
  \/ \E d \in Device : Ingest(d) \/ NothingNew(d)

Spec == Init /\ [][Next]_vars

-------------------------------------------------------------------------------
\* What verify_platform reports of the gate when nothing else is going on.
ModelStatus(found) ==
  IF Cardinality(found) >= Cardinality(Configured) THEN "ok"
  ELSE IF found # {} THEN "warn"
  ELSE "fail"

\* devices_of: of the types that discover() gives now.
ProbedOfDevice == {"Device"}   \* mutation
ProbedTypes == IF Configured = {} THEN {"Device"} ELSE {TypeOf[d] : d \in Configured}
Probed == {d \in InBroker : TypeOf[d] \in ProbedTypes}

BridgeGaps(found) == {m \in Measurement : m[1] \in found /\ m[2] \in entity[m[1]].props /\ summary[m] = "absent"}

\* main: the sections after the first one only if the bucket is there.
VerifyFails(found) ==
  \/ ~VerifyLoads
  \/ ~bucket
  \/ ModelStatus(found) = "fail"
  \/ BridgeGaps(found) # {}

-------------------------------------------------------------------------------
TypeOK ==
  /\ config \in Configuration
  /\ entity \in [Device -> [there : BOOLEAN, props : SUBSET Property, attrs : SUBSET Attr, watermark : BOOLEAN]]
  /\ summary \in [Measurement -> {"absent", "empty", "reading"}]
  /\ bucket \in BOOLEAN
  /\ docs \in [Device -> SUBSET Property]
  /\ pc \in [Registration -> {"idle", "devices", "summaries"}]
  /\ plan \in [Registration -> Configuration]
  /\ todo \in [Registration -> SUBSET Item]
  /\ item \in [Registration -> Item \cup {None}]
  /\ exists \in [Registration -> BOOLEAN]
  /\ attempt \in [Registration -> 0..(MaxAttempts - 1)]
  /\ current \subseteq Registration
  /\ settled \in BOOLEAN

\* A Device is registered as the configuration has it, with attributes it once
\* had besides.
AsConfigured(d) ==
  /\ entity[d].there
  /\ entity[d].props = config[d].props
  /\ config[d].attrs \subseteq entity[d].attrs

\* Once an init run has ended that no run with another configuration overlaps,
\* and until the next edit, every configured Device is registered as configured
\* and has all its summaries: whatever answers were lost, runs broke off or
\* entities were there before (upsert_entity, register).
RegistrationHolds ==
  settled => \A d \in Configured :
    AsConfigured(d) /\ \A p \in config[d].props : summary[<<d, p>>] # "absent"

\* A summary refers to a Device that is in the broker, also between the steps of
\* an init run and after one that broke off.
SummaryHasDevice == \A m \in Measurement : summary[m] # "absent" => entity[m[1]].there

\* The inductive invariant behind these: what is left of an init run's work is
\* work of its plan, what is done is in the broker, and what a current run has
\* done is as configured, since no other run has another plan (register,
\* upsert_entity).
Work(r) ==
  /\ pc[r] = "idle" => todo[r] = {} /\ r \notin current
  /\ pc[r] = "devices" =>
       /\ todo[r] \subseteq DevicesOf(plan[r])
       /\ \A d \in DevicesOf(plan[r]) \ todo[r] : entity[d].there
  /\ pc[r] = "summaries" =>
       /\ todo[r] \subseteq SummariesOf(r)
       /\ \A d \in DevicesOf(plan[r]) : entity[d].there
       /\ \A m \in SummariesOf(r) \ todo[r] : summary[m] # "absent"
  /\ item[r] # None => item[r] \in todo[r]
  /\ exists[r] => item[r] # None /\ There(item[r])

WorkInv == \A r \in Registration : Work(r)

OnePlan == settled \/ current # {} => \A r \in Registration : Active(r) => plan[r] = config

CurrentInv == OnePlan /\ \A r \in current : \A d \in Configured \ todo[r] : AsConfigured(d)

BrokerInv ==
  /\ \A d \in Device : entity[d].watermark \/ docs[d] # {} => entity[d].there
  /\ SummaryHasDevice

RegistryInv == TypeOK /\ WorkInv /\ CurrentInv /\ BrokerInv /\ RegistrationHolds

\* No step of anyone takes back what the run DAG has stored on an entity: an
\* init run that meets it may overwrite its configured attributes only.
InitKeepsState ==
  [][/\ \A d \in Device : entity[d].watermark => entity'[d].watermark
     /\ \A m \in Measurement : summary[m] = "reading" => summary'[m] = "reading"]_vars

\* Devices that are in the broker and no longer configured.
Retired == InBroker \ Configured

\* With no Device retired, which would be counted too: after a registration that
\* holds the verification script has nothing to complain of; and whenever it
\* finds nothing amiss, every configured Device is registered with its summaries
\* and the run DAG ingests it, be there more of them than one listing shows.
NoFalseAlarm ==
  settled /\ bucket /\ VerifyLoads => \A found \in Listed(Probed) : ~VerifyFails(found)
NoGapMissed ==
  \A found \in Listed(Probed) : ~VerifyFails(found) /\ ModelStatus(found) = "ok" =>
    \A d \in Configured :
      /\ entity[d].there /\ \A p \in entity[d].props : summary[<<d, p>>] # "absent"
      /\ \A loaded \in Listed(InBroker) : d \in loaded
VerifyIsRight == Retired = {} => NoFalseAlarm /\ NoGapMissed

\* A gate that `datagates check` approves is, if it is enabled, the one whose
\* DAGs Airflow runs under that key.
CheckAgreesWithDags ==
  CheckExit(Key, Configured) = 0 /\ file[GateOf(Key)].enabled =>
    HasDags(Key) /\ DagsOf(Key) = GateOf(Key)
===============================================================================
