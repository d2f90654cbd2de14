---------------------------- MODULE RegistryProofs ----------------------------
(***************************************************************************)
(* RegistryInv is inductive, for any Devices, properties, configurations,  *)
(* edits, attempts and number of init runs at a time.                      *)
(* What the verification script and `datagates check` conclude follows     *)
(* from it and from what gates.yaml may hold.                              *)
(***************************************************************************)
EXTENDS Registry, FiniteSetTheorems, TLAPS

EntityType == [there : BOOLEAN, props : SUBSET Property, attrs : SUBSET Attr, watermark : BOOLEAN]

\* What a plan may hold.
LEMMA PlanType ==
  ASSUME NEW c \in Configuration
  PROVE  /\ \A d \in Device : c[d] \in [props : SUBSET Property, attrs : SUBSET Attr]
         /\ DevicesOf(c) \subseteq Device
<1>1. \A d \in Device : Choices(d) \subseteq [props : SUBSET Property, attrs : SUBSET Attr]
  BY RegistryAssumption DEF Choices, NotConfigured
<1> QED
  BY <1>1 DEF Configuration, DevicesOf

LEMMA NoPlanType == NoPlan \in Configuration
<1>1. \A d \in Device : NotConfigured \in Choices(d)
  BY DEF Choices
<1> QED
  BY <1>1 DEF NoPlan, Configuration

LEMMA Apart ==
  /\ \A d \in Device : d \notin Measurement /\ d # None
  /\ \A m \in Measurement : m \notin Device /\ m # None /\ m[1] \in Device /\ m[2] \in Property
BY RegistryAssumption DEF Measurement

LEMMA RegistryInit == Init => RegistryInv
<1> SUFFICES ASSUME Init PROVE RegistryInv
  OBVIOUS
<1>1. TypeOK
  <2>1. config \in Configuration /\ bucket \in BOOLEAN /\ current \subseteq Registration /\ settled \in BOOLEAN
    BY DEF Init
  <2>2. entity \in [Device -> EntityType]
    BY DEF Init, Nowhere, EntityType
  <2>3. summary \in [Measurement -> {"absent", "empty", "reading"}] /\ docs \in [Device -> SUBSET Property]
    BY DEF Init
  <2>4. /\ pc \in [Registration -> {"idle", "devices", "summaries"}]
        /\ todo \in [Registration -> SUBSET Item]
        /\ item \in [Registration -> Item \cup {None}]
        /\ exists \in [Registration -> BOOLEAN]
    BY DEF Init
  <2>5. plan \in [Registration -> Configuration]
    BY NoPlanType DEF Init
  <2>6. attempt \in [Registration -> 0..(MaxAttempts - 1)]
    BY RegistryAssumption DEF Init
  <2> QED
    BY <2>1, <2>2, <2>3, <2>4, <2>5, <2>6 DEF TypeOK, EntityType
<1>2. WorkInv
  BY DEF Init, WorkInv, Work
<1>3. CurrentInv /\ RegistrationHolds
  BY DEF Init, CurrentInv, OnePlan, RegistrationHolds
<1>4. BrokerInv
  BY Apart DEF Init, BrokerInv, SummaryHasDevice, Nowhere
<1> QED
  BY <1>1, <1>2, <1>3, <1>4 DEF RegistryInv

-------------------------------------------------------------------------------
\* What every step on the broker keeps.
Grown ==
  /\ entity' \in [Device -> EntityType]
  /\ summary' \in [Measurement -> {"absent", "empty", "reading"}]
  /\ \A d \in Device : entity[d].there => entity'[d].there
  /\ \A d \in Device : entity[d].watermark => entity'[d].watermark
  /\ \A m \in Measurement : summary[m] # "absent" => summary'[m] # "absent"
  /\ \A m \in Measurement : summary[m] = "reading" => summary'[m] = "reading"
  /\ \A d \in Device : (settled \/ current # {}) /\ AsConfigured(d) => AsConfigured(d)'

LEMMA SameGrown ==
  ASSUME RegistryInv, UNCHANGED <<config, brokerVars>>
  PROVE  Grown
BY DEF RegistryInv, TypeOK, EntityType, Grown, AsConfigured, brokerVars

\* An item of an init run: one of its plan's Devices, or one of their summaries.
LEMMA ItemOfPlan ==
  ASSUME RegistryInv, NEW r \in Registration, Upserting(r), NEW i \in todo[r]
  PROVE  \/ i \in Device /\ i \in DevicesOf(plan[r]) /\ i \notin Measurement
         \/ i \in Measurement /\ i \notin Device /\ entity[i[1]].there
<1>1. plan[r] \in Configuration
  BY DEF RegistryInv, TypeOK
<1>2. CASE pc[r] = "devices"
  BY <1>1, <1>2, PlanType, Apart DEF RegistryInv, WorkInv, Work
<1>3. CASE pc[r] = "summaries"
  <2>1. i \in SummariesOf(r)
    BY <1>3 DEF RegistryInv, WorkInv, Work
  <2>2. i \in Measurement /\ i[1] \in Device /\ i[2] \in plan[r][i[1]].props
    BY <2>1, Apart DEF SummariesOf
  <2>3. i[1] \in DevicesOf(plan[r])
    BY <2>2 DEF DevicesOf
  <2> QED
    BY <1>3, <2>2, <2>3, Apart DEF RegistryInv, WorkInv, Work
<1> QED
  BY <1>2, <1>3 DEF Upserting

LEMMA CreatedGrows ==
  ASSUME RegistryInv, NEW r \in Registration, Upserting(r), NEW i \in todo[r], ~There(i), Created(r, i),
         UNCHANGED <<config, docs>>
  PROVE  /\ Grown /\ BrokerInv' /\ There(i)'
         /\ i \in Device /\ plan[r] = config => AsConfigured(i)'
<1>0. TypeOK /\ BrokerInv
  BY DEF RegistryInv
<1>1. CASE i \in Device
  <2>1. plan[r][i] \in [props : SUBSET Property, attrs : SUBSET Attr]
    BY <1>0, <1>1, PlanType DEF TypeOK
  <2>2. /\ entity' = [entity EXCEPT ![i] =
              [there |-> TRUE, props |-> plan[r][i].props, attrs |-> plan[r][i].attrs, watermark |-> FALSE]]
        /\ summary' = summary
    BY <1>1 DEF Created
  <2>3. entity \in [Device -> EntityType] /\ summary \in [Measurement -> {"absent", "empty", "reading"}]
    BY <1>0 DEF TypeOK, EntityType
  <2>4. ~entity[i].there /\ ~entity[i].watermark
    BY <1>0, <1>1 DEF There, BrokerInv
  <2>5. entity' \in [Device -> EntityType] /\ entity'[i].there
    BY <2>1, <2>2, <2>3, <1>1 DEF EntityType
  <2>6. \A d \in Device \ {i} : entity'[d] = entity[d]
    BY <2>2, <2>3
  <2>7. Grown
    BY <2>2, <2>3, <2>4, <2>5, <2>6 DEF Grown, AsConfigured
  <2>8. BrokerInv'
    BY <1>0, <2>2, <2>5, <2>6, Apart DEF BrokerInv, SummaryHasDevice
  <2>9. plan[r] = config => AsConfigured(i)'
    BY <2>2, <2>3, <1>1 DEF AsConfigured
  <2> QED
    BY <1>1, <2>5, <2>7, <2>8, <2>9 DEF There
<1>2. CASE i \notin Device
  <2>1. i \in Measurement /\ entity[i[1]].there
    BY <1>2, ItemOfPlan
  <2>2. entity' = entity /\ summary' = [summary EXCEPT ![i] = "empty"]
    BY <1>2 DEF Created
  <2>3. entity \in [Device -> EntityType] /\ summary \in [Measurement -> {"absent", "empty", "reading"}]
    BY <1>0 DEF TypeOK, EntityType
  <2>4. summary[i] = "absent"
    BY <1>2 DEF There
  <2>5. Grown
    BY <2>1, <2>2, <2>3, <2>4 DEF Grown, AsConfigured
  <2>6. BrokerInv'
    BY <1>0, <2>1, <2>2, <2>3, Apart DEF BrokerInv, SummaryHasDevice
  <2> QED
    BY <1>2, <2>1, <2>2, <2>3, <2>5, <2>6 DEF There
<1> QED
  BY <1>1, <1>2

LEMMA AppendedGrows ==
  ASSUME RegistryInv, NEW r \in Registration, Upserting(r), NEW i \in todo[r], There(i), Appended(r, i),
         UNCHANGED <<config, docs>>
  PROVE  /\ Grown /\ BrokerInv' /\ There(i)'
         /\ i \in Device /\ plan[r] = config => AsConfigured(i)'
<1>0. TypeOK /\ BrokerInv /\ CurrentInv
  BY DEF RegistryInv
<1>1. CASE i \in Device
  <2>1. plan[r][i] \in [props : SUBSET Property, attrs : SUBSET Attr]
    BY <1>0, <1>1, PlanType DEF TypeOK
  <2>2. /\ entity' = [entity EXCEPT ![i].props = plan[r][i].props, ![i].attrs = @ \cup plan[r][i].attrs]
        /\ summary' = summary
    BY <1>1 DEF Appended
  <2>3. entity \in [Device -> EntityType] /\ summary \in [Measurement -> {"absent", "empty", "reading"}]
    BY <1>0 DEF TypeOK, EntityType
  <2>4. entity[i].there
    BY <1>1 DEF There
  <2>11. entity[i] \in EntityType
    BY <2>3, <1>1
  <2>12. entity'[i] = [entity[i] EXCEPT !.props = plan[r][i].props, !.attrs = @ \cup plan[r][i].attrs]
    BY <2>2, <2>3, <2>11, <1>1 DEF EntityType
  <2>6. \A d \in Device \ {i} : entity'[d] = entity[d]
    BY <2>2, <2>3
  <2>13. entity' = [d \in Device |-> entity'[d]]
    BY <2>2, <2>3
  <2>14. entity'[i] \in EntityType
    BY <2>1, <2>11, <2>12 DEF EntityType
  <2>5. /\ entity' \in [Device -> EntityType]
        /\ entity'[i].there /\ entity'[i].watermark = entity[i].watermark
        /\ entity'[i].props = plan[r][i].props
        /\ entity'[i].attrs = entity[i].attrs \cup plan[r][i].attrs
    <3>1. entity' \in [Device -> EntityType]
      BY <2>3, <2>6, <2>13, <2>14
    <3> QED
      BY <3>1, <2>4, <2>11, <2>12 DEF EntityType
  <2>7. plan[r] = config => AsConfigured(i)'
    BY <2>5 DEF AsConfigured
  <2>8. settled \/ current # {} => plan[r] = config
    BY <1>0 DEF CurrentInv, OnePlan, Active, Upserting
  <2>9. Grown
    BY <2>2, <2>3, <2>5, <2>6, <2>7, <2>8 DEF Grown, AsConfigured
  <2>10. BrokerInv'
    BY <1>0, <2>2, <2>5, <2>6, Apart DEF BrokerInv, SummaryHasDevice
  <2> QED
    BY <1>1, <2>5, <2>7, <2>9, <2>10 DEF There
<1>2. CASE i \notin Device
  <2>1. UNCHANGED brokerVars
    BY <1>2 DEF Appended
  <2>2. Grown
    BY <2>1, SameGrown
  <2> QED
    BY <1>0, <1>2, <2>1, <2>2 DEF brokerVars, BrokerInv, SummaryHasDevice, There
<1> QED
  BY <1>1, <1>2

-------------------------------------------------------------------------------
\* What a run is not concerned with stays as it is.
LEMMA WorkKept ==
  ASSUME RegistryInv, Grown, NEW s \in Registration,
         pc'[s] = pc[s], plan'[s] = plan[s], todo'[s] = todo[s], item'[s] = item[s], exists'[s] = exists[s],
         s \in current' => s \in current
  PROVE  Work(s)'
<1>1. Work(s) /\ TypeOK
  BY DEF RegistryInv, WorkInv
<1>2. plan[s] \in Configuration /\ item[s] \in Item \cup {None}
  BY <1>1 DEF TypeOK
<1>3. DevicesOf(plan'[s]) = DevicesOf(plan[s]) /\ SummariesOf(s)' = SummariesOf(s)
  BY DEF SummariesOf
<1>4. DevicesOf(plan[s]) \subseteq Device /\ SummariesOf(s) \subseteq Measurement
  BY <1>2, PlanType DEF SummariesOf
<1>5. item[s] # None /\ There(item[s]) => There(item[s])'
  BY <1>2 DEF There, Grown, Item
<1> QED
  BY <1>1, <1>3, <1>4, <1>5 DEF Work, Grown

LEMMA CurrentKept ==
  ASSUME RegistryInv, Grown, UNCHANGED config, NEW s \in current, todo'[s] = todo[s]
  PROVE  \A d \in Configured' \ todo'[s] : AsConfigured(d)'
BY DEF RegistryInv, TypeOK, CurrentInv, Configured, Grown

LEMMA RegistrationKept ==
  ASSUME RegistryInv, Grown, UNCHANGED config, settled' => settled
  PROVE  RegistrationHolds'
<1> SUFFICES ASSUME settled', NEW d \in Configured
             PROVE  AsConfigured(d)' /\ \A p \in config[d].props : summary'[<<d, p>>] # "absent"
  BY DEF RegistrationHolds, Configured, AsConfigured, InBroker
<1>1. d \in Device /\ config[d].props \subseteq Property
  BY PlanType DEF RegistryInv, TypeOK, Configured
<1>2. AsConfigured(d) /\ \A p \in config[d].props : summary[<<d, p>>] # "absent"
  BY DEF RegistryInv, RegistrationHolds
<1>3. \A p \in config[d].props : <<d, p>> \in Measurement
  BY <1>1 DEF Measurement
<1> QED
  BY <1>1, <1>2, <1>3 DEF Grown

\* A step after which the plans are as before and no run is newly current.
LEMMA OnePlanKept ==
  ASSUME RegistryInv, UNCHANGED config, settled' => settled, current' \subseteq current,
         \A s \in Registration : pc'[s] # "idle" => pc[s] # "idle" /\ plan'[s] = plan[s]
  PROVE  OnePlan'
BY DEF RegistryInv, CurrentInv, OnePlan, Active

-------------------------------------------------------------------------------
\* The ways a request of an init run may end.
LEMMA EndedStep ==
  ASSUME RegistryInv, NEW r \in Registration, Ended(r), Grown, BrokerInv', UNCHANGED <<config, docs>>,
         bucket' \in BOOLEAN, settled' = settled
  PROVE  RegistryInv'
<1>0. TypeOK
  BY DEF RegistryInv
<1>1. TypeOK'
  <2>1. /\ pc' \in [Registration -> {"idle", "devices", "summaries"}]
        /\ todo' \in [Registration -> SUBSET Item]
        /\ item' \in [Registration -> Item \cup {None}]
        /\ exists' \in [Registration -> BOOLEAN]
        /\ current' \subseteq Registration
    BY <1>0 DEF TypeOK, Ended
  <2>2. plan' \in [Registration -> Configuration]
    BY <1>0, NoPlanType DEF TypeOK, Ended
  <2>3. attempt' \in [Registration -> 0..(MaxAttempts - 1)]
    <3>1. 0 \in 0..(MaxAttempts - 1)
      BY RegistryAssumption
    <3> QED
      BY <1>0, <3>1 DEF TypeOK, Ended
  <2> QED
    BY <1>0, <2>1, <2>2, <2>3 DEF TypeOK, Grown, EntityType
<1>2. \A s \in Registration \ {r} :
        /\ pc'[s] = pc[s] /\ plan'[s] = plan[s] /\ todo'[s] = todo[s] /\ item'[s] = item[s]
        /\ exists'[s] = exists[s]
  BY <1>0 DEF TypeOK, Ended
<1>3. pc'[r] = "idle" /\ todo'[r] = {} /\ item'[r] = None /\ exists'[r] = FALSE /\ current' = current \ {r}
  BY <1>0 DEF TypeOK, Ended
<1>4. WorkInv'
  <2>1. Work(r)'
    BY <1>3 DEF Work
  <2>2. \A s \in Registration \ {r} : Work(s)'
    BY <1>2, <1>3, WorkKept
  <2> QED
    BY <2>1, <2>2 DEF WorkInv
<1>5. CurrentInv'
  <2>1. OnePlan'
    BY <1>2, <1>3, OnePlanKept
  <2>2. \A s \in current' : \A d \in Configured' \ todo'[s] : AsConfigured(d)'
    BY <1>0, <1>2, <1>3, CurrentKept DEF TypeOK
  <2> QED
    BY <2>1, <2>2 DEF CurrentInv
<1>6. RegistrationHolds'
  BY RegistrationKept
<1> QED
  BY <1>1, <1>4, <1>5, <1>6 DEF RegistryInv

\* The entity is in the broker, as the run has it.
LEMMA StoredStep ==
  ASSUME RegistryInv, NEW r \in Registration, Upserting(r), NEW i \in todo[r], Stored(r, i), Grown, BrokerInv',
         There(i)', i \in Device /\ plan[r] = config => AsConfigured(i)',
         UNCHANGED <<config, docs, bucket, settled>>
  PROVE  RegistryInv'
<1>0. TypeOK /\ Work(r) /\ OnePlan
  BY DEF RegistryInv, WorkInv, CurrentInv
<1>1. TypeOK'
  <2>1. /\ todo' \in [Registration -> SUBSET Item]
        /\ item' \in [Registration -> Item \cup {None}]
        /\ exists' \in [Registration -> BOOLEAN]
    BY <1>0 DEF TypeOK, Stored
  <2>3. attempt' \in [Registration -> 0..(MaxAttempts - 1)]
    <3>1. 0 \in 0..(MaxAttempts - 1)
      BY RegistryAssumption
    <3> QED
      BY <1>0, <3>1 DEF TypeOK, Stored
  <2> QED
    BY <1>0, <2>1, <2>3 DEF TypeOK, Grown, EntityType, Stored
<1>2. \A s \in Registration \ {r} : todo'[s] = todo[s] /\ item'[s] = item[s] /\ exists'[s] = exists[s]
  BY <1>0 DEF TypeOK, Stored
<1>3. /\ todo'[r] = todo[r] \ {i} /\ item'[r] = None /\ exists'[r] = FALSE
      /\ current' = current /\ pc' = pc /\ plan' = plan
  BY <1>0 DEF TypeOK, Stored
<1>4. WorkInv'
  <2>1. Work(r)'
    <3>1. DevicesOf(plan'[r]) = DevicesOf(plan[r]) /\ SummariesOf(r)' = SummariesOf(r)
      BY <1>3 DEF SummariesOf
    <3>2. DevicesOf(plan[r]) \subseteq Device /\ SummariesOf(r) \subseteq Measurement
      BY <1>0, PlanType DEF TypeOK, SummariesOf
    <3>3. CASE pc[r] = "devices"
      <4>1. todo'[r] \subseteq DevicesOf(plan[r])
        BY <1>0, <1>3, <3>3 DEF Work
      <4>2. ASSUME NEW d \in DevicesOf(plan[r]) \ todo'[r] PROVE entity'[d].there
        BY <1>0, <1>3, <3>2, <3>3 DEF Work, Grown, There
      <4> QED
        BY <1>3, <3>1, <3>3, <4>1, <4>2 DEF Work
    <3>4. CASE pc[r] = "summaries"
      <4>1. todo'[r] \subseteq SummariesOf(r) /\ \A d \in DevicesOf(plan[r]) : entity'[d].there
        BY <1>0, <1>3, <3>2, <3>4 DEF Work, Grown
      <4>2. ASSUME NEW m \in SummariesOf(r) \ todo'[r] PROVE summary'[m] # "absent"
        BY <1>0, <1>3, <3>2, <3>4, Apart DEF Work, Grown, There
      <4> QED
        BY <1>3, <3>1, <3>4, <4>1, <4>2 DEF Work
    <3> QED
      BY <3>3, <3>4 DEF Upserting
  <2>2. \A s \in Registration \ {r} : Work(s)'
    BY <1>2, <1>3, WorkKept
  <2> QED
    BY <2>1, <2>2 DEF WorkInv
<1>5. CurrentInv'
  <2>1. OnePlan'
    BY <1>0, <1>3 DEF OnePlan, Active
  <2>2. \A s \in current' \ {r} : \A d \in Configured' \ todo'[s] : AsConfigured(d)'
    BY <1>0, <1>2, <1>3, CurrentKept DEF TypeOK
  <2>3. ASSUME r \in current PROVE \A d \in Configured' \ todo'[r] : AsConfigured(d)'
    <3>1. plan[r] = config
      BY <1>0, <2>3 DEF OnePlan, Active, Upserting
    <3>2. \A d \in Configured' \ todo[r] : d \in Device /\ AsConfigured(d)
      BY <2>3 DEF RegistryInv, CurrentInv, Configured
    <3> QED
      BY <1>3, <2>3, <3>1, <3>2 DEF Grown, Configured
  <2> QED
    BY <1>3, <2>1, <2>2, <2>3 DEF CurrentInv
<1>6. RegistrationHolds'
  BY RegistrationKept
<1> QED
  BY <1>1, <1>4, <1>5, <1>6 DEF RegistryInv

\* A step after which the run is still at the same item.
LEMMA SameItemStep ==
  ASSUME RegistryInv, NEW r \in Registration, Upserting(r), NEW i \in todo[r], Grown, BrokerInv',
         item' = [item EXCEPT ![r] = i],
         exists' \in [Registration -> BOOLEAN], exists'[r] => There(i)',
         \A s \in Registration \ {r} : exists'[s] = exists[s],
         attempt' \in [Registration -> 0..(MaxAttempts - 1)],
         UNCHANGED <<pc, plan, todo, current, config, docs, bucket, settled>>
  PROVE  RegistryInv'
<1>0. TypeOK /\ Work(r) /\ OnePlan
  BY DEF RegistryInv, WorkInv, CurrentInv
<1>1. TypeOK'
  BY <1>0 DEF TypeOK, Grown, EntityType
<1>2. \A s \in Registration \ {r} : item'[s] = item[s]
  BY <1>0 DEF TypeOK
<1>3. item'[r] = i
  BY <1>0 DEF TypeOK
<1>4. WorkInv'
  <2>1. Work(r)'
    <3>1. DevicesOf(plan'[r]) = DevicesOf(plan[r]) /\ SummariesOf(r)' = SummariesOf(r)
      BY DEF SummariesOf
    <3>2. DevicesOf(plan[r]) \subseteq Device /\ SummariesOf(r) \subseteq Measurement
      BY <1>0, PlanType DEF TypeOK, SummariesOf
    <3>3. i # None
      BY <1>0, Apart DEF TypeOK, Item
    <3> QED
      BY <1>0, <1>3, <3>1, <3>2, <3>3 DEF Work, Grown
  <2>2. \A s \in Registration \ {r} : Work(s)'
    BY <1>2, WorkKept
  <2> QED
    BY <2>1, <2>2 DEF WorkInv
<1>5. CurrentInv'
  <2>1. OnePlan'
    BY <1>0 DEF OnePlan, Active
  <2>2. \A s \in current' : \A d \in Configured' \ todo'[s] : AsConfigured(d)'
    BY <1>0, CurrentKept DEF TypeOK
  <2> QED
    BY <2>1, <2>2 DEF CurrentInv
<1>6. RegistrationHolds'
  BY RegistrationKept
<1> QED
  BY <1>1, <1>4, <1>5, <1>6 DEF RegistryInv

-------------------------------------------------------------------------------
\* The steps of an init run.
LEMMA TransientStep ==
  ASSUME RegistryInv, NEW r \in Registration, Upserting(r), NEW i \in todo[r], Transient(r, i), Grown, BrokerInv',
         UNCHANGED <<config, docs, bucket, settled>>
  PROVE  RegistryInv'
<1>0. TypeOK
  BY DEF RegistryInv
<1>1. CASE attempt[r] + 1 < MaxAttempts
  <2>1. /\ attempt' = [attempt EXCEPT ![r] = @ + 1]
        /\ item' = [item EXCEPT ![r] = i]
        /\ exists' = [exists EXCEPT ![r] = FALSE]
        /\ UNCHANGED <<pc, plan, todo, current>>
    BY <1>1 DEF Transient
  <2>2. attempt' \in [Registration -> 0..(MaxAttempts - 1)]
    <3>1. attempt \in [Registration -> 0..(MaxAttempts - 1)] /\ MaxAttempts \in Nat
      BY <1>0, RegistryAssumption DEF TypeOK
    <3>2. attempt[r] + 1 \in 0..(MaxAttempts - 1)
      BY <1>1, <3>1
    <3> QED
      BY <2>1, <3>1, <3>2
  <2>3. /\ exists' \in [Registration -> BOOLEAN] /\ ~exists'[r]
        /\ \A s \in Registration \ {r} : exists'[s] = exists[s]
    BY <1>0, <2>1 DEF TypeOK
  <2> QED
    BY <2>1, <2>2, <2>3, SameItemStep
<1>2. CASE ~(attempt[r] + 1 < MaxAttempts)
  <2>1. Ended(r)
    BY <1>2 DEF Transient
  <2> QED
    BY <1>0, <2>1, EndedStep DEF TypeOK
<1> QED
  BY <1>1, <1>2

LEMMA PickedIsTodo ==
  ASSUME RegistryInv, NEW r \in Registration
  PROVE  Picked(r) \subseteq todo[r]
BY DEF Picked, RegistryInv, WorkInv, Work

LEMMA CreateStep ==
  ASSUME RegistryInv, NEW r \in Registration, Create(r)
  PROVE  RegistryInv'
<1>0. TypeOK /\ BrokerInv /\ Upserting(r) /\ UNCHANGED <<config, docs, bucket, settled>>
  BY DEF RegistryInv, Create
<1>1. PICK i \in Picked(r) :
        \/ ~There(i) /\ Created(r, i) /\ Stored(r, i)
        \/ ~There(i) /\ Created(r, i) /\ Transient(r, i)
        \/ /\ There(i)
           /\ item' = [item EXCEPT ![r] = i]
           /\ exists' = [exists EXCEPT ![r] = TRUE]
           /\ UNCHANGED <<brokerVars, pc, plan, todo, attempt, current>>
        \/ Transient(r, i) /\ UNCHANGED brokerVars
  BY DEF Create
<1>2. i \in todo[r]
  BY PickedIsTodo
<1>3. ASSUME UNCHANGED brokerVars PROVE Grown /\ BrokerInv'
  BY <1>0, <1>3, SameGrown DEF BrokerInv, SummaryHasDevice, brokerVars
<1>4. CASE ~There(i) /\ Created(r, i) /\ Stored(r, i)
  BY <1>0, <1>2, <1>4, CreatedGrows, StoredStep
<1>5. CASE ~There(i) /\ Created(r, i) /\ Transient(r, i)
  BY <1>0, <1>2, <1>5, CreatedGrows, TransientStep
<1>6. CASE /\ There(i)
           /\ item' = [item EXCEPT ![r] = i]
           /\ exists' = [exists EXCEPT ![r] = TRUE]
           /\ UNCHANGED <<brokerVars, pc, plan, todo, attempt, current>>
  <2>1. /\ exists' \in [Registration -> BOOLEAN]
        /\ \A s \in Registration \ {r} : exists'[s] = exists[s]
    BY <1>0, <1>6 DEF TypeOK
  <2>2. There(i)'
    BY <1>6 DEF There, brokerVars
  <2> QED
    BY <1>0, <1>2, <1>3, <1>6, <2>1, <2>2, SameItemStep DEF TypeOK
<1>7. CASE Transient(r, i) /\ UNCHANGED brokerVars
  BY <1>0, <1>2, <1>3, <1>7, TransientStep
<1> QED
  BY <1>1, <1>4, <1>5, <1>6, <1>7

LEMMA AppendStep ==
  ASSUME RegistryInv, NEW r \in Registration, AppendAttrs(r)
  PROVE  RegistryInv'
<1>0. TypeOK /\ BrokerInv /\ Upserting(r) /\ UNCHANGED <<config, docs, bucket, settled>>
  BY DEF RegistryInv, AppendAttrs
<1>1. PICK i \in todo[r] : i = item[r] /\ There(i)
  BY DEF RegistryInv, WorkInv, Work, AppendAttrs
<1>2. \/ Appended(r, i) /\ Stored(r, i)
      \/ Appended(r, i) /\ Transient(r, i)
      \/ Transient(r, i) /\ UNCHANGED brokerVars
  BY <1>1 DEF AppendAttrs
<1>3. CASE Appended(r, i) /\ Stored(r, i)
  BY <1>0, <1>1, <1>3, AppendedGrows, StoredStep
<1>4. CASE Appended(r, i) /\ Transient(r, i)
  BY <1>0, <1>1, <1>4, AppendedGrows, TransientStep
<1>5. CASE Transient(r, i) /\ UNCHANGED brokerVars
  <2>1. Grown /\ BrokerInv'
    BY <1>0, <1>5, SameGrown DEF BrokerInv, SummaryHasDevice, brokerVars
  <2> QED
    BY <1>0, <1>1, <1>5, <2>1, TransientStep
<1> QED
  BY <1>2, <1>3, <1>4, <1>5

LEMMA BreakStep ==
  ASSUME RegistryInv, NEW r \in Registration, Break(r)
  PROVE  RegistryInv'
<1>1. Ended(r) /\ UNCHANGED <<config, brokerVars, bucket, docs, settled>>
  BY DEF Break
<1>2. Grown /\ BrokerInv'
  BY <1>1, SameGrown DEF RegistryInv, BrokerInv, SummaryHasDevice, brokerVars
<1> QED
  BY <1>1, <1>2, EndedStep DEF RegistryInv, TypeOK

LEMMA TriggerStep ==
  ASSUME RegistryInv, NEW r \in Registration, Trigger(r)
  PROVE  RegistryInv'
<1>0. TypeOK /\ BrokerInv /\ Work(r)
  BY DEF RegistryInv, WorkInv
<1>1. Grown /\ BrokerInv'
  BY <1>0, SameGrown DEF Trigger, BrokerInv, SummaryHasDevice, brokerVars
<1>2. DevicesOf(config) \subseteq Device
  BY <1>0, PlanType DEF TypeOK
<1>3. TypeOK'
  <2>1. todo' \in [Registration -> SUBSET Item] /\ plan' \in [Registration -> Configuration]
    BY <1>0, <1>2 DEF TypeOK, Trigger, Item
  <2>2. pc' \in [Registration -> {"idle", "devices", "summaries"}] /\ current' \subseteq Registration
    BY <1>0 DEF TypeOK, Trigger
  <2> QED
    BY <1>0, <1>1, <2>1, <2>2 DEF TypeOK, Trigger, Grown, EntityType, brokerVars
<1>4. \A s \in Registration \ {r} : pc'[s] = pc[s] /\ plan'[s] = plan[s] /\ todo'[s] = todo[s]
  BY <1>0 DEF TypeOK, Trigger
<1>5. pc[r] = "idle" /\ pc'[r] = "devices" /\ plan'[r] = config /\ todo'[r] = DevicesOf(config)
  BY <1>0 DEF TypeOK, Trigger
<1>6. WorkInv'
  <2>1. todo[r] = {} /\ item'[r] = None /\ ~exists'[r]
    BY <1>0, <1>5 DEF Work, Trigger
  <2>2. Work(r)'
    BY <1>5, <2>1 DEF Work
  <2>3. \A s \in Registration \ {r} : Work(s)'
    BY <1>1, <1>4, WorkKept DEF Trigger
  <2> QED
    BY <2>2, <2>3 DEF WorkInv
<1>7. CurrentInv'
  <2>1. OnePlan'
    BY <1>0, <1>4, <1>5 DEF RegistryInv, CurrentInv, OnePlan, Trigger, Active
  <2>2. ASSUME NEW s \in current' \ {r} PROVE \A d \in Configured' \ todo'[s] : AsConfigured(d)'
    <3>1. s \in current /\ s \in Registration /\ todo'[s] = todo[s]
      BY <1>0, <1>4 DEF TypeOK, Trigger
    <3> QED
      BY <1>1, <3>1, CurrentKept DEF Trigger
  <2>3. Configured' \ todo'[r] = {}
    BY <1>5 DEF Trigger, Configured, DevicesOf
  <2> QED
    BY <2>1, <2>2, <2>3 DEF CurrentInv
<1>8. RegistrationHolds'
  BY <1>1, RegistrationKept DEF Trigger
<1> QED
  BY <1>1, <1>3, <1>6, <1>7, <1>8 DEF RegistryInv

LEMMA SeedStep ==
  ASSUME RegistryInv, NEW r \in Registration, Seed(r)
  PROVE  RegistryInv'
<1>0. TypeOK /\ BrokerInv /\ Work(r) /\ OnePlan
  BY DEF RegistryInv, WorkInv, CurrentInv
<1>1. Grown /\ BrokerInv'
  BY <1>0, SameGrown DEF Seed, BrokerInv, SummaryHasDevice, brokerVars
<1>2. SummariesOf(r) \subseteq Measurement /\ DevicesOf(plan[r]) \subseteq Device
  BY <1>0, PlanType DEF TypeOK, SummariesOf
<1>3. TypeOK'
  <2>1. todo' \in [Registration -> SUBSET Item]
    BY <1>0, <1>2 DEF TypeOK, Seed, Item
  <2>2. pc' \in [Registration -> {"idle", "devices", "summaries"}] /\ bucket' \in BOOLEAN
    BY <1>0 DEF TypeOK, Seed
  <2> QED
    BY <1>0, <1>1, <2>1, <2>2 DEF TypeOK, Seed, Grown, EntityType, historyVars
<1>4. \A s \in Registration \ {r} : pc'[s] = pc[s] /\ todo'[s] = todo[s]
  BY <1>0 DEF TypeOK, Seed
<1>5. pc[r] = "devices" /\ pc'[r] = "summaries" /\ todo[r] = {} /\ todo'[r] = SummariesOf(r)
  BY <1>0 DEF TypeOK, Seed
<1>6. WorkInv'
  <2>1. item[r] = None /\ ~exists[r] /\ \A d \in DevicesOf(plan[r]) : entity[d].there
    BY <1>0, <1>5 DEF Work
  <2>2. SummariesOf(r)' = SummariesOf(r) /\ DevicesOf(plan'[r]) = DevicesOf(plan[r])
    BY DEF SummariesOf, Seed
  <2>3. Work(r)'
    BY <1>1, <1>2, <1>5, <2>1, <2>2 DEF Work, Seed, Grown
  <2>4. \A s \in Registration \ {r} : Work(s)'
    BY <1>1, <1>4, WorkKept DEF Seed, historyVars
  <2> QED
    BY <2>3, <2>4 DEF WorkInv
<1>7. CurrentInv'
  <2>1. OnePlan'
    BY <1>0, <1>4, <1>5 DEF OnePlan, Seed, Active, historyVars
  <2>2. \A s \in current \ {r} : \A d \in Configured' \ todo'[s] : AsConfigured(d)'
    BY <1>0, <1>1, <1>4, CurrentKept DEF Seed, TypeOK
  <2>3. ASSUME r \in current PROVE \A d \in Configured' : AsConfigured(d)'
    <3>1. \A d \in Configured' : d \in Device /\ AsConfigured(d)
      BY <1>5, <2>3 DEF RegistryInv, CurrentInv, Configured, Seed
    <3> QED
      BY <1>1, <2>3, <3>1 DEF Grown
  <2> QED
    BY <2>1, <2>2, <2>3 DEF CurrentInv, Seed, historyVars
<1>8. RegistrationHolds'
  BY <1>1, RegistrationKept DEF Seed, historyVars
<1> QED
  BY <1>1, <1>3, <1>6, <1>7, <1>8 DEF RegistryInv

\* The end of a current run is what RegistrationHolds speaks of.
LEMMA FinishStep ==
  ASSUME RegistryInv, NEW r \in Registration, Finish(r)
  PROVE  RegistryInv'
<1>0. TypeOK /\ BrokerInv /\ Work(r) /\ CurrentInv
  BY DEF RegistryInv, WorkInv
<1>1. Ended(r) /\ UNCHANGED <<config, brokerVars, bucket, docs>>
  BY DEF Finish
<1>2. Grown /\ BrokerInv'
  BY <1>0, <1>1, SameGrown DEF BrokerInv, SummaryHasDevice, brokerVars
<1>3. CASE r \notin current
  BY <1>0, <1>1, <1>2, <1>3, EndedStep DEF Finish, TypeOK
<1>4. CASE r \in current
  <2>1. plan[r] = config /\ pc[r] = "summaries" /\ todo[r] = {}
    BY <1>0, <1>4 DEF CurrentInv, OnePlan, Active, Finish
  <2>2. ASSUME NEW d \in Configured
        PROVE  AsConfigured(d)' /\ \A p \in config[d].props : summary'[<<d, p>>] # "absent"
    <3>1. AsConfigured(d) /\ d \in Device
      BY <1>0, <1>4, <2>1 DEF CurrentInv, Configured
    <3>2. \A p \in config[d].props : <<d, p>> \in SummariesOf(r)
      <4>1. config[d].props \subseteq Property
        BY <1>0, <3>1, PlanType DEF TypeOK
      <4> QED
        BY <2>1, <3>1, <4>1 DEF SummariesOf, Measurement
    <3> QED
      BY <1>0, <1>1, <2>1, <3>1, <3>2 DEF Work, AsConfigured, brokerVars
  <2>3. RegistrationHolds'
    BY <1>1, <2>2 DEF RegistrationHolds, Configured, AsConfigured, InBroker
  <2>4. \A s \in Registration \ {r} :
          /\ pc'[s] = pc[s] /\ plan'[s] = plan[s] /\ todo'[s] = todo[s] /\ item'[s] = item[s]
          /\ exists'[s] = exists[s]
    BY <1>0, <1>1 DEF TypeOK, Ended
  <2>5. pc'[r] = "idle" /\ todo'[r] = {} /\ item'[r] = None /\ exists'[r] = FALSE /\ current' = current \ {r}
    BY <1>0, <1>1 DEF TypeOK, Ended
  <2>6. TypeOK'
    <3>1. /\ pc' \in [Registration -> {"idle", "devices", "summaries"}]
          /\ todo' \in [Registration -> SUBSET Item]
          /\ item' \in [Registration -> Item \cup {None}]
          /\ exists' \in [Registration -> BOOLEAN]
          /\ current' \subseteq Registration
      BY <1>0, <1>1 DEF TypeOK, Ended
    <3>2. plan' \in [Registration -> Configuration]
      BY <1>0, <1>1, NoPlanType DEF TypeOK, Ended
    <3>3. 0 \in 0..(MaxAttempts - 1)
      BY RegistryAssumption
    <3>4. attempt' \in [Registration -> 0..(MaxAttempts - 1)]
      BY <1>0, <1>1, <3>3 DEF TypeOK, Ended
    <3>5. settled' \in BOOLEAN
      BY <1>0 DEF Finish, TypeOK
    <3> QED
      BY <1>0, <1>1, <1>2, <3>1, <3>2, <3>4, <3>5 DEF TypeOK, Grown, EntityType, brokerVars
  <2>7. WorkInv'
    <3>1. Work(r)'
      BY <2>5 DEF Work
    <3>2. \A s \in Registration \ {r} : Work(s)'
      BY <1>2, <2>4, <2>5, WorkKept
    <3> QED
      BY <3>1, <3>2 DEF WorkInv
  <2>8. CurrentInv'
    <3>1. OnePlan'
      BY <1>0, <1>1, <1>4, <2>4, <2>5 DEF CurrentInv, OnePlan, Active
    <3>2. \A s \in current' : \A d \in Configured' \ todo'[s] : AsConfigured(d)'
      BY <1>0, <1>1, <1>2, <2>4, <2>5, CurrentKept DEF TypeOK
    <3> QED
      BY <3>1, <3>2 DEF CurrentInv
  <2> QED
    BY <1>2, <2>3, <2>6, <2>7, <2>8 DEF RegistryInv
<1> QED
  BY <1>3, <1>4

-------------------------------------------------------------------------------
\* The operator and the run DAG.
LEMMA OperatorStep ==
  ASSUME RegistryInv, EditEntry \/ Edit
  PROVE  RegistryInv'
<1>0. TypeOK /\ BrokerInv /\ WorkInv
  BY DEF RegistryInv
<1>1. CASE EditEntry
  <2>1. TypeOK'
    <3>1. config' \in Configuration
      <4>1. PICK d \in Device : \E e \in Choices(d) : config' = [config EXCEPT ![d] = e]
        BY <1>1 DEF EditEntry
      <4>2. PICK e \in Choices(d) : config' = [config EXCEPT ![d] = e]
        BY <4>1
      <4>3. config \in [Device -> UNION {Choices(c) : c \in Device}] /\ \A c \in Device : config[c] \in Choices(c)
        BY <1>0 DEF TypeOK, Configuration
      <4>4. config' \in [Device -> UNION {Choices(c) : c \in Device}] /\ \A c \in Device : config'[c] \in Choices(c)
        BY <4>2, <4>3
      <4> QED
        BY <4>4 DEF Configuration
    <3> QED
      BY <1>0, <1>1, <3>1 DEF EditEntry, TypeOK, brokerVars, initVars
  <2>2. \A r \in Registration : SummariesOf(r)' = SummariesOf(r) /\ (item[r] # None => There(item[r])' = There(item[r]))
    BY <1>1 DEF EditEntry, SummariesOf, There, brokerVars, initVars
  <2>3. WorkInv'
    BY <1>0, <1>1, <2>2 DEF EditEntry, WorkInv, Work, There, brokerVars, initVars
  <2>4. CurrentInv' /\ RegistrationHolds'
    BY <1>1 DEF EditEntry, CurrentInv, OnePlan, RegistrationHolds
  <2>5. BrokerInv'
    BY <1>0, <1>1 DEF EditEntry, BrokerInv, SummaryHasDevice, brokerVars
  <2> QED
    BY <2>1, <2>3, <2>4, <2>5 DEF RegistryInv
<1>2. CASE Edit
  <2>1. UNCHANGED <<config, brokerVars, bucket, docs, initVars, historyVars>>
    BY <1>2 DEF Edit
  <2> QED
    BY <2>1 DEF RegistryInv, TypeOK, WorkInv, Work, There, SummariesOf, CurrentInv, OnePlan, Active, Configured,
                AsConfigured, BrokerInv, SummaryHasDevice, RegistrationHolds, InBroker, brokerVars, initVars, historyVars
<1> QED
  BY <1>1, <1>2

\* No init run has a hand in a step of the run DAG.
LEMMA RunKept ==
  ASSUME RegistryInv, Grown, BrokerInv', docs' \in [Device -> SUBSET Property], bucket' \in BOOLEAN,
         UNCHANGED <<config, initVars, historyVars>>
  PROVE  RegistryInv'
<1>0. TypeOK /\ OnePlan
  BY DEF RegistryInv, CurrentInv
<1>1. TypeOK'
  BY <1>0 DEF TypeOK, Grown, EntityType, initVars, historyVars
<1>2. WorkInv'
  BY WorkKept DEF WorkInv, initVars, historyVars
<1>3. CurrentInv'
  <2>1. OnePlan'
    BY <1>0 DEF OnePlan, Active, initVars, historyVars
  <2>2. \A s \in current' : \A d \in Configured' \ todo'[s] : AsConfigured(d)'
    BY CurrentKept DEF initVars, historyVars
  <2> QED
    BY <2>1, <2>2 DEF CurrentInv
<1>4. RegistrationHolds'
  BY RegistrationKept DEF historyVars
<1> QED
  BY <1>1, <1>2, <1>3, <1>4 DEF RegistryInv

LEMMA LoadStep ==
  ASSUME RegistryInv, Load
  PROVE  RegistryInv'
<1>0. TypeOK /\ BrokerInv
  BY DEF RegistryInv
<1>1. PICK d \in InBroker : docs' = [docs EXCEPT ![d] = entity[d].props]
  BY DEF Load, Listed
<1>2. d \in Device /\ entity[d].there
  BY DEF InBroker
<1>3. docs' \in [Device -> SUBSET Property]
  BY <1>0, <1>1, <1>2 DEF TypeOK
<1>4. Grown
  BY SameGrown DEF Load
<1>5. BrokerInv'
  BY <1>0, <1>1, <1>2 DEF TypeOK, BrokerInv, SummaryHasDevice, Load, brokerVars
<1> QED
  BY <1>0, <1>3, <1>4, <1>5, RunKept DEF Load, TypeOK

LEMMA IngestStep ==
  ASSUME RegistryInv, NEW d \in Device, Ingest(d)
  PROVE  RegistryInv' /\ Grown
<1>0. TypeOK /\ BrokerInv
  BY DEF RegistryInv
<1>1. PICK measured : summary' = [m \in Measurement |->
        IF m[1] = d /\ m[2] \in measured /\ summary[m] # "absent" THEN "reading" ELSE summary[m]]
  BY DEF Ingest
<1>2. entity[d].there /\ entity \in [Device -> EntityType]
  BY <1>0 DEF Ingest, BrokerInv, TypeOK, EntityType
<1>3. entity' = [entity EXCEPT ![d].watermark = TRUE] /\ docs' = [docs EXCEPT ![d] = {}]
  BY DEF Ingest
<1>4. entity' \in [Device -> EntityType]
  BY <1>2, <1>3 DEF EntityType
<1>5. \A e \in Device :
        /\ entity[e].there => entity'[e].there
        /\ entity'[e].props = entity[e].props
        /\ entity'[e].attrs = entity[e].attrs
        /\ entity[e].watermark => entity'[e].watermark
        /\ entity'[e].watermark => e = d \/ entity[e].watermark
  BY <1>2, <1>3 DEF EntityType
<1>6. Grown
  <2>1. summary' \in [Measurement -> {"absent", "empty", "reading"}]
    BY <1>0, <1>1 DEF TypeOK
  <2>2. \A m \in Measurement :
          /\ summary[m] # "absent" => summary'[m] # "absent"
          /\ summary[m] = "reading" => summary'[m] = "reading"
    BY <1>1
  <2>3. \A e \in Device : AsConfigured(e) => AsConfigured(e)'
    BY <1>5 DEF AsConfigured, Ingest
  <2>4. \A e \in Device : entity[e].there => entity'[e].there
    BY <1>5
  <2>5. \A e \in Device : entity[e].watermark => entity'[e].watermark
    BY <1>5
  <2> QED
    BY <1>4, <2>1, <2>2, <2>3, <2>4, <2>5 DEF Grown
<1>7. BrokerInv'
  <2>1. \A m \in Measurement : summary'[m] # "absent" => summary[m] # "absent"
    BY <1>1
  <2>2. \A e \in Device : docs'[e] # {} => docs[e] # {}
    BY <1>0, <1>3 DEF TypeOK
  <2>3. \A e \in Device : entity'[e].watermark \/ docs'[e] # {} => entity'[e].there
    <3>1. ASSUME NEW e \in Device, entity'[e].watermark PROVE entity'[e].there
      BY <1>0, <1>2, <1>5, <3>1 DEF BrokerInv
    <3>2. ASSUME NEW e \in Device, docs'[e] # {} PROVE entity'[e].there
      BY <1>0, <1>5, <2>2, <3>2 DEF BrokerInv
    <3> QED
      BY <3>1, <3>2
  <2>4. \A m \in Measurement : summary'[m] # "absent" => entity'[m[1]].there
    <3>1. ASSUME NEW m \in Measurement, summary'[m] # "absent" PROVE entity'[m[1]].there
      <4>1. m[1] \in Device
        BY Apart
      <4> QED
        BY <1>0, <1>5, <2>1, <3>1, <4>1 DEF BrokerInv, SummaryHasDevice
    <3> QED
      BY <3>1
  <2> QED
    BY <2>3, <2>4 DEF BrokerInv, SummaryHasDevice
<1>8. docs' \in [Device -> SUBSET Property] /\ bucket' \in BOOLEAN
  BY <1>0, <1>3 DEF TypeOK, Ingest
<1> QED
  BY <1>6, <1>7, <1>8, RunKept DEF Ingest

LEMMA NothingNewStep ==
  ASSUME RegistryInv, NEW d \in Device, NothingNew(d)
  PROVE  RegistryInv'
<1>1. docs' \in [Device -> SUBSET Property] /\ \A e \in Device : docs'[e] # {} => docs[e] # {}
  BY DEF RegistryInv, TypeOK, NothingNew
<1>2. Grown /\ BrokerInv'
  BY <1>1, SameGrown DEF RegistryInv, BrokerInv, SummaryHasDevice, NothingNew, brokerVars
<1> QED
  BY <1>1, <1>2, RunKept DEF RegistryInv, TypeOK, NothingNew

-------------------------------------------------------------------------------
LEMMA RegistryNext == RegistryInv /\ [Next]_vars => RegistryInv'
<1> SUFFICES ASSUME RegistryInv, [Next]_vars PROVE RegistryInv'
  OBVIOUS
<1>1. CASE EditEntry \/ Edit
  BY <1>1, OperatorStep
<1>2. ASSUME NEW r \in Registration, RegisterStep(r) PROVE RegistryInv'
  BY <1>2, TriggerStep, CreateStep, AppendStep, BreakStep, SeedStep, FinishStep DEF RegisterStep
<1>3. CASE Load
  BY <1>3, LoadStep
<1>4. ASSUME NEW d \in Device, Ingest(d) \/ NothingNew(d) PROVE RegistryInv'
  BY <1>4, IngestStep, NothingNewStep
<1>5. CASE UNCHANGED vars
  BY <1>5 DEF RegistryInv, TypeOK, WorkInv, Work, There, SummariesOf, CurrentInv, OnePlan, Active, Configured,
              AsConfigured, BrokerInv, SummaryHasDevice, RegistrationHolds, InBroker, vars, brokerVars, initVars, historyVars
<1> QED
  BY <1>1, <1>2, <1>3, <1>4, <1>5 DEF Next

\* RegistryInv holds in every reachable state, for any number of Devices, init
\* runs at a time, attempts and edits: what an init run has done is in the
\* broker, and as configured if no run with another plan is about
\* (register, upsert_entity).
THEOREM RegistryInvariant == Spec => []RegistryInv
BY RegistryInit, RegistryNext, PTL DEF Spec

\* A registration that ended without a competitor holds until the next edit,
\* whatever answers were lost and whatever was in the broker before.
THEOREM RegistrationSafety == Spec => []RegistrationHolds
<1>1. RegistryInv => RegistrationHolds
  BY DEF RegistryInv
<1> QED
  BY <1>1, RegistryInvariant, PTL

\* No summary is without its Device, at any point of any init run.
THEOREM SummarySafety == Spec => []SummaryHasDevice
<1>1. RegistryInv => SummaryHasDevice
  BY DEF RegistryInv, BrokerInv
<1> QED
  BY <1>1, RegistryInvariant, PTL

-------------------------------------------------------------------------------
Keeps ==
  /\ \A d \in Device : entity[d].watermark => entity'[d].watermark
  /\ \A m \in Measurement : summary[m] = "reading" => summary'[m] = "reading"

LEMMA CreateKeeps ==
  ASSUME RegistryInv, NEW r \in Registration, Create(r)
  PROVE  Keeps
<1>1. PICK i \in Picked(r) : (~There(i) /\ Created(r, i)) \/ UNCHANGED brokerVars
  BY DEF Create
<1>2. i \in todo[r] /\ Upserting(r) /\ UNCHANGED <<config, docs>>
  BY PickedIsTodo DEF Create
<1>3. CASE ~There(i) /\ Created(r, i)
  BY <1>2, <1>3, CreatedGrows DEF Grown, Keeps
<1>4. CASE UNCHANGED brokerVars
  BY <1>4 DEF Keeps, brokerVars
<1> QED
  BY <1>1, <1>3, <1>4

LEMMA AppendKeeps ==
  ASSUME RegistryInv, NEW r \in Registration, AppendAttrs(r)
  PROVE  Keeps
<1>1. PICK i \in todo[r] : i = item[r] /\ There(i)
  BY DEF RegistryInv, WorkInv, Work, AppendAttrs
<1>2. Upserting(r) /\ UNCHANGED <<config, docs>> /\ (Appended(r, i) \/ UNCHANGED brokerVars)
  BY <1>1 DEF AppendAttrs
<1>3. CASE Appended(r, i)
  BY <1>1, <1>2, <1>3, AppendedGrows DEF Grown, Keeps
<1>4. CASE UNCHANGED brokerVars
  BY <1>4 DEF Keeps, brokerVars
<1> QED
  BY <1>2, <1>3, <1>4

\* No step takes back what the run DAG has stored on an entity: neither a
\* watermark nor a summary's reading, whoever registers, edits or dies.
THEOREM StateSafety == Spec => InitKeepsState
<1>1. RegistryInv /\ [Next]_vars => [Keeps]_vars
  <2> SUFFICES ASSUME RegistryInv, Next PROVE Keeps
    OBVIOUS
  <2>1. ASSUME UNCHANGED brokerVars PROVE Keeps
    BY <2>1 DEF Keeps, brokerVars
  <2>2. CASE EditEntry \/ Edit
    BY <2>1, <2>2 DEF EditEntry, Edit
  <2>3. ASSUME NEW r \in Registration, RegisterStep(r) PROVE Keeps
    <3>1. CASE Create(r)
      BY <3>1, CreateKeeps
    <3>2. CASE AppendAttrs(r)
      BY <3>2, AppendKeeps
    <3>3. CASE Trigger(r) \/ Break(r) \/ Seed(r) \/ Finish(r)
      BY <3>3, <2>1 DEF Trigger, Break, Seed, Finish
    <3> QED
      BY <2>3, <3>1, <3>2, <3>3 DEF RegisterStep
  <2>4. CASE Load
    BY <2>1, <2>4 DEF Load
  <2>5. ASSUME NEW d \in Device, Ingest(d) \/ NothingNew(d) PROVE Keeps
    <3>1. CASE Ingest(d)
      BY <3>1, IngestStep DEF Grown, Keeps
    <3>2. CASE NothingNew(d)
      BY <2>1, <3>2 DEF NothingNew
    <3> QED
      BY <2>5, <3>1, <3>2
  <2> QED
    BY <2>2, <2>3, <2>4, <2>5 DEF Next
<1> QED
  BY <1>1, RegistryInvariant, PTL DEF Spec, InitKeepsState, Keeps
-------------------------------------------------------------------------------
\* Of the gate's Devices the script finds those of the configured types: with none
\* retired, and all registered, they are the configured ones.
LEMMA ProbedConfigured ==
  ASSUME TypeOK, Retired = {}, NEW D \in SUBSET Configured, D \subseteq InBroker
  PROVE  /\ D \subseteq Probed
         /\ Probed \subseteq Configured
         /\ IsFiniteSet(Configured)
<1>1. Configured \subseteq Device /\ IsFiniteSet(Device)
  BY RegistryAssumption DEF Configured
<1>2. D \subseteq Probed
  BY DEF Probed, ProbedTypes
<1>3. Probed \subseteq Configured
  BY DEF Probed, Retired
<1> QED
  BY <1>1, <1>2, <1>3, FS_Subset

\* What a listing shows is in the broker; it is everything, or as many as the
\* limit: a listing as long as the whole is the whole.
LEMMA ListedPart ==
  ASSUME NEW S, IsFiniteSet(S), NEW found \in Listed(S)
  PROVE  /\ found \subseteq S
         /\ IsFiniteSet(found)
         /\ Cardinality(found) \in Nat /\ Cardinality(S) \in Nat
         /\ found = S \/ Cardinality(found) = ListLimit
         /\ Cardinality(found) >= Cardinality(S) => found = S
<1>1. found \subseteq S /\ (found = S \/ Cardinality(found) = ListLimit)
  BY DEF Listed
<1>2. IsFiniteSet(found) /\ Cardinality(found) <= Cardinality(S)
  BY <1>1, FS_Subset
<1>3. Cardinality(found) \in Nat /\ Cardinality(S) \in Nat
  BY <1>2, FS_CardinalityType
<1>4. ASSUME Cardinality(found) >= Cardinality(S) PROVE found = S
  <2>1. Cardinality(found) = Cardinality(S)
    BY <1>2, <1>3, <1>4
  <2> QED
    BY <1>1, <2>1, FS_Subset
<1> QED
  BY <1>1, <1>2, <1>3, <1>4

\* A set of which one listing shows everything is shown by every listing.
LEMMA ListedWhole ==
  ASSUME NEW S, IsFiniteSet(S), S \in Listed(S), NEW found \in Listed(S)
  PROVE  found = S
<1>1. CASE Cardinality(S) <= ListLimit
  BY <1>1 DEF Listed
<1>2. CASE ~(Cardinality(S) <= ListLimit)
  <2>1. Cardinality(S) = ListLimit
    BY <1>2 DEF Listed
  <2> QED
    BY <1>2, <2>1, FS_CardinalityType
<1> QED
  BY <1>1, <1>2

LEMMA NothingMissed ==
  ASSUME TypeOK, Retired = {}
  PROVE  NoGapMissed
<1> SUFFICES ASSUME NEW found \in Listed(Probed), ~VerifyFails(found), ModelStatus(found) = "ok",
                    NEW d \in Configured
             PROVE  /\ entity[d].there /\ \A p \in entity[d].props : summary[<<d, p>>] # "absent"
                    /\ \A loaded \in Listed(InBroker) : d \in loaded
  BY DEF NoGapMissed
<1>1. Probed \subseteq Configured /\ IsFiniteSet(Configured) /\ IsFiniteSet(Probed)
  BY ProbedConfigured, FS_Subset
<1>2. /\ found \subseteq Probed /\ IsFiniteSet(found)
      /\ Cardinality(found) \in Nat /\ Cardinality(Probed) \in Nat /\ Cardinality(Configured) \in Nat
      /\ Cardinality(found) >= Cardinality(Probed) => found = Probed
  BY <1>1, ListedPart, FS_CardinalityType
<1>3. Cardinality(found) >= Cardinality(Configured)
  BY DEF ModelStatus
<1>4. Cardinality(found) <= Cardinality(Probed) /\ Cardinality(Probed) <= Cardinality(Configured)
  BY <1>1, <1>2, FS_Subset
<1>5. found = Probed /\ Cardinality(Probed) = Cardinality(Configured)
  BY <1>2, <1>3, <1>4
<1>6. Probed = Configured
  BY <1>1, <1>5, FS_Subset
<1>7. d \in Device /\ d \in found /\ entity[d].there
  BY <1>5, <1>6 DEF Configured, Probed, InBroker
<1>8. entity[d].props \subseteq Property
  BY <1>7 DEF TypeOK
<1>9. ASSUME NEW p \in entity[d].props PROVE summary[<<d, p>>] # "absent"
  <2>1. <<d, p>> \in Measurement /\ <<d, p>>[1] = d /\ <<d, p>>[2] = p
    BY <1>7, <1>8 DEF Measurement
  <2> QED
    BY <2>1, <1>7 DEF VerifyFails, BridgeGaps
<1>10. InBroker = Probed
  BY <1>6 DEF Probed, Retired
<1>11. ASSUME NEW loaded \in Listed(InBroker) PROVE d \in loaded
  BY <1>1, <1>5, <1>6, <1>10, ListedWhole
<1> QED
  BY <1>7, <1>9, <1>11

LEMMA NothingAlleged ==
  ASSUME TypeOK, RegistrationHolds, Retired = {}
  PROVE  NoFalseAlarm
<1> SUFFICES ASSUME settled, bucket, VerifyLoads, NEW found \in Listed(Probed) PROVE ~VerifyFails(found)
  BY DEF NoFalseAlarm
<1>1. Configured \subseteq InBroker
  BY DEF RegistrationHolds, AsConfigured, Configured, InBroker
<1>2. Probed = Configured /\ IsFiniteSet(Configured)
  BY <1>1, ProbedConfigured
<1>3. /\ found \subseteq Configured
      /\ Cardinality(found) \in Nat
      /\ found = Configured \/ Cardinality(found) = ListLimit
  BY <1>2, ListedPart
<1>4. found = Configured \/ found # {}
  <2>1. ListLimit # 0 /\ Cardinality({}) = 0
    BY RegistryAssumption, FS_EmptySet
  <2> QED
    BY <1>3, <2>1
<1>5. ModelStatus(found) # "fail"
  BY <1>3, <1>4 DEF ModelStatus
<1>6. ASSUME NEW m \in Measurement, m[1] \in found, m[2] \in entity[m[1]].props
      PROVE  summary[m] # "absent"
  <2>1. m = <<m[1], m[2]>>
    BY DEF Measurement
  <2>2. entity[m[1]].props = config[m[1]].props
    BY <1>3, <1>6 DEF RegistrationHolds, AsConfigured
  <2> QED
    BY <1>3, <1>6, <2>1, <2>2 DEF RegistrationHolds
<1>7. BridgeGaps(found) = {}
  BY <1>6 DEF BridgeGaps
<1> QED
  BY <1>5, <1>7 DEF VerifyFails

\* With no Device retired, the verification script has nothing to complain of
\* after a registration that holds, and overlooks no configured Device and no
\* missing summary when it complains of nothing; and then every listing the run
\* DAG gets shows all of them, whatever the limit of a listing.
THEOREM VerifySafety == Spec => []VerifyIsRight
<1>1. RegistryInv => VerifyIsRight
  BY NothingMissed, NothingAlleged DEF RegistryInv, VerifyIsRight
<1> QED
  BY <1>1, RegistryInvariant, PTL

-------------------------------------------------------------------------------
\* gates.yaml is read anew each time, and is at any time one of its contents.
LEMMA FileType == Spec => [](file \in Files)
<1>1. Init => file \in Files
  BY DEF Init, FileInit
<1>2. file \in Files /\ [Next]_vars => (file \in Files)'
  <2> SUFFICES ASSUME file \in Files, [Next]_vars PROVE file' \in Files
    OBVIOUS
  <2>1. CASE UNCHANGED vars
    BY <2>1 DEF vars
  <2>2. CASE EditEntry \/ Edit \/ Load
    BY <2>2 DEF EditEntry, Edit, EditFile, Load
  <2>3. ASSUME NEW r \in Registration, RegisterStep(r) PROVE file' \in Files
    BY <2>3 DEF RegisterStep, Trigger, Create, AppendAttrs, Break, Seed, Finish
  <2>4. ASSUME NEW d \in Device, Ingest(d) \/ NothingNew(d) PROVE file' \in Files
    BY <2>4 DEF Ingest, NothingNew
  <2> QED
    BY <2>1, <2>2, <2>3, <2>4 DEF Next
<1> QED
  BY <1>1, <1>2, PTL DEF Spec

\* A file that loads has one entry of each of its keys at most, and the two rules
\* for a choice among several make no difference.
LEMMA OnlyEntry ==
  ASSUME file \in Files, ConfigLoads, NEW i \in EntriesOf(Key)
  PROVE  /\ EntriesOf(Key) = {i}
         /\ GateOf(Key) = i
         /\ Built(Key) # {} => DagsOf(Key) = i
<1>1. EntriesOf(Key) = {i}
  BY DEF ConfigLoads, EntriesOf, Entries
<1>2. i \in Nat
  BY FilesAssumption DEF EntriesOf, Entries
<1>3. GateOf(Key) = i
  BY <1>1, <1>2 DEF GateOf, Oldest
<1>4. ASSUME Built(Key) # {} PROVE DagsOf(Key) = i
  <2>1. Built(Key) = {i}
    BY <1>1, <1>4 DEF Built
  <2> QED
    BY <1>2, <2>1 DEF DagsOf, Newest
<1> QED
  BY <1>1, <1>3, <1>4

\* What `datagates check` approves of an enabled gate is what the DAG bag builds
\* under its key, whatever the file holds besides.
THEOREM CheckSafety == Spec => []CheckAgreesWithDags
<1>1. file \in Files => CheckAgreesWithDags
  <2> SUFFICES ASSUME file \in Files, CheckExit(Key, Configured) = 0, file[GateOf(Key)].enabled
               PROVE  HasDags(Key) /\ DagsOf(Key) = GateOf(Key)
    BY DEF CheckAgreesWithDags
  <2>1. ConfigLoads /\ EntriesOf(Key) # {} /\ file[GateOf(Key)].builds
    BY DEF CheckExit
  <2>2. PICK i \in EntriesOf(Key) : TRUE
    BY <2>1
  <2>3. GateOf(Key) = i
    BY <2>1, OnlyEntry
  <2>4. i \in Built(Key)
    BY <2>1, <2>3 DEF Built
  <2> QED
    BY <2>1, <2>3, <2>4, OnlyEntry DEF HasDags
<1> QED
  BY <1>1, FileType, PTL
===============================================================================
