---------------------------- MODULE MqttSpoolProofs ----------------------------
(***************************************************************************)
(* SpoolInv is an invariant: one lemma for each action, one step for each  *)
(* part of the invariant the action can disturb.                           *)
(***************************************************************************)
EXTENDS MqttSpool, TLAPS

LEMMA ApartFacts ==
  \A d \in Apart :
    /\ d \in Device
    /\ Globbed[d] = {d}
    /\ \A e \in Device : d \in Globbed[e] => e = d
BY DEF Apart

LEMMA StartStep ==
  ASSUME SpoolInv, Start
  PROVE  SpoolInv'
<1>1. TypeOK'
  BY DEF SpoolInv, Start, TypeOK, diskVars, taskVars
<1>2. HandleInv'
  BY DEF SpoolInv, Start, HandleInv, diskVars, OpenFor
<1>3. TaskInv'
  BY DEF SpoolInv, Start, TaskInv, diskVars, taskVars
<1>4. HandoverIsSafe'
  BY DEF SpoolInv, Start, HandoverIsSafe, Accounted, OnDisk, diskVars, taskVars
<1>5. OnceInv'
  BY DEF SpoolInv, Start, OnceInv, Existing, diskVars, taskVars
<1>6. GlobInv'
  BY DEF SpoolInv, Start, GlobInv, Listed, diskVars, taskVars
<1> QED
  BY <1>1, <1>2, <1>3, <1>4, <1>5, <1>6 DEF SpoolInv

LEMMA ReceiveStep ==
  ASSUME SpoolInv, NEW m \in Message, Receive(m)
  PROVE  SpoolInv'
<1>1. TypeOK'
  BY MqttSpoolAssumption DEF SpoolInv, Receive, TypeOK, diskVars, taskVars
<1>2. HandleInv'
  BY DEF SpoolInv, Receive, HandleInv, diskVars, Listening, OpenFor
<1>3. TaskInv'
  BY DEF SpoolInv, Receive, TaskInv, diskVars, taskVars
<1>4. HandoverIsSafe'
  BY DEF SpoolInv, Receive, HandoverIsSafe, Accounted, OnDisk, diskVars, taskVars, Listening
<1>5. OnceInv'
  BY DEF SpoolInv, Receive, OnceInv, Existing, diskVars, taskVars
<1>6. GlobInv'
  BY DEF SpoolInv, Receive, GlobInv, Listed, diskVars, taskVars
<1> QED
  BY <1>1, <1>2, <1>3, <1>4, <1>5, <1>6 DEF SpoolInv

LEMMA AppendStep ==
  ASSUME SpoolInv, NEW m, NEW d, Append(m, d)
  PROVE  SpoolInv'
<1>1. TypeOK'
  <2>1. PICK f \in File : AppendTo(m, d, f)
    BY DEF Append
  <2>2. m \in Message /\ d \in Device
    BY DEF SpoolInv, TypeOK, Append
  <2>3. content' \in [File -> SUBSET Message]
    BY <2>1, <2>2 DEF SpoolInv, TypeOK, AppendTo
  <2>4. handle' \in [Device -> File \cup {NoFile}] /\ state' \in [File -> FileState]
    BY <2>1, <2>2 DEF SpoolInv, TypeOK, AppendTo, FileState
  <2> QED
    BY <2>3, <2>4 DEF SpoolInv, TypeOK, Append, taskVars
<1>2. HandleInv'
  <2>1. PICK f \in File : AppendTo(m, d, f)
    BY DEF Append
  <2>2. d \in Device /\ Owner(f) = d /\ f # NoFile
    BY <2>1, MqttSpoolAssumption
    DEF SpoolInv, TypeOK, HandleInv, Append, IsNextFile, OpenFor, Owner, File, AppendTo
  <2>3. \A e \in Device : e # d => handle'[e] = handle[e] /\ (handle[e] # NoFile => handle[e] # f)
    BY <2>1, <2>2 DEF SpoolInv, TypeOK, HandleInv, OpenFor, AppendTo
  <2>4. \A g \in File : g # f => state'[g] = state[g] /\ content'[g] = content[g]
    BY <2>1 DEF SpoolInv, TypeOK, AppendTo
  <2>5. state'[f] \in {"part", "finished"} /\ (handle'[d] # NoFile => handle'[d] = f /\ state'[f] = "part")
    BY <2>1, <2>2 DEF SpoolInv, TypeOK, HandleInv, OpenFor, AppendTo
  <2>6. rotating' \subseteq OpenFor'
    BY <2>2, <2>3 DEF SpoolInv, TypeOK, HandleInv, OpenFor, Append
  <2>7. \A e \in OpenFor' : Owner(handle'[e]) = e /\ state'[handle'[e]] = "part"
    <3> SUFFICES ASSUME NEW e \in OpenFor' PROVE Owner(handle'[e]) = e /\ state'[handle'[e]] = "part"
      OBVIOUS
    <3>1. CASE e = d
      BY <2>2, <2>5, <3>1 DEF OpenFor
    <3>2. CASE e # d
      BY <2>3, <2>4, <3>2 DEF SpoolInv, TypeOK, HandleInv, OpenFor, AppendTo
    <3> QED
      BY <3>1, <3>2
  <2>8. \A g \in File : state'[g] = "free" => content'[g] = {}
    BY <2>4, <2>5 DEF SpoolInv, HandleInv
  <2>9. inbox' = {} \/ rotating' = {}
    BY DEF SpoolInv, HandleInv, Append
  <2> QED
    BY <2>6, <2>7, <2>8, <2>9 DEF HandleInv
<1>3. TaskInv'
  BY ApartFacts DEF SpoolInv, Append, TypeOK, HandleInv, GlobInv, Listed, TaskInv, taskVars,
     OpenFor, AppendTo, IsNextFile
<1>4. HandoverIsSafe'
  <2> SUFFICES ASSUME NEW n \in received, NEW e \in Targets[n] \cap Apart
               PROVE  Accounted(n, e)'
    BY DEF HandoverIsSafe, Append
  <2>1. PICK f \in File : AppendTo(m, d, f)
    BY DEF Append
  <2>2. d \in Device /\ Owner(f) = d
    BY <2>1 DEF SpoolInv, TypeOK, HandleInv, Append, IsNextFile, OpenFor, Owner, File, AppendTo
  <2>3. state'[f] \in {"part", "finished"} /\ m \in content'[f]
    BY <2>1, <2>2 DEF SpoolInv, TypeOK, HandleInv, OpenFor, AppendTo
  <2>4. \A g \in File : state[g] \in {"part", "finished"} =>
          state'[g] \in {"part", "finished"} /\ content[g] \subseteq content'[g]
    BY <2>1, <2>3 DEF SpoolInv, TypeOK, HandleInv, OpenFor, AppendTo
  <2>5. CASE n = m /\ e = d
    BY <2>2, <2>3, <2>5 DEF OnDisk, Accounted
  <2>6. CASE ~(n = m /\ e = d)
    BY <2>4, <2>6 DEF SpoolInv, HandoverIsSafe, Accounted, OnDisk, Append, taskVars
  <2> QED
    BY <2>5, <2>6
<1>5. OnceInv'
  BY DEF SpoolInv, Append, TypeOK, HandleInv, OnceInv, Existing, taskVars, OpenFor, AppendTo, IsNextFile, Owner
<1>6. GlobInv'
  BY DEF SpoolInv, Append, TypeOK, HandleInv, GlobInv, Listed, OpenFor, taskVars, AppendTo, IsNextFile
<1> QED
  BY <1>1, <1>2, <1>3, <1>4, <1>5, <1>6 DEF SpoolInv

LEMMA TimerStep ==
  ASSUME SpoolInv, Timer
  PROVE  SpoolInv'
<1>1. TypeOK'
  BY DEF SpoolInv, Timer, TypeOK, diskVars, taskVars, OpenFor, RotateAll, RotateOnTimer
<1>2. HandleInv'
  BY DEF SpoolInv, Timer, HandleInv, diskVars, Listening, OpenFor, RotateAll, RotateOnTimer
<1>3. TaskInv'
  BY DEF SpoolInv, Timer, TaskInv, diskVars, taskVars
<1>4. HandoverIsSafe'
  BY DEF SpoolInv, Timer, HandoverIsSafe, Accounted, OnDisk, diskVars, taskVars
<1>5. OnceInv'
  BY DEF SpoolInv, Timer, OnceInv, Existing, diskVars, taskVars
<1>6. GlobInv'
  BY DEF SpoolInv, Timer, GlobInv, Listed, diskVars, taskVars
<1> QED
  BY <1>1, <1>2, <1>3, <1>4, <1>5, <1>6 DEF SpoolInv

LEMMA StopStep ==
  ASSUME SpoolInv, Stop
  PROVE  SpoolInv'
<1>1. TypeOK'
  BY DEF SpoolInv, Stop, TypeOK, diskVars, taskVars, OpenFor, RotateAll
<1>2. HandleInv'
  BY DEF SpoolInv, Stop, HandleInv, diskVars, Listening, OpenFor, RotateAll
<1>3. TaskInv'
  BY DEF SpoolInv, Stop, TaskInv, diskVars, taskVars
<1>4. HandoverIsSafe'
  BY DEF SpoolInv, Stop, HandoverIsSafe, Accounted, OnDisk, diskVars, taskVars
<1>5. OnceInv'
  BY DEF SpoolInv, Stop, OnceInv, Existing, diskVars, taskVars
<1>6. GlobInv'
  BY DEF SpoolInv, Stop, GlobInv, Listed, diskVars, taskVars
<1> QED
  BY <1>1, <1>2, <1>3, <1>4, <1>5, <1>6 DEF SpoolInv

LEMMA RotateStep ==
  ASSUME SpoolInv, NEW d \in Device, Rotate(d)
  PROVE  SpoolInv'
<1>1. TypeOK'
  BY DEF SpoolInv, Rotate, TypeOK, FileState, taskVars
<1>2. HandleInv'
  BY DEF SpoolInv, Rotate, TypeOK, HandleInv, OpenFor
<1>3. TaskInv'
  BY DEF SpoolInv, Rotate, TaskInv, taskVars
<1>4. HandoverIsSafe'
  BY DEF SpoolInv, Rotate, TypeOK, HandoverIsSafe, Accounted, OnDisk, taskVars
<1>5. OnceInv'
  BY DEF SpoolInv, Rotate, HandleInv, OnceInv, Existing, taskVars
<1>6. GlobInv'
  BY DEF SpoolInv, Rotate, TypeOK, HandleInv, GlobInv, Listed, OpenFor, taskVars
<1> QED
  BY <1>1, <1>2, <1>3, <1>4, <1>5, <1>6 DEF SpoolInv

LEMMA StoppedStep ==
  ASSUME SpoolInv, Stopped
  PROVE  SpoolInv'
<1>1. TypeOK'
  BY DEF SpoolInv, Stopped, TypeOK, diskVars, taskVars
<1>2. HandleInv'
  BY DEF SpoolInv, Stopped, HandleInv, diskVars, OpenFor
<1>3. TaskInv'
  BY DEF SpoolInv, Stopped, TaskInv, diskVars, taskVars
<1>4. HandoverIsSafe'
  BY DEF SpoolInv, Stopped, HandoverIsSafe, Accounted, OnDisk, diskVars, taskVars
<1>5. OnceInv'
  BY DEF SpoolInv, Stopped, OnceInv, Existing, diskVars, taskVars
<1>6. GlobInv'
  BY DEF SpoolInv, Stopped, GlobInv, Listed, diskVars, taskVars
<1> QED
  BY <1>1, <1>2, <1>3, <1>4, <1>5, <1>6 DEF SpoolInv

LEMMA CrashStep ==
  ASSUME SpoolInv, Crash
  PROVE  SpoolInv'
<1>1. TypeOK'
  BY DEF SpoolInv, Crash, TypeOK, diskVars, taskVars, Fault
<1>2. HandleInv'
  BY DEF SpoolInv, Crash, HandleInv, diskVars, OpenFor
<1>3. TaskInv'
  BY DEF SpoolInv, Crash, TaskInv, diskVars, taskVars
<1>4. HandoverIsSafe'
  BY DEF SpoolInv, Crash, HandoverIsSafe, Accounted, OnDisk, diskVars, taskVars
<1>5. OnceInv'
  BY DEF SpoolInv, Crash, TypeOK, OnceInv, Fault
<1>6. GlobInv'
  BY DEF SpoolInv, Crash, GlobInv, Listed, diskVars, taskVars
<1> QED
  BY <1>1, <1>2, <1>3, <1>4, <1>5, <1>6 DEF SpoolInv

LEMMA ListStep ==
  ASSUME SpoolInv, NEW d \in Device, List(d)
  PROVE  SpoolInv'
<1>1. TypeOK'
  BY DEF SpoolInv, List, TypeOK, TaskState, subscriberVars, diskVars
<1>2. HandleInv'
  BY DEF SpoolInv, List, HandleInv, subscriberVars, diskVars, OpenFor
<1>3. TaskInv'
  BY DEF SpoolInv, List, TypeOK, TaskInv, diskVars, Visible
<1>4. HandoverIsSafe'
  BY DEF SpoolInv, List, HandoverIsSafe, Accounted, OnDisk, subscriberVars, diskVars
<1>5. OnceInv'
  BY DEF SpoolInv, List, OnceInv, Existing, subscriberVars, diskVars
<1>6. GlobInv'
  BY DEF SpoolInv, List, TypeOK, GlobInv, Listed, subscriberVars, diskVars, Visible
<1> QED
  BY <1>1, <1>2, <1>3, <1>4, <1>5, <1>6 DEF SpoolInv

LEMMA ReadStep ==
  ASSUME SpoolInv, NEW d \in Device, Read(d)
  PROVE  SpoolInv'
<1>1. TypeOK'
  BY DEF SpoolInv, Read, TypeOK, TaskState, subscriberVars, diskVars
<1>2. HandleInv'
  BY DEF SpoolInv, Read, HandleInv, subscriberVars, diskVars, OpenFor
<1>3. TaskInv'
  BY DEF SpoolInv, Read, TypeOK, TaskInv, diskVars
<1>4. HandoverIsSafe'
  <2>1. \A e \in Device : held[e] \subseteq held'[e]
    BY DEF SpoolInv, TypeOK, Read
  <2> QED
    BY <2>1, MqttSpoolAssumption DEF SpoolInv, HandoverIsSafe, Accounted, OnDisk, Read, TypeOK, subscriberVars, diskVars
<1>5. OnceInv'
  BY ApartFacts DEF SpoolInv, Read, TypeOK, GlobInv, Listed, TaskInv, OnceInv, Existing, subscriberVars, diskVars
<1>6. GlobInv'
  BY DEF SpoolInv, Read, TypeOK, GlobInv, Listed, subscriberVars, diskVars
<1> QED
  BY <1>1, <1>2, <1>3, <1>4, <1>5, <1>6 DEF SpoolInv

LEMMA UnlinkStep ==
  ASSUME SpoolInv, NEW d \in Device, Unlink(d)
  PROVE  SpoolInv'
<1>1. TypeOK'
  BY DEF SpoolInv, Unlink, TypeOK, FileState, TaskState, subscriberVars, Unlinked
<1>2. HandleInv'
  BY DEF SpoolInv, Unlink, HandleInv, GlobInv, Listed, subscriberVars, OpenFor, Unlinked
<1>3. TaskInv'
  BY ApartFacts DEF SpoolInv, Unlink, TypeOK, GlobInv, Listed, TaskInv, Unlinked
<1>4. HandoverIsSafe'
  <2> SUFFICES ASSUME NEW n \in received, NEW e \in Targets[n] \cap Apart
               PROVE  Accounted(n, e)'
    BY DEF HandoverIsSafe, Unlink, subscriberVars
  <2>1. CASE OnDisk(n, e)
    <3>1. PICK f \in File : /\ Owner(f) = e /\ state[f] \in {"part", "finished"}
                            /\ n \in content[f]
      BY <2>1 DEF OnDisk
    <3>2. CASE f = current[d]
      BY <3>1, <3>2, ApartFacts DEF SpoolInv, TypeOK, GlobInv, Listed, TaskInv, Accounted, Unlink
    <3>3. CASE f # current[d]
      BY <3>1, <3>3 DEF SpoolInv, TypeOK, Unlink, Unlinked, OnDisk, Accounted
    <3> QED
      BY <3>2, <3>3
  <2>2. CASE ~OnDisk(n, e)
    BY <2>2 DEF SpoolInv, HandoverIsSafe, Accounted, Unlink, subscriberVars
  <2> QED
    BY <2>1, <2>2
<1>5. OnceInv'
  BY DEF SpoolInv, Unlink, TypeOK, OnceInv, Existing, subscriberVars, Unlinked
<1>6. GlobInv'
  BY DEF SpoolInv, Unlink, TypeOK, GlobInv, Listed, Unlinked
<1> QED
  BY <1>1, <1>2, <1>3, <1>4, <1>5, <1>6 DEF SpoolInv

LEMMA AllReadStep ==
  ASSUME SpoolInv, NEW d \in Device, AllRead(d)
  PROVE  SpoolInv'
<1>1. TypeOK'
  BY DEF SpoolInv, AllRead, TypeOK, TaskState, subscriberVars, diskVars
<1>2. HandleInv'
  BY DEF SpoolInv, AllRead, HandleInv, subscriberVars, diskVars, OpenFor
<1>3. TaskInv'
  BY DEF SpoolInv, AllRead, TaskInv, diskVars
<1>4. HandoverIsSafe'
  BY DEF SpoolInv, AllRead, HandoverIsSafe, Accounted, OnDisk, subscriberVars, diskVars
<1>5. OnceInv'
  BY DEF SpoolInv, AllRead, OnceInv, Existing, subscriberVars, diskVars
<1>6. GlobInv'
  BY DEF SpoolInv, AllRead, TypeOK, GlobInv, Listed, subscriberVars, diskVars
<1> QED
  BY <1>1, <1>2, <1>3, <1>4, <1>5, <1>6 DEF SpoolInv

LEMMA StoreStep ==
  ASSUME SpoolInv, NEW d \in Device, Store(d)
  PROVE  SpoolInv'
<1>1. TypeOK'
  BY DEF SpoolInv, Store, TypeOK, TaskState, subscriberVars, diskVars, Done, Samples
<1>2. HandleInv'
  BY DEF SpoolInv, Store, HandleInv, subscriberVars, diskVars, OpenFor
<1>3. TaskInv'
  BY DEF SpoolInv, Store, TaskInv, diskVars, Done
<1>4. HandoverIsSafe'
  <2> SUFFICES ASSUME NEW n \in received, NEW e \in Targets[n] \cap Apart
               PROVE  Accounted(n, e)'
    BY DEF HandoverIsSafe, Store, subscriberVars
  <2>1. OnDisk(n, e) <=> OnDisk(n, e)'
    BY DEF OnDisk, Store, diskVars
  <2>2. e \in Device /\ n \in Message
    BY MqttSpoolAssumption, ApartFacts DEF SpoolInv, TypeOK
  <2>3. CASE e = d /\ n \in held[d]
    <3>1. n \in Samples(d)
      BY <2>3 DEF Samples
    <3> QED
      BY <2>1, <2>2, <2>3, <3>1 DEF SpoolInv, TypeOK, Accounted, Store
  <2>4. CASE ~(e = d /\ n \in held[d])
    BY <2>1, <2>2, <2>4 DEF SpoolInv, TypeOK, HandoverIsSafe, Accounted, Store, Done, subscriberVars, diskVars
  <2> QED
    BY <2>3, <2>4
<1>5. OnceInv'
  BY DEF SpoolInv, Store, TypeOK, OnceInv, Existing, subscriberVars, diskVars, Done, Samples
<1>6. GlobInv'
  BY DEF SpoolInv, Store, TypeOK, GlobInv, Listed, subscriberVars, diskVars, Done
<1> QED
  BY <1>1, <1>2, <1>3, <1>4, <1>5, <1>6 DEF SpoolInv

LEMMA StoreFailsStep ==
  ASSUME SpoolInv, NEW d \in Device, StoreFails(d)
  PROVE  SpoolInv'
<1>1. TypeOK'
  BY DEF SpoolInv, StoreFails, TypeOK, TaskState, subscriberVars, diskVars, Fault, Done, Samples
<1>2. HandleInv'
  BY DEF SpoolInv, StoreFails, HandleInv, subscriberVars, diskVars, OpenFor
<1>3. TaskInv'
  BY DEF SpoolInv, StoreFails, TaskInv, diskVars, Done
<1>4. HandoverIsSafe'
  <2> SUFFICES ASSUME NEW n \in received, NEW e \in Targets[n] \cap Apart
               PROVE  Accounted(n, e)'
    BY DEF HandoverIsSafe, StoreFails, subscriberVars
  <2>1. OnDisk(n, e) <=> OnDisk(n, e)'
    BY DEF OnDisk, StoreFails, diskVars
  <2>2. e \in Device /\ n \in Message
    BY MqttSpoolAssumption, ApartFacts DEF SpoolInv, TypeOK
  <2>3. CASE e = d /\ n \in held[d]
    <3>1. n \in Samples(d)
      BY <2>3 DEF Samples
    <3> QED
      BY <2>1, <2>2, <2>3, <3>1 DEF SpoolInv, TypeOK, Accounted, Fault, StoreFails
  <2>4. CASE ~(e = d /\ n \in held[d])
    BY <2>1, <2>2, <2>4 DEF SpoolInv, TypeOK, HandoverIsSafe, Accounted, Fault, StoreFails, Done, subscriberVars, diskVars
  <2> QED
    BY <2>3, <2>4
<1>5. OnceInv'
  BY DEF SpoolInv, StoreFails, TypeOK, OnceInv, Fault
<1>6. GlobInv'
  BY DEF SpoolInv, StoreFails, TypeOK, GlobInv, Listed, subscriberVars, diskVars, Done
<1> QED
  BY <1>1, <1>2, <1>3, <1>4, <1>5, <1>6 DEF SpoolInv

\* No task of a Device apart finds a file missing.
LEMMA FileMissingStep ==
  ASSUME SpoolInv, NEW d \in Device, FileMissing(d)
  PROVE  SpoolInv'
<1>0. d \notin Apart
  BY DEF SpoolInv, TaskInv, FileMissing
<1>1. TypeOK'
  BY DEF SpoolInv, FileMissing, TypeOK, TaskState, subscriberVars, diskVars, Done
<1>2. HandleInv'
  BY DEF SpoolInv, FileMissing, HandleInv, subscriberVars, diskVars, OpenFor
<1>3. TaskInv'
  BY <1>0 DEF SpoolInv, FileMissing, TypeOK, TaskInv, diskVars, Done
<1>4. HandoverIsSafe'
  BY <1>0, ApartFacts
  DEF SpoolInv, FileMissing, TypeOK, HandoverIsSafe, Accounted, OnDisk, subscriberVars, diskVars, Done
<1>5. OnceInv'
  BY <1>0, ApartFacts
  DEF SpoolInv, FileMissing, TypeOK, OnceInv, Existing, subscriberVars, diskVars, Done
<1>6. GlobInv'
  BY DEF SpoolInv, FileMissing, TypeOK, GlobInv, Listed, subscriberVars, diskVars, Done
<1> QED
  BY <1>1, <1>2, <1>3, <1>4, <1>5, <1>6 DEF SpoolInv

LEMMA TaskDiesStep ==
  ASSUME SpoolInv, NEW d \in Device, TaskDies(d)
  PROVE  SpoolInv'
<1>1. TypeOK'
  BY DEF SpoolInv, TaskDies, TypeOK, TaskState, subscriberVars, diskVars, Fault, Done, Samples
<1>2. HandleInv'
  BY DEF SpoolInv, TaskDies, HandleInv, subscriberVars, diskVars, OpenFor
<1>3. TaskInv'
  BY DEF SpoolInv, TaskDies, TypeOK, TaskInv, diskVars, Done
<1>4. HandoverIsSafe'
  <2> SUFFICES ASSUME NEW n \in received, NEW e \in Targets[n] \cap Apart
               PROVE  Accounted(n, e)'
    BY DEF HandoverIsSafe, TaskDies, subscriberVars
  <2>1. OnDisk(n, e) <=> OnDisk(n, e)'
    BY DEF OnDisk, TaskDies, diskVars
  <2>2. e \in Device /\ n \in Message
    BY MqttSpoolAssumption, ApartFacts DEF SpoolInv, TypeOK
  <2>3. CASE e = d /\ n \in held[d]
    <3>1. n \in Samples(d)
      BY <2>3 DEF Samples
    <3> QED
      BY <2>1, <2>2, <2>3, <3>1 DEF SpoolInv, TypeOK, Accounted, Fault, TaskDies
  <2>4. CASE ~(e = d /\ n \in held[d])
    BY <2>1, <2>2, <2>4 DEF SpoolInv, TypeOK, HandoverIsSafe, Accounted, Fault, TaskDies, Done, subscriberVars, diskVars
  <2> QED
    BY <2>3, <2>4
<1>5. OnceInv'
  BY DEF SpoolInv, TaskDies, TypeOK, OnceInv, Fault
<1>6. GlobInv'
  BY DEF SpoolInv, TaskDies, TypeOK, GlobInv, Listed, subscriberVars, diskVars, Done
<1> QED
  BY <1>1, <1>2, <1>3, <1>4, <1>5, <1>6 DEF SpoolInv

-------------------------------------------------------------------------------
LEMMA SpoolInit == Init => SpoolInv
<1> SUFFICES ASSUME Init PROVE SpoolInv
  OBVIOUS
<1>1. TypeOK
  BY MqttSpoolAssumption DEF Init, TypeOK, FileState, TaskState
<1>2. HandleInv /\ GlobInv /\ TaskInv /\ HandoverIsSafe
  BY ApartFacts DEF Init, HandleInv, GlobInv, Listed, TaskInv, HandoverIsSafe, OpenFor, File
<1>3. OnceInv
  BY ApartFacts DEF Init, OnceInv, Existing, File
<1> QED
  BY <1>1, <1>2, <1>3 DEF SpoolInv

LEMMA SpoolStep == SpoolInv /\ [Next]_vars => SpoolInv'
<1> SUFFICES ASSUME SpoolInv, [Next]_vars PROVE SpoolInv'
  OBVIOUS
<1>1. CASE Start
  BY <1>1, StartStep
<1>2. ASSUME NEW m \in Message, Receive(m) PROVE SpoolInv'
  BY <1>2, ReceiveStep
<1>3. ASSUME NEW p \in inbox, Append(p[1], p[2]) PROVE SpoolInv'
  BY <1>3, AppendStep
<1>4. CASE Timer
  BY <1>4, TimerStep
<1>5. CASE Stop
  BY <1>5, StopStep
<1>6. ASSUME NEW d \in Device, Rotate(d) PROVE SpoolInv'
  BY <1>6, RotateStep
<1>7. CASE Stopped
  BY <1>7, StoppedStep
<1>8. CASE Crash
  BY <1>8, CrashStep
<1>9. ASSUME NEW d \in Device, List(d) PROVE SpoolInv'
  BY <1>9, ListStep
<1>10. ASSUME NEW d \in Device, Read(d) PROVE SpoolInv'
  BY <1>10, ReadStep
<1>11. ASSUME NEW d \in Device, Unlink(d) PROVE SpoolInv'
  BY <1>11, UnlinkStep
<1>12. ASSUME NEW d \in Device, AllRead(d) PROVE SpoolInv'
  BY <1>12, AllReadStep
<1>13. ASSUME NEW d \in Device, Store(d) PROVE SpoolInv'
  BY <1>13, StoreStep
<1>14. ASSUME NEW d \in Device, StoreFails(d) PROVE SpoolInv'
  BY <1>14, StoreFailsStep
<1>15. ASSUME NEW d \in Device, FileMissing(d) PROVE SpoolInv'
  BY <1>15, FileMissingStep
<1>16. ASSUME NEW d \in Device, TaskDies(d) PROVE SpoolInv'
  BY <1>16, TaskDiesStep
<1>17. CASE UNCHANGED vars
  BY <1>17 DEF vars, subscriberVars, diskVars, taskVars, SpoolInv, TypeOK, HandleInv, GlobInv, Listed,
     TaskInv, HandoverIsSafe, Accounted, OnceInv, OpenFor, OnDisk, Existing
<1> QED
  BY <1>1, <1>2, <1>3, <1>4, <1>5, <1>6, <1>7, <1>8, <1>9, <1>10, <1>11, <1>12, <1>13,
     <1>14, <1>15, <1>16, <1>17
  DEF Next, Subscriber, Gate

-------------------------------------------------------------------------------
\* The inductive invariant holds in every reachable state, for any Devices,
\* messages, routing, overlap of prefixes, files and faults.
THEOREM SpoolInvariant == Spec => []SpoolInv
BY SpoolInit, SpoolStep, PTL DEF Spec

\* A message the subscriber took for a Device with files of its own is being
\* routed, in a file, in memory, stored, or lost by a fault.
THEOREM HandoverSafety == Spec => []HandoverIsSafe
<1>1. SpoolInv => HandoverIsSafe
  BY DEF SpoolInv
<1> QED
  BY <1>1, SpoolInvariant, PTL

\* Without faults no message is read from a file twice.
THEOREM ReadOnceSafety == Spec => []ReadOnce
<1>1. SpoolInv => ReadOnce
  BY DEF SpoolInv, OnceInv, ReadOnce, OnDisk, Existing
<1> QED
  BY <1>1, SpoolInvariant, PTL
===============================================================================
