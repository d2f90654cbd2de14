------------------------------- MODULE MqttSpool -------------------------------
(***************************************************************************)
(* The handover from the always-on subscriber (scripts/mqtt_spool.py) to   *)
(* an `mqtt` gate in spool mode (gates/mqtt.py), through the files of a    *)
(* directory.                                                              *)
(*                                                                         *)
(* The subscriber appends each message to a .part file of every Device     *)
(* whose topic filter it matches, and renames the file when it rotates.    *)
(* The run task of each Device lists the finished files, reads and unlinks *)
(* them one by one, and writes what it read to InfluxDB.  The tasks of     *)
(* several Devices and the subscriber run concurrently; each call to the   *)
(* file system is a step.                                                  *)
(***************************************************************************)
EXTENDS Integers, FiniteSets

CONSTANTS
  Device,       \* the Devices of the gate
  Message,      \* the messages the broker may deliver
  Targets,      \* Targets[m]: the Devices whose topic filter m matches
  Globbed,      \* Globbed[d]: the Devices whose file names <prefix of d>-*.jsonl matches
  MaxFiles,     \* bound on the files the subscriber opens for a Device
  NoFile,
  MaxFaults     \* bound on the faults of a behaviour

\* A file is named by its Device and the instant it was opened at.
File == Device \X (1..MaxFiles)
Owner(f) == f[1]

ASSUME MqttSpoolAssumption ==
  /\ Targets \in [Message -> SUBSET Device]
  /\ Globbed \in [Device -> SUBSET Device]
  /\ \A d \in Device : d \in Globbed[d]
  /\ MaxFiles \in Nat
  /\ NoFile \notin File
  /\ MaxFaults \in Nat

VARIABLES
  subscriber,   \* "up", "stopping" after SIGTERM, or "down"
  received,     \* messages on_message was called with
  inbox,        \* <<m, d>>: message being routed, a Device still to be written to
  handle,       \* handle[d]: the .part file DeviceSpool of d has open, or NoFile
  rotating,     \* Devices rotate_all has still to rotate
  state,        \* state[f]: "free", "part", "finished" or "gone"
  content,      \* content[f]: the messages in f
  task,         \* task[d]: where the run task of d is
  todo,         \* todo[d]: the files its glob returned, not yet read
  current,      \* current[d]: the file it has read and not yet unlinked
  held,         \* held[d]: the messages it has in memory
  stored,       \* InfluxDB: stored[d]
  lost,         \* history: <<m, d>> that was in memory when a fault struck
  faults

subscriberVars == <<subscriber, received, inbox, handle, rotating>>
diskVars == <<state, content>>
taskVars == <<task, todo, current, held>>
vars == <<subscriberVars, diskVars, taskVars, stored, lost, faults>>

FileState == {"free", "part", "finished", "gone"}
TaskState == {"idle", "read", "unlink", "write"}

Init ==
  /\ subscriber = "down"
  /\ received = {}
  /\ inbox = {}
  /\ handle = [d \in Device |-> NoFile]
  /\ rotating = {}
  /\ state = [f \in File |-> "free"]
  /\ content = [f \in File |-> {}]
  /\ task = [d \in Device |-> "idle"]
  /\ todo = [d \in Device |-> {}]
  /\ current = [d \in Device |-> NoFile]
  /\ held = [d \in Device |-> {}]
  /\ stored = [d \in Device |-> {}]
  /\ lost = {}
  /\ faults = 0

Fault ==
  /\ faults < MaxFaults
  /\ faults' = faults + 1

\* m is in a file of d.
OnDisk(m, d) ==
  \E f \in File : Owner(f) = d /\ state[f] \in {"part", "finished"} /\ m \in content[f]

OpenFor == {d \in Device : handle[d] # NoFile}

-------------------------------------------------------------------------------
\* main, run: the subscriber starts, with no file open.  Files of an earlier
\* process stay as they are.
Start ==
  /\ subscriber = "down"
  /\ subscriber' = "up"
  /\ UNCHANGED <<received, inbox, handle, rotating, diskVars, taskVars, stored, lost, faults>>

Listening == subscriber = "up" /\ inbox = {} /\ rotating = {}

\* on_message, in client.loop: devices_for gives the Devices to write to.
Receive(m) ==
  /\ Listening
  /\ m \notin received
  /\ received' = received \cup {m}
  /\ inbox' = {m} \X Targets[m]
  /\ UNCHANGED <<subscriber, handle, rotating, diskVars, taskVars, stored, lost, faults>>

\* DeviceSpool._open: a new name, the current instant.
IsNextFile(d, f) ==
  \E n \in 1..MaxFiles :
    /\ f = <<d, n>>
    /\ state[f] = "free"
    /\ \A k \in 1..(n - 1) : state[<<d, k>>] # "free"

\* DeviceSpool.write for one Device of the message: open if need be, append and
\* flush, and rotate when the file is old or large enough.
AppendTo(m, d, f) ==
  /\ IF handle[d] = NoFile THEN IsNextFile(d, f) ELSE f = handle[d]
  /\ content' = [content EXCEPT ![f] = @ \cup {m}]
  /\ \/ /\ handle' = [handle EXCEPT ![d] = f]
        /\ state' = IF handle[d] = NoFile THEN [state EXCEPT ![f] = "part"] ELSE state
     \/ /\ handle' = [handle EXCEPT ![d] = NoFile]
        /\ state' = [state EXCEPT ![f] = "finished"]

Append(m, d) ==
  /\ <<m, d>> \in inbox
  /\ inbox' = inbox \ {<<m, d>>}
  /\ \E f \in File : AppendTo(m, d, f)
  /\ UNCHANGED <<subscriber, received, rotating, taskVars, stored, lost, faults>>

\* The main loop between two calls of client.loop: rotate_all on a timer, and
\* once more on SIGTERM before the process ends.
RotateAll == rotating' = OpenFor
RotateNothing == rotating' = {}   \* mutation
RotateOnTimer == RotateAll

Timer ==
  /\ Listening
  /\ OpenFor # {}
  /\ RotateOnTimer
  /\ UNCHANGED <<subscriber, received, inbox, handle, diskVars, taskVars, stored, lost, faults>>

Stop ==
  /\ Listening
  /\ subscriber' = "stopping"
  /\ RotateAll
  /\ UNCHANGED <<received, inbox, handle, diskVars, taskVars, stored, lost, faults>>

\* DeviceSpool.rotate: close, then os.replace.
Rotate(d) ==
  /\ d \in rotating
  /\ rotating' = rotating \ {d}
  /\ state' = [state EXCEPT ![handle[d]] = "finished"]
  /\ handle' = [handle EXCEPT ![d] = NoFile]
  /\ UNCHANGED <<subscriber, received, inbox, content, taskVars, stored, lost, faults>>

Stopped ==
  /\ subscriber = "stopping"
  /\ rotating = {}
  /\ subscriber' = "down"
  /\ UNCHANGED <<received, inbox, handle, rotating, diskVars, taskVars, stored, lost, faults>>

\* The subscriber dies.  What it was routing is lost; what is in an open .part
\* file stays there, and no later process renames it.
Crash ==
  /\ subscriber # "down"
  /\ Fault
  /\ subscriber' = "down"
  /\ lost' = lost \cup inbox
  /\ inbox' = {}
  /\ handle' = [d \in Device |-> NoFile]
  /\ rotating' = {}
  /\ UNCHANGED <<received, diskVars, taskVars, stored>>

-------------------------------------------------------------------------------
\* ingest of Device d calls spooled: the glob.
VisibleOrPart(d, f) == Owner(f) \in Globbed[d] /\ state[f] \in {"part", "finished"}   \* mutation
Visible(d, f) == Owner(f) \in Globbed[d] /\ state[f] = "finished"

List(d) ==
  /\ task[d] = "idle"
  /\ todo' = [todo EXCEPT ![d] = {f \in File : Visible(d, f)}]
  /\ task' = [task EXCEPT ![d] = "read"]
  /\ UNCHANGED <<subscriberVars, diskVars, current, held, stored, lost, faults>>

\* open and read one of the files to its end.  They are sorted, which matters to
\* nothing here: what is stored is keyed by time.
Read(d) ==
  /\ task[d] = "read"
  /\ \E f \in todo[d] :
       /\ state[f] # "gone"
       /\ todo' = [todo EXCEPT ![d] = @ \ {f}]
       /\ current' = [current EXCEPT ![d] = f]
       /\ held' = [held EXCEPT ![d] = @ \cup content[f]]
  /\ task' = [task EXCEPT ![d] = "unlink"]
  /\ UNCHANGED <<subscriberVars, diskVars, stored, lost, faults>>

UnlinkedLater(f) == state   \* mutation
Unlinked(f) == [state EXCEPT ![f] = "gone"]

Unlink(d) ==
  /\ task[d] = "unlink"
  /\ state[current[d]] # "gone"
  /\ state' = Unlinked(current[d])
  /\ current' = [current EXCEPT ![d] = NoFile]
  /\ task' = [task EXCEPT ![d] = "read"]
  /\ UNCHANGED <<subscriberVars, content, todo, held, stored, lost, faults>>

AllRead(d) ==
  /\ task[d] = "read"
  /\ todo[d] = {}
  /\ task' = [task EXCEPT ![d] = "write"]
  /\ UNCHANGED <<subscriberVars, diskVars, todo, current, held, stored, lost, faults>>

\* samples: messages on topics that are not the Device's own are passed over.
Samples(d) == {m \in held[d] : d \in Targets[m]}

\* The task ends, however it ends, and with it what it held.
Done(d) ==
  /\ task' = [task EXCEPT ![d] = "idle"]
  /\ todo' = [todo EXCEPT ![d] = {}]
  /\ current' = [current EXCEPT ![d] = NoFile]
  /\ held' = [held EXCEPT ![d] = {}]

\* _write stores the samples.  A message that holds no reading, or one the guard
\* refuses, counts as handled.
Store(d) ==
  /\ task[d] = "write"
  /\ stored' = [stored EXCEPT ![d] = @ \cup Samples(d)]
  /\ Done(d)
  /\ UNCHANGED <<subscriberVars, diskVars, lost, faults>>

\* Batches fail, write_many swallows that, and the task ends a success: it is
\* not retried.
StoreFails(d) ==
  /\ task[d] = "write"
  /\ Fault
  /\ \E failed \in SUBSET Samples(d) :
       /\ failed # {}
       /\ stored' = [stored EXCEPT ![d] = @ \cup (Samples(d) \ failed)]
       /\ lost' = lost \cup (failed \X {d})
  /\ Done(d)
  /\ UNCHANGED <<subscriberVars, diskVars>>

\* Another task took the file after the glob, or between the read and the
\* unlink: FileNotFoundError ends the attempt.
FileMissing(d) ==
  /\ \/ task[d] = "read" /\ \E f \in todo[d] : state[f] = "gone"
     \/ task[d] = "unlink" /\ state[current[d]] = "gone"
  /\ Done(d)
  /\ UNCHANGED <<subscriberVars, diskVars, stored, lost, faults>>

\* The worker dies or the attempt times out.  A retry and the next scheduled run
\* alike begin with a new glob.
TaskDies(d) ==
  /\ task[d] # "idle"
  /\ Fault
  /\ lost' = lost \cup ({m \in Samples(d) : ~OnDisk(m, d)} \X {d})
  /\ Done(d)
  /\ UNCHANGED <<subscriberVars, diskVars, stored>>

-------------------------------------------------------------------------------
Subscriber ==
  \/ Start
  \/ \E m \in Message : Receive(m)
  \/ \E p \in inbox : Append(p[1], p[2])
  \/ Timer
  \/ Stop
  \/ \E d \in Device : Rotate(d)
  \/ Stopped
  \/ Crash

Gate(d) ==
  \/ List(d)
  \/ Read(d)
  \/ Unlink(d)
  \/ AllRead(d)
  \/ Store(d)
  \/ StoreFails(d)
  \/ FileMissing(d)
  \/ TaskDies(d)

Next == Subscriber \/ \E d \in Device : Gate(d)

Spec == Init /\ [][Next]_vars

\* A subscriber that runs goes on with what it has begun and rotates when its
\* timer is due; Airflow keeps scheduling the gate, and a task that has started
\* ends.  Nobody need start or stop the subscriber.
Fairness ==
  /\ WF_vars(\E p \in inbox : Append(p[1], p[2]))
  /\ WF_vars(Timer)
  /\ WF_vars(\E d \in Device : Rotate(d))
  /\ \A d \in Device : WF_vars(Gate(d))

FairSpec == Spec /\ Fairness

-------------------------------------------------------------------------------
\* The values every variable may take.
TypeOK ==
  /\ subscriber \in {"up", "stopping", "down"}
  /\ received \in SUBSET Message
  /\ inbox \in SUBSET (Message \X Device)
  /\ handle \in [Device -> File \cup {NoFile}]
  /\ rotating \in SUBSET Device
  /\ state \in [File -> FileState]
  /\ content \in [File -> SUBSET Message]
  /\ task \in [Device -> TaskState]
  /\ todo \in [Device -> SUBSET File]
  /\ current \in [Device -> File \cup {NoFile}]
  /\ held \in [Device -> SUBSET Message]
  /\ stored \in [Device -> SUBSET Message]
  /\ lost \in SUBSET (Message \X Device)
  /\ faults \in Nat

\* Devices that share their files with no other: their glob matches nobody
\* else's files, and nobody else's glob matches theirs.
Apart == {d \in Device : Globbed[d] = {d} /\ \A e \in Device : d \in Globbed[e] => e = d}

\* Where a message for d may be: being routed, in a file of d, in the memory of its
\* task, stored, or lost by a fault.
Accounted(m, d) ==
  \/ <<m, d>> \in inbox \cup lost
  \/ OnDisk(m, d)
  \/ m \in held[d] \cup stored[d]

\* mqtt_spool.py: "Two things make the handover safe": a file set per device, and
\* handover by rename.  A message the subscriber took for a Device that does have
\* files of its own never vanishes, neither because a task reads a file still
\* being written to nor because another task deletes it.
HandoverIsSafe == \A m \in received : \A d \in Targets[m] \cap Apart : Accounted(m, d)

\* As long as nothing fails a message that is stored is in no file any more, so
\* no later run of its Device reads it again.
ReadOnce ==
  faults = 0 => \A d \in Apart : \A m \in stored[d] : ~OnDisk(m, d)

\* m is in a .part file no process has open.
Orphaned(m, d) ==
  \E f \in File : Owner(f) = d /\ state[f] = "part" /\ m \in content[f] /\ handle[d] # f

\* A message the subscriber took reaches InfluxDB, however quiet its topic is
\* afterwards, unless a fault takes it from memory or a crash leaves it in a
\* .part file.
Arrives ==
  \A m \in Message : \A d \in Apart :
    m \in received /\ d \in Targets[m] ~>
      m \in stored[d] \/ <<m, d>> \in lost \/ Orphaned(m, d)

-------------------------------------------------------------------------------
\* The inductive invariant.
Existing(f) == state[f] \in {"part", "finished"}

\* Each open handle is a .part file of its Device.
HandleInv ==
  /\ rotating \subseteq OpenFor
  /\ inbox = {} \/ rotating = {}
  /\ \A d \in OpenFor : Owner(handle[d]) = d /\ state[handle[d]] = "part"
  /\ \A f \in File : state[f] = "free" => content[f] = {}

\* A task touches only files its glob matches, which nobody writes to any more.
Listed(d, f) == f \in File /\ Owner(f) \in Globbed[d] /\ state[f] \in {"finished", "gone"}

GlobInv ==
  \A d \in Device :
    /\ \A f \in todo[d] : Listed(d, f)
    /\ task[d] = "unlink" => Listed(d, current[d])

\* What the task of a Device apart has listed are finished files of its own, nobody
\* else unlinks them, and it holds all of the file it is about to unlink.
TaskInv ==
  \A d \in Apart :
    /\ task[d] \in {"idle", "write"} => todo[d] = {}
    /\ \A f \in todo[d] : state[f] = "finished"
    /\ task[d] = "unlink" =>
         /\ current[d] \notin todo[d]
         /\ state[current[d]] = "finished"
         /\ content[current[d]] \subseteq held[d]

\* Without faults a message of such a Device is in one place only.
OnceInv ==
  faults = 0 =>
    \A d \in Apart :
      /\ \A m \in stored[d] \cup held[d] : m \in received /\ <<m, d>> \notin inbox
      /\ \A f \in File : Owner(f) = d /\ Existing(f) =>
           /\ \A m \in content[f] : m \in received /\ <<m, d>> \notin inbox
           /\ content[f] \cap stored[d] = {}
           /\ content[f] \cap held[d] # {} => task[d] = "unlink" /\ f = current[d]
           /\ \A g \in File : Owner(g) = d /\ Existing(g) /\ g # f =>
                content[f] \cap content[g] = {}
      /\ task[d] = "idle" => held[d] = {}
      /\ \A m \in Message : <<m, d>> \in inbox => m \in received

SpoolInv ==
  /\ TypeOK
  /\ HandleInv
  /\ GlobInv
  /\ TaskInv
  /\ HandoverIsSafe
  /\ OnceInv
===============================================================================
