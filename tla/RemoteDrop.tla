------------------------------ MODULE RemoteDrop ------------------------------
(***************************************************************************)
(* The file gates: a partner's server, the local mirror remote_drop keeps  *)
(* of it, and the tasks of a run, one per Device, which run in parallel,   *)
(* each of which first brings the mirror up to date and then parses it.    *)
(* csv_drop, excel_drop and xml_drop are tasks with nothing to bring.      *)
(*                                                                         *)
(* A file is a sequence of rows <<device, instant>>; its size is its       *)
(* length.  A row is what one write puts down, so a transfer can be seen   *)
(* half done.                                                              *)
(***************************************************************************)
EXTENDS Naturals, Sequences, FiniteSets

CONSTANTS
  Name,           \* the file names that match the pattern
  Task,           \* the tasks of a run, which are the Devices
  Version,        \* what the partner may upload under each name: sequences of rows
  Unreadable,     \* the uploads no reader makes sense of
  Protocols,      \* among "sftp", "ftp", and "none" for a plain drop
  Retries,        \* of a task
  Start,          \* the lower bounds of the windows
  MaxUploads,     \* bound on the uploads of one behaviour
  MaxFaults,      \* bound on the failures of one behaviour
  Hole,           \* what lies between the end of a file and a write beyond it
  Absent          \* no such file

ASSUME RemoteDropAssumption ==
  /\ Version \in [Name -> SUBSET Seq(Task \X Nat)]
  /\ Protocols \subseteq {"sftp", "ftp", "none"}
  /\ Start \subseteq Nat
  /\ Retries \in Nat
  /\ Absent \notin Name
  /\ Absent \notin Seq((Task \X Nat) \cup {Hole})

VARIABLES
  protocol, deletes,   \* options of the gate; deletes is delete_after_download
  remote,         \* the partner's directory
  mirror,         \* the local one
  phase,          \* of each task: "idle", "listed", "wanted", "writing", "written",
                  \* "parsing", "done", "failed"
  listing,        \* the names it has still to look at, with their sizes
  name,           \* the file it is at
  reading,        \* the remote file it transfers ...
  offset,         \* ... and how far it is
  files,          \* the local files it has still to read
  start,          \* the lower bound of its window
  answer,         \* the rows it has got
  tries,          \* how often it failed in this run
  uploads, faults,
  deleted,        \* history: what the server had of a file when the gate deleted it
  overtaken,      \* history: files uploaded anew while a task transferred them
  ambiguous,      \* history: files whose size does not tell their versions apart
  alone,          \* history: tasks that no other task, upload or failure has met
  crowded         \* history: two tasks have synced at the same time

optionVars == <<protocol, deletes>>
syncVars == <<listing, name, reading, offset>>
parseVars == <<files, start, answer, tries>>
boundVars == <<uploads, faults>>
historyVars == <<deleted, overtaken, ambiguous, alone, crowded>>
Content == UNION {Version[n] : n \in Name}
vars == <<optionVars, remote, mirror, phase, syncVars, parseVars, boundVars, historyVars>>

Syncing == {t \in Task : phase[t] \in {"listed", "wanted", "writing", "written"}}
Busy == Syncing \cup {t \in Task : phase[t] = "parsing"}
Present(dir) == {n \in Name : dir[n] # Absent}
Size(file) == Len(file)

Init ==
  /\ protocol \in Protocols
  /\ deletes \in IF protocol = "none" THEN {FALSE} ELSE BOOLEAN
  /\ remote = [n \in Name |-> Absent]
  /\ mirror = [n \in Name |-> Absent]
  /\ phase = [t \in Task |-> "idle"]
  /\ listing = [t \in Task |-> {}]
  /\ name = [t \in Task |-> Absent]
  /\ reading = [t \in Task |-> Absent]
  /\ offset = [t \in Task |-> 0]
  /\ files = [t \in Task |-> {}]
  /\ start = [t \in Task |-> 0]
  /\ answer = [t \in Task |-> {}]
  /\ tries = [t \in Task |-> 0]
  /\ uploads = 0
  /\ faults = 0
  /\ deleted = [n \in Name |-> Absent]
  /\ overtaken = {}
  /\ ambiguous = {}
  /\ alone = {}
  /\ crowded = FALSE

-------------------------------------------------------------------------------
\* The partner.  A plain drop is a directory the partner writes to itself.
Moving(t) == phase[t] \in {"writing", "written"}
Overtaken(n) == \E t \in Task : phase[t] \in {"wanted", "writing", "written"} /\ name[t] = n
SameSize(n, c) == mirror[n] # Absent /\ mirror[n] # c /\ Size(mirror[n]) = Size(c)

Upload(n) ==
  /\ uploads < MaxUploads
  /\ \E c \in Version[n] :
       IF protocol = "none"
       THEN mirror' = [mirror EXCEPT ![n] = c] /\ UNCHANGED <<remote, ambiguous>>
       ELSE /\ remote' = [remote EXCEPT ![n] = c]
            /\ ambiguous' = IF Overtaken(n) \/ SameSize(n, c) THEN ambiguous \cup {n} ELSE ambiguous \ {n}
            /\ UNCHANGED mirror
  /\ uploads' = uploads + 1
  /\ deleted' = [deleted EXCEPT ![n] = Absent]
  /\ overtaken' = IF \E t \in Task : Moving(t) /\ name[t] = n THEN overtaken \cup {n} ELSE overtaken \ {n}
  /\ alone' = {}
  /\ UNCHANGED <<optionVars, phase, syncVars, parseVars, faults, crowded>>

\* Their retention rules.
Withdraw(n) ==
  /\ remote[n] # Absent
  /\ remote' = [remote EXCEPT ![n] = Absent]
  /\ alone' = {}
  /\ UNCHANGED <<optionVars, mirror, phase, syncVars, parseVars, boundVars, deleted, overtaken, ambiguous, crowded>>

-------------------------------------------------------------------------------
\* max_active_runs is 1: the tasks of the next run wait for those of this one.  A
\* task that failed is tried again, a number of times.
NextRun ==
  /\ \A t \in Task : phase[t] \in {"done", "failed"}
  /\ tries' = [t \in Task |-> 0]
  /\ phase' = [t \in Task |-> "idle"]
  /\ answer' = [t \in Task |-> {}]
  /\ start' = [t \in Task |-> 0]
  /\ UNCHANGED <<optionVars, remote, mirror, syncVars, files, boundVars, historyVars>>

\* A task, from prepare to the answer of fetch.  listdir_attr gives the sizes
\* with the names, nlst the names alone.
Begin(t) ==
  /\ phase[t] = "idle"
  /\ phase' = [phase EXCEPT ![t] = "listed"]
  /\ listing' = [listing EXCEPT ![t] = {<<n, Size(remote[n])>> : n \in Present(remote)}]
  /\ \E s \in Start : start' = [start EXCEPT ![t] = s]
  /\ alone' = (alone \ (Busy \cup {t})) \cup (IF Busy = {} THEN {t} ELSE {})
  /\ crowded' = (crowded \/ Syncing # {})
  /\ UNCHANGED <<optionVars, remote, mirror, name, reading, offset, files, answer, tries, boundVars,
                 deleted, overtaken, ambiguous>>

\* _wanted: not if the mirror has a file of that name and size.
WantedByName(n, size) == mirror[n] = Absent   \* mutation
WantedIfThere(n, size) == mirror[n] # Absent /\ Size(mirror[n]) # size   \* mutation
Wanted(n, size) == ~(mirror[n] # Absent /\ Size(mirror[n]) = size)

\* SIZE of a file that is gone is an error, and the file is passed over.
SizeSeen(entry) ==
  IF protocol = "ftp" THEN (IF remote[entry[1]] = Absent THEN {} ELSE {Size(remote[entry[1]])})
  ELSE {entry[2]}

Look(t) ==
  /\ phase[t] = "listed"
  /\ \E entry \in listing[t] :
       /\ listing' = [listing EXCEPT ![t] = @ \ {entry}]
       /\ IF \E size \in SizeSeen(entry) : Wanted(entry[1], size)
          THEN phase' = [phase EXCEPT ![t] = "wanted"] /\ name' = [name EXCEPT ![t] = entry[1]]
          ELSE UNCHANGED <<phase, name>>
  /\ UNCHANGED <<optionVars, remote, mirror, reading, offset, parseVars, boundVars, historyVars>>

Raised(t) ==
  /\ phase' = [phase EXCEPT ![t] = IF tries[t] < Retries THEN "idle" ELSE "failed"]
  /\ tries' = [tries EXCEPT ![t] = IF @ < Retries THEN @ + 1 ELSE @]
  /\ listing' = [listing EXCEPT ![t] = {}]
  /\ name' = [name EXCEPT ![t] = Absent]
  /\ reading' = [reading EXCEPT ![t] = Absent]
  /\ offset' = [offset EXCEPT ![t] = 0]
  /\ files' = [files EXCEPT ![t] = {}]
  /\ start' = [start EXCEPT ![t] = 0]
  /\ answer' = [answer EXCEPT ![t] = {}]

\* The local file is opened for writing, and so emptied, before the remote one
\* is asked for.
LeftAsItIs(n) == IF mirror[n] = Absent THEN [mirror EXCEPT ![n] = <<>>] ELSE mirror   \* mutation
Emptied(n) == [mirror EXCEPT ![n] = <<>>]

Open(t) ==
  /\ phase[t] = "wanted"
  /\ mirror' = Emptied(name[t])
  /\ IF remote[name[t]] = Absent
     THEN Raised(t)
     ELSE /\ phase' = [phase EXCEPT ![t] = "writing"]
          /\ reading' = [reading EXCEPT ![t] = remote[name[t]]]
          /\ UNCHANGED <<listing, name, offset, parseVars>>
  /\ UNCHANGED <<optionVars, remote, boundVars, historyVars>>

\* A write at the task's own position in the file, wherever the file ends now.
Written(file, k, row) ==
  [i \in 1..(IF k > Size(file) THEN k ELSE Size(file)) |->
     IF i = k THEN row ELSE IF i <= Size(file) THEN file[i] ELSE Hole]

Write(t) ==
  /\ phase[t] = "writing"
  /\ offset[t] < Size(reading[t])
  /\ offset' = [offset EXCEPT ![t] = @ + 1]
  /\ mirror' = [mirror EXCEPT ![name[t]] = Written(@, offset'[t], reading[t][offset'[t]])]
  /\ UNCHANGED <<optionVars, remote, phase, listing, name, reading, parseVars, boundVars, historyVars>>

NextFile(t) ==
  /\ phase' = [phase EXCEPT ![t] = "listed"]
  /\ name' = [name EXCEPT ![t] = Absent]
  /\ reading' = [reading EXCEPT ![t] = Absent]
  /\ offset' = [offset EXCEPT ![t] = 0]

WholeButOne(t) == offset[t] + 1 >= Size(reading[t])   \* mutation
Transferred(t) == offset[t] = Size(reading[t])

\* paramiko compares the size of the local file with what it transferred.
Confirmed(t) == protocol = "sftp" => Size(mirror[name[t]]) = Size(reading[t])

Close(t) ==
  /\ phase[t] = "writing"
  /\ Transferred(t)
  /\ \/ /\ Confirmed(t) /\ deletes
        /\ phase' = [phase EXCEPT ![t] = "written"]
        /\ UNCHANGED <<syncVars, parseVars>>
     \/ /\ Confirmed(t) /\ ~deletes
        /\ NextFile(t)
        /\ UNCHANGED <<listing, parseVars>>
     \/ ~Confirmed(t) /\ Raised(t)
  /\ UNCHANGED <<optionVars, remote, mirror, boundVars, historyVars>>

\* delete_after_download removes what has the name by then.
Remove(t) ==
  /\ phase[t] = "written"
  /\ IF remote[name[t]] = Absent
     THEN Raised(t) /\ UNCHANGED <<remote, deleted>>
     ELSE /\ remote' = [remote EXCEPT ![name[t]] = Absent]
          /\ deleted' = [deleted EXCEPT ![name[t]] = remote[name[t]]]
          /\ NextFile(t)
          /\ UNCHANGED <<listing, parseVars>>
  /\ UNCHANGED <<optionVars, mirror, boundVars, overtaken, ambiguous, alone, crowded>>

\* The connection breaks, or the worker dies.
Break(t) ==
  /\ faults < MaxFaults
  /\ t \in Busy
  /\ Raised(t)
  /\ faults' = faults + 1
  /\ alone' = {}
  /\ UNCHANGED <<optionVars, remote, mirror, uploads, deleted, overtaken, ambiguous, crowded>>

Parse(t) ==
  /\ phase[t] = "listed"
  /\ listing[t] = {}
  /\ phase' = [phase EXCEPT ![t] = "parsing"]
  /\ files' = [files EXCEPT ![t] = Present(mirror)]
  /\ UNCHANGED <<optionVars, remote, mirror, syncVars, start, answer, tries, boundVars, historyVars>>

\* The rows of the Device and the window.  A file that cannot be read costs no
\* other file; one that is not whole may or may not be readable.
RowsOf(t, file) ==
  {file[i] : i \in {j \in DOMAIN file : file[j] # Hole /\ file[j][1] = t /\ start[t] < file[j][2]}}
MayBeRead(file) == file \notin Unreadable
MayBeSkipped(file) == file \notin Content \ Unreadable

Read(t) ==
  /\ phase[t] = "parsing"
  /\ \E n \in files[t] :
       /\ files' = [files EXCEPT ![t] = @ \ {n}]
       /\ \/ /\ MayBeRead(mirror[n])
             /\ answer' = [answer EXCEPT ![t] = @ \cup RowsOf(t, mirror[n])]
          \/ /\ MayBeSkipped(mirror[n])
             /\ UNCHANGED answer
  /\ UNCHANGED <<optionVars, remote, mirror, phase, syncVars, start, tries, boundVars, historyVars>>

Return(t) ==
  /\ phase[t] = "parsing"
  /\ files[t] = {}
  /\ phase' = [phase EXCEPT ![t] = "done"]
  /\ UNCHANGED <<optionVars, remote, mirror, syncVars, parseVars, boundVars, historyVars>>

Sync(t) == Begin(t) \/ Look(t) \/ Open(t) \/ Write(t) \/ Close(t) \/ Remove(t)
Fetch(t) == Parse(t) \/ Read(t) \/ Return(t)
Next ==
  \/ \E n \in Name : Upload(n) \/ Withdraw(n)
  \/ NextRun
  \/ \E t \in Task : Sync(t) \/ Fetch(t) \/ Break(t)

\* Airflow runs the tasks again and again; nothing is asked of the partner.
Spec == Init /\ [][Next]_vars /\ WF_vars(NextRun) /\ \A t \in Task : WF_vars(Sync(t) \/ Fetch(t))

-------------------------------------------------------------------------------
File == Seq((Task \X Nat) \cup {Hole})
TypeOK ==
  /\ protocol \in Protocols /\ deletes \in BOOLEAN
  /\ remote \in [Name -> Content \cup {Absent}]
  /\ \A n \in Name : remote[n] \in Version[n] \cup {Absent}
  /\ mirror \in [Name -> File \cup {Absent}]
  /\ phase \in [Task -> {"idle", "listed", "wanted", "writing", "written", "parsing", "done", "failed"}]
  /\ listing \in [Task -> SUBSET (Name \X Nat)]
  /\ name \in [Task -> Name \cup {Absent}]
  /\ reading \in [Task -> Content \cup {Absent}]
  /\ offset \in [Task -> Nat]
  /\ files \in [Task -> SUBSET Name]
  /\ start \in [Task -> Nat]
  /\ answer \in [Task -> SUBSET (Task \X Nat)]
  /\ faults \in Nat
  /\ deleted \in [Name -> Content \cup {Absent}]
  /\ overtaken \subseteq ambiguous /\ ambiguous \subseteq Name /\ alone \subseteq Task /\ crowded \in BOOLEAN
  /\ \A t \in Task :
       /\ (phase[t] \in {"wanted", "writing", "written"}) = (name[t] # Absent)
       /\ (phase[t] \in {"writing", "written"}) = (reading[t] # Absent)
       /\ IF reading[t] # Absent THEN offset[t] <= Size(reading[t]) ELSE offset[t] = 0
  /\ deletes \/ \A n \in Name : deleted[n] = Absent

\* What there is of a file: the server's version, or the one the gate deleted.
Known(n) ==
  CASE protocol = "none" -> mirror[n]
    [] protocol # "none" /\ remote[n] # Absent -> remote[n]
    [] OTHER -> deleted[n]

Whole(t) ==
  \A n \in Name \ ambiguous :
    Known(n) \in Content \ Unreadable => RowsOf(t, Known(n)) \subseteq answer[t]

\* The mirror is shared, but no transfer has failed in the midst of another.
NoMixture == ~crowded \/ (faults = 0 /\ ~deletes)

\* fetch of a Device returns every row of the window that the files have for it,
\* corrected and completed ones included, and whatever earlier transfers left
\* half done, if no other task and no change of the server comes between.
AnswerIsWhole == NoMixture => \A t \in alone : phase[t] = "done" => Whole(t)

\* remote_drop.py:34: a transfer that fails leaves nothing half-parsed, also when
\* the tasks of several Devices bring the mirror up to date.
NothingHalfParsed == ~deletes => \A t \in alone : phase[t] = "done" => Whole(t)

\* remote_drop.py:35: the local directory is the record of what was received.  It
\* has every file that the gate deleted on the server, as the server had it then,
\* unless it was uploaded anew while it was transferred: remove takes what has
\* the name, and such an upload is deleted unread.
Received == \A n \in Name \ overtaken : deleted[n] # Absent => mirror[n] = deleted[n]

\* ... as long as no two tasks sync at a time: of two, one may empty the file that
\* the other has received and deleted on the server.
ReceivedAlone == ~crowded => Received

\* The inductive invariant behind the two.  A task is at one file at a time, none
\* that it has still to look at, and a plain drop has nothing to bring.
Listed(t) == {entry[1] : entry \in listing[t]}
AtOneFile(t) ==
  /\ \A d, e \in listing[t] : d[1] = e[1] => d = e
  /\ name[t] \notin Listed(t)
  /\ files[t] \subseteq Present(mirror)
  /\ Moving(t) => mirror[name[t]] # Absent
  /\ phase[t] = "written" => deletes /\ offset[t] = Size(reading[t])
  /\ protocol = "none" => listing[t] = {} /\ name[t] = Absent
  /\ Moving(t) /\ name[t] \notin overtaken => remote[name[t]] \in {reading[t], Absent}
TaskInv == \A t \in Task : AtOneFile(t)

\* Without a crowd there is one transfer, the mirror has what it has read, and
\* what was deleted on the server is not looked at again.
OneTransfer ==
  /\ \A t, u \in Syncing : t = u
  /\ \A t \in Task : Moving(t) => mirror[name[t]] = SubSeq(reading[t], 1, offset[t])
  /\ \A t \in Syncing : \A n \in Listed(t) \cup {name[t]} : n \in Name => deleted[n] = Absent
LoneInv == ~crowded => OneTransfer

GoneInv ==
  /\ \A n \in Name : deleted[n] # Absent => remote[n] = Absent
  /\ protocol = "none" => \A n \in Name : remote[n] = Absent
  /\ protocol = "none" => ~deletes

\* A row of a file is in its place, or one of the tasks that write the file will
\* come to it, or none has come to it yet.
Writers(n) == {t \in Task : phase[t] = "writing" /\ name[t] = n}
InPlace(n, i) == i <= Size(mirror[n]) /\ mirror[n][i] = remote[n][i]
Rewritten(n) ==
  /\ Size(mirror[n]) <= Size(remote[n])
  /\ \A i \in 1..Size(remote[n]) :
       \/ InPlace(n, i)
       \/ \E t \in Writers(n) : offset[t] < i
       \/ Writers(n) = {} /\ i > Size(mirror[n])

\* So its size tells whether the mirror has a file, but where it is ambiguous.
Told(n) ==
  remote[n] # Absent /\ mirror[n] # Absent =>
    \/ Rewritten(n)
    \/ Size(mirror[n]) # Size(remote[n]) /\ \A t \in Task : Moving(t) => name[t] # n
SizeTells == NoMixture => \A n \in Name \ ambiguous : Told(n)

\* A task that no other meets finds the server as it was when it began.
AloneInv ==
  \A t \in alone :
    /\ t \in Busy => Busy = {t}
    /\ t \in Syncing =>
         \A entry \in listing[t] : remote[entry[1]] # Absent /\ entry[2] = Size(remote[entry[1]])

\* What it has looked at is in the mirror, and what it has parsed in its answer.
Brought(t) ==
  \A n \in Name \ ambiguous :
    remote[n] # Absent => n \in Listed(t) \cup {name[t]} \/ mirror[n] = remote[n]
Parsed(t) ==
  \A n \in Name \ ambiguous :
    Known(n) \in Content \ Unreadable =>
      mirror[n] = Known(n) /\ (n \in files[t] \/ RowsOf(t, Known(n)) \subseteq answer[t])
ProgressInv ==
  NoMixture =>
    \A t \in alone : (t \in Syncing => Brought(t)) /\ (phase[t] = "parsing" => Parsed(t))

DropInv ==
  /\ TypeOK /\ TaskInv /\ LoneInv /\ GoneInv /\ ReceivedAlone
  /\ SizeTells /\ AloneInv /\ ProgressInv /\ AnswerIsWhole

\* However many tasks share the mirror, and however the only one fails: once the
\* partner is quiet, it has every file that is on the server.
Mirrored == \A n \in Present(remote) \ ambiguous : mirror[n] = remote[n]
EventuallyMirrored == <>[](NoMixture => Mirrored)
===============================================================================
