--------------------------- MODULE RemoteDropProofs ---------------------------
(***************************************************************************)
(* DropInv is inductive, for any Devices, files, versions of a file and    *)
(* interleaving of uploads, transfers, parses and failures.                *)
(*                                                                         *)
(* A step of a task is quiet, or it is one at the file the task transfers. *)
(* Quiet steps leave the mirror and the server as they are; of the others  *)
(* it has to be shown that they keep the size of a file telling (Told),    *)
(* since a file of the right size is never looked at again.                *)
(***************************************************************************)
EXTENDS RemoteDrop, TLAPS

-------------------------------------------------------------------------------
\* Files and what there is instead of one.
Row == Task \X Nat

LEMMA Contents ==
  /\ \A n \in Name : Version[n] \subseteq Content /\ Version[n] \subseteq Seq(Row)
  /\ Content \subseteq Seq(Row)
  /\ Content \subseteq File
  /\ Absent \notin File
  /\ Absent \notin Name
  /\ Absent \notin Content
<1>1. \A n \in Name : Version[n] \subseteq Content /\ Version[n] \subseteq Seq(Row)
  BY RemoteDropAssumption DEF Content, Row
<1>2. Content \subseteq Seq(Row)
  BY <1>1 DEF Content
<1>3. Seq(Row) \subseteq File
  BY DEF File, Row
<1> QED
  BY <1>1, <1>2, <1>3, RemoteDropAssumption DEF File

LEMMA SizeType == \A f \in File : Size(f) \in Nat /\ DOMAIN f = 1..Size(f)
BY DEF Size, File

LEMMA WrittenType ==
  ASSUME NEW f \in File, NEW k \in Nat \ {0}, NEW row \in Row
  PROVE  /\ Written(f, k, row) \in File
         /\ Size(Written(f, k, row)) = IF k > Size(f) THEN k ELSE Size(f)
         /\ \A i \in 1..Size(Written(f, k, row)) :
              Written(f, k, row)[i] = IF i = k THEN row ELSE IF i <= Size(f) THEN f[i] ELSE Hole
<1> DEFINE n == IF k > Size(f) THEN k ELSE Size(f)
<1>1. n \in Nat
  BY SizeType
<1>2. \A i \in 1..n : i \in 1..Size(f) => f[i] \in Row \cup {Hole}
  BY DEF File, Row, Size
<1>3. Written(f, k, row) \in [1..n -> Row \cup {Hole}]
  BY <1>2, SizeType DEF Written
<1>4. Written(f, k, row) \in File /\ Len(Written(f, k, row)) = n
  BY <1>1, <1>3 DEF File, Row
<1> QED
  BY <1>1, <1>4 DEF Written, Size

\* The steps of one task leave the others as they are.
OthersSame(t) ==
  \A u \in Task \ {t} :
    /\ phase'[u] = phase[u] /\ listing'[u] = listing[u] /\ name'[u] = name[u]
    /\ reading'[u] = reading[u] /\ offset'[u] = offset[u] /\ files'[u] = files[u]
    /\ start'[u] = start[u] /\ answer'[u] = answer[u]

LEMMA RaisedStep ==
  ASSUME TypeOK, NEW t \in Task, Raised(t)
  PROVE  /\ OthersSame(t)
         /\ phase'[t] \in {"idle", "failed"} /\ listing'[t] = {} /\ name'[t] = Absent
         /\ reading'[t] = Absent /\ offset'[t] = 0
BY DEF TypeOK, Raised, OthersSame

LEMMA RaisedType ==
  ASSUME TypeOK, NEW t \in Task, Raised(t),
         UNCHANGED <<optionVars, crowded, faults>> \/ (UNCHANGED <<optionVars, crowded>> /\ faults' = faults + 1),
         remote' \in [Name -> Content \cup {Absent}], \A n \in Name : remote'[n] \in {remote[n], Absent},
         mirror' \in [Name -> File \cup {Absent}],
         deleted' = deleted, overtaken' = overtaken, ambiguous' = ambiguous, alone' \subseteq alone
  PROVE  TypeOK'
<1>1. /\ phase' \in [Task -> {"idle", "listed", "wanted", "writing", "written", "parsing", "done", "failed"}]
      /\ listing' \in [Task -> SUBSET (Name \X Nat)]
      /\ name' \in [Task -> Name \cup {Absent}]
      /\ reading' \in [Task -> Content \cup {Absent}]
      /\ offset' \in [Task -> Nat]
      /\ files' \in [Task -> SUBSET Name]
      /\ start' \in [Task -> Nat]
      /\ answer' \in [Task -> SUBSET (Task \X Nat)]
  BY DEF TypeOK, Raised
<1>2. \A u \in Task :
       /\ (phase'[u] \in {"wanted", "writing", "written"}) = (name'[u] # Absent)
       /\ (phase'[u] \in {"writing", "written"}) = (reading'[u] # Absent)
       /\ IF reading'[u] # Absent THEN offset'[u] <= Size(reading'[u]) ELSE offset'[u] = 0
  BY RaisedStep DEF TypeOK, OthersSame
<1> QED
  BY <1>1, <1>2 DEF TypeOK, optionVars, Size

LEMMA BeginType ==
  ASSUME TypeOK, NEW t \in Task, Begin(t)
  PROVE  TypeOK'
<1>1. listing' \in [Task -> SUBSET (Name \X Nat)]
  <2>1. \A n \in Present(remote) : Size(remote[n]) \in Nat
    BY Contents, SizeType DEF TypeOK, Present
  <2> QED
    BY <2>1 DEF TypeOK, Begin, Present
<1>2. start' \in [Task -> Nat]
  BY RemoteDropAssumption DEF TypeOK, Begin
<1>3. phase' \in [Task -> {"idle", "listed", "wanted", "writing", "written", "parsing", "done", "failed"}]
  BY DEF TypeOK, Begin
<1>4. alone' \subseteq Task /\ crowded' \in BOOLEAN
  BY DEF TypeOK, Begin
<1>5. \A u \in Task :
       /\ (phase'[u] \in {"wanted", "writing", "written"}) = (name[u] # Absent)
       /\ (phase'[u] \in {"writing", "written"}) = (reading[u] # Absent)
       /\ IF reading[u] # Absent THEN offset[u] <= Size(reading[u]) ELSE offset[u] = 0
  BY DEF TypeOK, Begin
<1> QED
  BY <1>1, <1>2, <1>3, <1>4, <1>5 DEF TypeOK, Begin, optionVars, boundVars

LEMMA LookType ==
  ASSUME TypeOK, NEW t \in Task, Look(t)
  PROVE  TypeOK'
<1>1. PICK entry \in listing[t] :
       /\ listing' = [listing EXCEPT ![t] = @ \ {entry}]
       /\ IF \E size \in SizeSeen(entry) : Wanted(entry[1], size)
          THEN phase' = [phase EXCEPT ![t] = "wanted"] /\ name' = [name EXCEPT ![t] = entry[1]]
          ELSE UNCHANGED <<phase, name>>
  BY DEF Look
<1>2. entry[1] \in Name /\ entry[1] # Absent
  BY Contents DEF TypeOK
<1>3. listing' \in [Task -> SUBSET (Name \X Nat)]
  BY <1>1 DEF TypeOK
<1>4. phase' \in [Task -> {"idle", "listed", "wanted", "writing", "written", "parsing", "done", "failed"}]
      /\ name' \in [Task -> Name \cup {Absent}]
  BY <1>1, <1>2 DEF TypeOK
<1>5. \A u \in Task :
       /\ (phase'[u] \in {"wanted", "writing", "written"}) = (name'[u] # Absent)
       /\ (phase'[u] \in {"writing", "written"}) = (reading[u] # Absent)
  BY <1>1, <1>2 DEF TypeOK, Look
<1> QED
  BY <1>3, <1>4, <1>5 DEF TypeOK, Look, optionVars, parseVars, boundVars, historyVars, Size

LEMMA OpenType ==
  ASSUME TypeOK, TaskInv, NEW t \in Task, Open(t)
  PROVE  TypeOK'
<1>1. name[t] \in Name
  BY DEF TypeOK, Open
<1>2. mirror' \in [Name -> File \cup {Absent}]
  BY DEF TypeOK, Open, Emptied, File
<1>3. CASE remote[name[t]] = Absent
  BY <1>2, <1>3, RaisedType DEF Open, optionVars, boundVars, historyVars, TypeOK
<1>4. CASE remote[name[t]] # Absent
  <2>1. reading' \in [Task -> Content \cup {Absent}]
    BY <1>1, <1>4 DEF TypeOK, Open
  <2>2. phase' \in [Task -> {"idle", "listed", "wanted", "writing", "written", "parsing", "done", "failed"}]
    BY <1>4 DEF TypeOK, Open
  <2>3. \A u \in Task :
       /\ (phase'[u] \in {"wanted", "writing", "written"}) = (name[u] # Absent)
       /\ (phase'[u] \in {"writing", "written"}) = (reading'[u] # Absent)
       /\ IF reading'[u] # Absent THEN offset[u] <= Size(reading'[u]) ELSE offset[u] = 0
    <3>1. reading'[t] \in Content
      BY <1>1, <1>4 DEF TypeOK, Open
    <3>2. offset[t] = 0
      BY DEF TypeOK, Open
    <3>3. 0 <= Size(reading'[t])
      BY <3>1, Contents, SizeType
    <3> QED
      BY <1>1, <1>4, <3>1, <3>2, <3>3, Contents DEF TypeOK, Open
  <2> QED
    BY <1>2, <1>4, <2>1, <2>2, <2>3 DEF TypeOK, Open, optionVars, parseVars, boundVars, historyVars
<1> QED
  BY <1>3, <1>4

LEMMA WriteType ==
  ASSUME TypeOK, TaskInv, NEW t \in Task, Write(t)
  PROVE  TypeOK'
<1>1. name[t] \in Name /\ reading[t] \in Content /\ mirror[name[t]] \in File
  BY DEF TypeOK, TaskInv, AtOneFile, Write, Moving
<1>2. offset'[t] = offset[t] + 1 /\ offset'[t] \in 1..Size(reading[t])
  BY <1>1, Contents, SizeType DEF TypeOK, Write
<1>3. reading[t][offset'[t]] \in Row
  BY <1>1, <1>2, Contents DEF Size
<1>4. mirror' \in [Name -> File \cup {Absent}]
  BY <1>1, <1>2, <1>3, WrittenType DEF TypeOK, Write
<1>5. \A u \in Task : IF reading[u] # Absent THEN offset'[u] <= Size(reading[u]) ELSE offset'[u] = 0
  BY <1>1, <1>2, Contents, SizeType DEF TypeOK, Write
<1>6. offset' \in [Task -> Nat]
  BY DEF TypeOK, Write
<1> QED
  BY <1>4, <1>5, <1>6 DEF TypeOK, Write, optionVars, parseVars, boundVars, historyVars

LEMMA NextFileStep ==
  ASSUME TypeOK, NEW t \in Task, NextFile(t), UNCHANGED <<listing, parseVars>>
  PROVE  /\ OthersSame(t)
         /\ phase'[t] = "listed" /\ name'[t] = Absent /\ reading'[t] = Absent /\ offset'[t] = 0
         /\ phase' \in [Task -> {"idle", "listed", "wanted", "writing", "written", "parsing", "done", "failed"}]
         /\ name' \in [Task -> Name \cup {Absent}]
         /\ reading' \in [Task -> Content \cup {Absent}]
         /\ offset' \in [Task -> Nat]
         /\ \A u \in Task :
              /\ (phase'[u] \in {"wanted", "writing", "written"}) = (name'[u] # Absent)
              /\ (phase'[u] \in {"writing", "written"}) = (reading'[u] # Absent)
              /\ IF reading'[u] # Absent THEN offset'[u] <= Size(reading'[u]) ELSE offset'[u] = 0
<1>1. /\ OthersSame(t)
      /\ phase'[t] = "listed" /\ name'[t] = Absent /\ reading'[t] = Absent /\ offset'[t] = 0
  BY DEF TypeOK, NextFile, OthersSame, parseVars
<1> QED
  BY <1>1 DEF TypeOK, NextFile, OthersSame

LEMMA CloseType ==
  ASSUME TypeOK, NEW t \in Task, Close(t)
  PROVE  TypeOK'
<1>1. CASE Confirmed(t) /\ deletes /\ phase' = [phase EXCEPT ![t] = "written"] /\ UNCHANGED <<syncVars, parseVars>>
  BY <1>1 DEF TypeOK, Close, optionVars, syncVars, parseVars, boundVars, historyVars
<1>2. CASE NextFile(t) /\ UNCHANGED <<listing, parseVars>>
  BY <1>2, NextFileStep DEF TypeOK, Close, optionVars, parseVars, boundVars, historyVars
<1>3. CASE Raised(t)
  BY <1>3, RaisedType DEF Close, optionVars, boundVars, historyVars, TypeOK
<1> QED
  BY <1>1, <1>2, <1>3 DEF Close

LEMMA RemoveType ==
  ASSUME TypeOK, TaskInv, NEW t \in Task, Remove(t)
  PROVE  TypeOK'
<1>1. name[t] \in Name /\ reading[t] \in Content /\ deletes
  BY DEF TypeOK, TaskInv, AtOneFile, Remove
<1>2. CASE remote[name[t]] = Absent
  BY <1>2, RaisedType DEF Remove, optionVars, boundVars, TypeOK
<1>3. CASE remote[name[t]] # Absent
  <2>1. deleted' \in [Name -> Content \cup {Absent}] /\ remote' \in [Name -> Content \cup {Absent}]
    BY <1>1, <1>3 DEF TypeOK, Remove
  <2>2. \A n \in Name : remote'[n] \in Version[n] \cup {Absent}
    BY <1>1, <1>3 DEF TypeOK, Remove
  <2> QED
    BY <1>1, <1>3, <2>1, <2>2, NextFileStep DEF TypeOK, Remove, optionVars, parseVars, boundVars
<1> QED
  BY <1>2, <1>3

LEMMA BreakType ==
  ASSUME TypeOK, NEW t \in Task, Break(t)
  PROVE  TypeOK'
BY RaisedType DEF Break, optionVars, TypeOK

LEMMA RowsType ==
  ASSUME NEW t \in Task, NEW f \in File
  PROVE  RowsOf(t, f) \subseteq Row
BY DEF RowsOf, File, Row

LEMMA FetchType ==
  ASSUME TypeOK, TaskInv, NEW t \in Task, Fetch(t)
  PROVE  TypeOK'
<1>1. CASE Parse(t)
  BY <1>1 DEF TypeOK, Parse, Present, optionVars, syncVars, boundVars, historyVars
<1>2. CASE Read(t)
  <2>1. PICK n \in files[t] :
         /\ files' = [files EXCEPT ![t] = @ \ {n}]
         /\ \/ answer' = [answer EXCEPT ![t] = @ \cup RowsOf(t, mirror[n])]
            \/ UNCHANGED answer
    BY <1>2 DEF Read
  <2>2. files' \in [Task -> SUBSET Name]
    BY <2>1 DEF TypeOK
  <2>3. answer' \in [Task -> SUBSET (Task \X Nat)]
    <3>1. n \in Name /\ mirror[n] \in File
      BY DEF TypeOK, TaskInv, AtOneFile, Present
    <3> QED
      BY <2>1, <3>1, RowsType DEF TypeOK, Row
  <2> QED
    BY <1>2, <2>2, <2>3 DEF TypeOK, Read, optionVars, syncVars, boundVars, historyVars
<1>3. CASE Return(t)
  BY <1>3 DEF TypeOK, Return, optionVars, syncVars, parseVars, boundVars, historyVars
<1> QED
  BY <1>1, <1>2, <1>3 DEF Fetch

LEMMA UploadType ==
  ASSUME TypeOK, TaskInv, NEW n \in Name, Upload(n)
  PROVE  TypeOK'
<1>1. PICK c \in Version[n] :
       IF protocol = "none"
       THEN mirror' = [mirror EXCEPT ![n] = c] /\ UNCHANGED <<remote, ambiguous>>
       ELSE /\ remote' = [remote EXCEPT ![n] = c]
            /\ ambiguous' = IF Overtaken(n) \/ SameSize(n, c) THEN ambiguous \cup {n} ELSE ambiguous \ {n}
            /\ UNCHANGED mirror
  BY DEF Upload
<1>2. c \in Content /\ c \in File
  BY Contents
<1>3. /\ mirror' \in [Name -> File \cup {Absent}]
      /\ remote' \in [Name -> Content \cup {Absent}]
      /\ \A m \in Name : remote'[m] \in Version[m] \cup {Absent}
      /\ ambiguous' \subseteq Name
  BY <1>1, <1>2 DEF TypeOK
<1>4. deleted' \in [Name -> Content \cup {Absent}]
  BY DEF Upload, TypeOK
<1>5. overtaken' \subseteq ambiguous'
  <2>1. overtaken' = IF \E t \in Task : Moving(t) /\ name[t] = n THEN overtaken \cup {n} ELSE overtaken \ {n}
    BY DEF Upload
  <2>2. ASSUME NEW t \in Task, Moving(t), name[t] = n PROVE Overtaken(n) /\ protocol # "none"
    BY <2>2, RemoteDropAssumption DEF Moving, Overtaken, TaskInv, AtOneFile
  <2>3. overtaken \subseteq ambiguous
    BY DEF TypeOK
  <2> QED
    BY <1>1, <2>1, <2>2, <2>3
<1> QED
  BY <1>3, <1>4, <1>5 DEF TypeOK, Upload, optionVars, syncVars, parseVars

LEMMA WithdrawType ==
  ASSUME TypeOK, NEW n \in Name, Withdraw(n)
  PROVE  TypeOK'
BY DEF TypeOK, Withdraw, optionVars, syncVars, parseVars, boundVars

LEMMA NextRunType ==
  ASSUME TypeOK, NextRun
  PROVE  TypeOK'
BY DEF TypeOK, NextRun, optionVars, syncVars, boundVars, historyVars

LEMMA DropInit == Init => DropInv
<1> SUFFICES ASSUME Init PROVE DropInv
  OBVIOUS
<1>1. TypeOK
  <2>1. protocol \in Protocols /\ deletes \in BOOLEAN
    BY DEF Init
  <2>2. /\ remote = [n \in Name |-> Absent] /\ mirror = [n \in Name |-> Absent]
        /\ deleted = [n \in Name |-> Absent] /\ name = [t \in Task |-> Absent]
        /\ reading = [t \in Task |-> Absent] /\ offset = [t \in Task |-> 0]
        /\ phase = [t \in Task |-> "idle"]
    BY DEF Init
  <2>3. /\ listing \in [Task -> SUBSET (Name \X Nat)] /\ files \in [Task -> SUBSET Name]
        /\ start \in [Task -> Nat] /\ answer \in [Task -> SUBSET (Task \X Nat)]
        /\ faults \in Nat /\ overtaken \subseteq ambiguous /\ ambiguous \subseteq Name /\ alone \subseteq Task /\ crowded \in BOOLEAN
    BY DEF Init
  <2> QED
    BY <2>1, <2>2, <2>3 DEF TypeOK
<1>2. TaskInv /\ LoneInv /\ GoneInv
  BY RemoteDropAssumption DEF Init, TaskInv, AtOneFile, LoneInv, OneTransfer, GoneInv, Moving, Listed, Syncing
<1>3. ReceivedAlone /\ SizeTells /\ AloneInv /\ ProgressInv /\ AnswerIsWhole
  BY DEF Init, ReceivedAlone, Received, SizeTells, Told, AloneInv, ProgressInv, AnswerIsWhole
<1> QED
  BY <1>1, <1>2, <1>3 DEF DropInv

-------------------------------------------------------------------------------
\* A step of a task that transfers nothing, before it or after it, and disturbs
\* no file.
Quiet(t) ==
  /\ OthersSame(t)
  /\ UNCHANGED <<optionVars, remote, mirror, deleted, overtaken, ambiguous, faults>>
  /\ crowded => crowded'
  /\ ~Moving(t) /\ ~Moving(t)'

LEMMA QuietStep ==
  ASSUME DropInv, TypeOK', NEW t \in Task, Quiet(t)
  PROVE  /\ GoneInv' /\ ReceivedAlone' /\ SizeTells'
         /\ NoMixture' => NoMixture
         /\ \A n \in Name : Known(n)' = Known(n)
         /\ \A u \in Task \ {t} : AtOneFile(u)' /\ Whole(u)' = Whole(u) /\ Parsed(u)' = Parsed(u) /\ Brought(u)' = Brought(u)
<1>1. GoneInv' /\ ReceivedAlone'
  BY DEF DropInv, GoneInv, ReceivedAlone, Received, Quiet, optionVars
<1>2. NoMixture' => NoMixture
  BY DEF NoMixture, Quiet, optionVars
<1>3. \A n \in Name : Known(n)' = Known(n)
  BY DEF Known, Quiet, optionVars
<1>4. \A n \in Name : Writers(n)' = Writers(n) /\ \A u \in Writers(n) : offset'[u] = offset[u]
  BY DEF Writers, Quiet, OthersSame, Moving
<1>5. \A n \in Name : Rewritten(n)' = Rewritten(n)
  BY <1>4 DEF Rewritten, InPlace, Quiet
<1>6. \A u \in Task : Moving(u)' = Moving(u) /\ (Moving(u) => name'[u] = name[u])
  BY DEF Moving, Quiet, OthersSame
<1>7. SizeTells'
  BY <1>2, <1>5, <1>6 DEF DropInv, SizeTells, Told, Quiet
<1>8. ASSUME NEW u \in Task \ {t} PROVE AtOneFile(u)'
  BY <1>6 DEF DropInv, TaskInv, AtOneFile, Quiet, OthersSame, Listed, Present, optionVars
<1>9. ASSUME NEW u \in Task \ {t}
      PROVE  Whole(u)' = Whole(u) /\ Parsed(u)' = Parsed(u) /\ Brought(u)' = Brought(u)
  <2>1. \A f : RowsOf(u, f)' = RowsOf(u, f)
    BY DEF RowsOf, Quiet, OthersSame
  <2> QED
    BY <1>3, <2>1 DEF Whole, Parsed, Brought, Quiet, OthersSame, Listed
<1> QED
  BY <1>1, <1>2, <1>3, <1>7, <1>8, <1>9

LEMMA BeginStep ==
  ASSUME DropInv, NEW t \in Task, Begin(t)
  PROVE  DropInv'
<1>1. TypeOK'
  BY BeginType DEF DropInv
<1>2. /\ phase[t] = "idle" /\ phase'[t] = "listed" /\ name[t] = Absent /\ name'[t] = Absent
      /\ listing'[t] = {<<n, Size(remote[n])>> : n \in Present(remote)}
      /\ files' = files /\ answer' = answer
  BY DEF DropInv, TypeOK, Begin
<1>3. Quiet(t)
  BY <1>2 DEF Quiet, Begin, OthersSame, Moving, DropInv, TypeOK, optionVars, boundVars
<1>4. AtOneFile(t)'
  <2>1. \A d, e \in listing'[t] : d[1] = e[1] => d = e
    BY <1>2
  <2>2. name'[t] \notin Listed(t)'
    BY <1>1, <1>2, Contents DEF Listed, TypeOK
  <2>3. protocol = "none" => listing'[t] = {}
    BY <1>2 DEF DropInv, GoneInv, Present
  <2>4. files'[t] \subseteq Present(mirror)'
    BY <1>2, <1>3 DEF DropInv, TaskInv, AtOneFile, Quiet, Present
  <2> QED
    BY <1>2, <1>3, <2>1, <2>2, <2>3, <2>4 DEF AtOneFile, Moving, Quiet, optionVars
<1>5. LoneInv'
  <2> SUFFICES ASSUME ~crowded' PROVE OneTransfer'
    BY DEF LoneInv
  <2>1. ~crowded /\ Syncing = {}
    BY DEF Begin
  <2>2. Syncing' = {t}
    BY <1>2, <1>3, <2>1 DEF Syncing, Quiet, OthersSame
  <2>3. \A u \in Task : ~Moving(u)'
    BY <2>2, <1>2 DEF Syncing, Moving
  <2>4. \A n \in Listed(t)' : n \in Name => deleted'[n] = Absent
    BY <1>2, <1>3 DEF Listed, DropInv, GoneInv, Quiet, Present
  <2> QED
    BY <1>2, <2>2, <2>3, <2>4, Contents DEF OneTransfer
<1>6. Busy' = Busy \cup {t} /\ t \notin Busy
  BY <1>2, <1>3 DEF Busy, Syncing, Quiet, OthersSame
<1>7. AloneInv'
  <2> SUFFICES ASSUME NEW u \in alone'
               PROVE  /\ u \in Busy' => Busy' = {u}
                      /\ u \in Syncing' => \A entry \in listing'[u] :
                           remote'[entry[1]] # Absent /\ entry[2] = Size(remote'[entry[1]])
    BY DEF AloneInv, Size
  <2>1. CASE u = t
    <3>1. Busy = {}
      BY <2>1 DEF Begin
    <3> QED
      BY <2>1, <3>1, <1>2, <1>3, <1>6 DEF Quiet, Present
  <2>2. CASE u # t
    <3>1. u \in alone \ Busy
      BY <2>2 DEF Begin
    <3>2. u \notin Busy'
      BY <2>2, <3>1, <1>6
    <3> QED
      BY <3>2 DEF Busy
  <2> QED
    BY <2>1, <2>2
<1>8. ASSUME NEW u \in alone', NoMixture'
      PROVE  /\ u \in Syncing' => Brought(u)'
             /\ phase'[u] = "parsing" => Parsed(u)'
             /\ phase'[u] = "done" => Whole(u)'
  <2>1. CASE u = t
    <3>1. Brought(t)'
      <4>1. ASSUME NEW n \in Present(remote) PROVE n \in Listed(t)'
        <5>1. <<n, Size(remote[n])>> \in listing'[t]
          BY <1>2
        <5>2. <<n, Size(remote[n])>>[1] = n
          OBVIOUS
        <5> QED
          BY <5>1, <5>2 DEF Listed
      <4> QED
        BY <1>3, <4>1 DEF Brought, Quiet, Present
    <3> QED
      BY <2>1, <3>1, <1>2
  <2>2. CASE u # t
    <3>1. u \in alone /\ u \notin Busy /\ phase'[u] = phase[u] /\ u \in Task
      BY <1>3, <2>2 DEF Begin, Quiet, OthersSame, DropInv, TypeOK
    <3>2. u \notin Busy'
      BY <2>2, <3>1, <1>6
    <3>3. phase'[u] = "done" => Whole(u)'
      BY <1>3, <1>8, <2>2, <3>1, QuietStep, <1>1 DEF DropInv, AnswerIsWhole
    <3> QED
      BY <3>1, <3>2, <3>3 DEF Busy
  <2> QED
    BY <2>1, <2>2
<1> QED
  BY <1>1, <1>3, <1>4, <1>5, <1>7, <1>8, QuietStep DEF DropInv, TaskInv, ProgressInv, AnswerIsWhole

\* A file of the size that the server has, and that no task is writing, is the one
\* the server has.
LEMMA SameFile ==
  ASSUME NEW f \in File, NEW g \in File, Size(f) = Size(g), \A i \in 1..Size(f) : f[i] = g[i]
  PROVE  f = g
BY DEF File, Size

LEMMA SizeIsEnough ==
  ASSUME TypeOK, SizeTells, NoMixture, NEW n \in Name \ ambiguous,
         remote[n] # Absent, mirror[n] # Absent, Size(mirror[n]) = Size(remote[n]),
         \A u \in Task : ~Moving(u)
  PROVE  mirror[n] = remote[n]
<1>1. Rewritten(n)
  BY DEF SizeTells, Told
<1>2. Writers(n) = {}
  BY DEF Writers, Moving
<1>3. mirror[n] \in File /\ remote[n] \in File
  BY Contents DEF TypeOK
<1>4. Size(remote[n]) \in Nat
  BY <1>3, SizeType
<1>5. \A i \in 1..Size(mirror[n]) : mirror[n][i] = remote[n][i]
  BY <1>1, <1>2, <1>4 DEF Rewritten, InPlace
<1> QED
  BY <1>3, <1>5, SameFile

LEMMA LookStep ==
  ASSUME DropInv, NEW t \in Task, Look(t)
  PROVE  DropInv'
<1>1. TypeOK'
  BY LookType DEF DropInv
<1>2. PICK entry \in listing[t] :
       /\ listing' = [listing EXCEPT ![t] = @ \ {entry}]
       /\ IF \E size \in SizeSeen(entry) : Wanted(entry[1], size)
          THEN phase' = [phase EXCEPT ![t] = "wanted"] /\ name' = [name EXCEPT ![t] = entry[1]]
          ELSE UNCHANGED <<phase, name>>
  BY DEF Look
<1> DEFINE m == entry[1]
           wanted == \E size \in SizeSeen(entry) : Wanted(m, size)
<1>3. /\ phase[t] = "listed" /\ name[t] = Absent /\ m \in Name
      /\ listing'[t] = listing[t] \ {entry}
      /\ IF wanted THEN phase'[t] = "wanted" /\ name'[t] = m ELSE phase'[t] = "listed" /\ name'[t] = Absent
  BY <1>2 DEF DropInv, TypeOK, Look
<1>4. Quiet(t)
  BY <1>2, <1>3 DEF Quiet, Look, OthersSame, Moving, DropInv, TypeOK, optionVars, parseVars, boundVars, historyVars
<1>5. Listed(t)' = Listed(t) \ {m} /\ m \in Listed(t)
  BY <1>3 DEF Listed, DropInv, TaskInv, AtOneFile
<1>6. AtOneFile(t)'
  <2>1. protocol = "none" => listing'[t] = {} /\ name'[t] = Absent
    BY <1>2 DEF DropInv, TaskInv, AtOneFile
  <2>2. \A d, e \in listing'[t] : d[1] = e[1] => d = e
    BY <1>3 DEF DropInv, TaskInv, AtOneFile
  <2>3. name'[t] \notin Listed(t)'
    BY <1>3, <1>5 DEF DropInv, TaskInv, AtOneFile
  <2>4. files'[t] \subseteq Present(mirror)'
    BY <1>4 DEF DropInv, TaskInv, AtOneFile, Look, Quiet, Present, parseVars
  <2> QED
    BY <1>3, <1>4, <2>1, <2>2, <2>3, <2>4 DEF AtOneFile, Moving, Quiet, optionVars
<1>7. Syncing' = Syncing /\ Busy' = Busy /\ t \in Busy /\ t \in Syncing
  BY <1>3, <1>4 DEF Busy, Syncing, Quiet, OthersSame
<1>8. LoneInv'
  <2> SUFFICES ASSUME ~crowded' PROVE OneTransfer'
    BY DEF LoneInv
  <2>1. OneTransfer
    BY <1>4 DEF DropInv, LoneInv, Quiet
  <2>2. \A u \in Task : u # t => Listed(u)' = Listed(u) /\ name'[u] = name[u]
    BY <1>4 DEF Listed, Quiet, OthersSame
  <2>3. \A u \in Syncing : \A n \in Listed(u)' \cup {name'[u]} : n \in Name => n \in Listed(u) \cup {name[u]}
    BY <1>3, <1>5, <2>2, Contents DEF Syncing
  <2>4. \A u \in Task : Moving(u)' => u # t /\ Moving(u) /\ offset'[u] = offset[u] /\ reading'[u] = reading[u]
    BY <1>4 DEF Quiet, OthersSame, Moving
  <2> QED
    BY <1>4, <1>7, <2>1, <2>2, <2>3, <2>4 DEF OneTransfer, Quiet
<1>9. alone' = alone
  BY DEF Look, historyVars
<1>10. AloneInv'
  <2>1. ASSUME NEW u \in alone, NEW e \in listing'[u], u \in Syncing
        PROVE  remote'[e[1]] # Absent /\ e[2] = Size(remote'[e[1]])
    <3>1. e \in listing[u] /\ remote' = remote
      BY <1>3, <1>4, <2>1 DEF Quiet, OthersSame, DropInv, TypeOK
    <3> QED
      BY <2>1, <3>1 DEF DropInv, AloneInv
  <2>2. \A u \in alone : u \in Busy => Busy = {u}
    BY DEF DropInv, AloneInv
  <2> QED
    BY <1>7, <1>9, <2>1, <2>2 DEF AloneInv, Size
<1>11. ASSUME t \in alone, NoMixture' PROVE Brought(t)'
  <2>1. Brought(t) /\ NoMixture
    BY <1>1, <1>4, <1>7, <1>11, QuietStep DEF DropInv, ProgressInv
  <2>2. CASE wanted
    BY <1>3, <1>4, <1>5, <2>1, <2>2, Contents DEF Brought, Quiet
  <2>3. CASE ~wanted
    <3>1. remote[m] # Absent /\ entry[2] = Size(remote[m])
      BY <1>7, <1>11 DEF DropInv, AloneInv
    <3>2. SizeSeen(entry) = {Size(remote[m])}
      BY <3>1 DEF SizeSeen
    <3>3. mirror[m] # Absent /\ Size(mirror[m]) = Size(remote[m])
      BY <2>3, <3>2 DEF Wanted
    <3>4. \A u \in Task : ~Moving(u)
      <4>1. Busy = {t}
        BY <1>7, <1>11 DEF DropInv, AloneInv
      <4> QED
        BY <4>1, <1>3 DEF Busy, Syncing, Moving
    <3>5. m \notin ambiguous => mirror[m] = remote[m]
      BY <1>3, <2>1, <3>1, <3>3, <3>4, SizeIsEnough DEF DropInv
    <3> QED
      BY <1>3, <1>4, <1>5, <2>1, <2>3, <3>5, Contents DEF Brought, Quiet
  <2> QED
    BY <2>2, <2>3
<1>12. ASSUME NEW u \in alone', NoMixture'
      PROVE  /\ u \in Syncing' => Brought(u)'
             /\ phase'[u] = "parsing" => Parsed(u)'
             /\ phase'[u] = "done" => Whole(u)'
  <2>1. CASE u = t
    BY <1>3, <1>9, <1>11, <1>12, <2>1
  <2>2. CASE u # t
    BY <1>1, <1>4, <1>7, <1>9, <1>12, <2>2, QuietStep
      DEF DropInv, ProgressInv, AnswerIsWhole, TypeOK, Quiet, OthersSame
  <2> QED
    BY <2>1, <2>2
<1> QED
  BY <1>1, <1>4, <1>6, <1>8, <1>10, <1>12, QuietStep DEF DropInv, TaskInv, ProgressInv, AnswerIsWhole

-------------------------------------------------------------------------------
\* A quiet step with nothing new to look at.
LEMMA QuietLess ==
  ASSUME DropInv, TypeOK', NEW t \in Task, Quiet(t), alone' = alone,
         listing'[t] = listing[t], name'[t] = name[t], Syncing' \subseteq Syncing, Busy' \subseteq Busy
  PROVE  LoneInv' /\ AloneInv'
<1>1. \A u \in Task : listing'[u] = listing[u] /\ name'[u] = name[u] /\ Listed(u)' = Listed(u)
  BY DEF Quiet, OthersSame, Listed
<1>2. \A u \in Task : Moving(u)' => Moving(u) /\ offset'[u] = offset[u] /\ reading'[u] = reading[u]
  BY DEF Quiet, OthersSame, Moving
<1>3. LoneInv'
  <2> SUFFICES ASSUME ~crowded' PROVE OneTransfer'
    BY DEF LoneInv
  <2>1. OneTransfer
    BY DEF DropInv, LoneInv, Quiet
  <2>2. \A u \in Task : Moving(u)' => mirror'[name'[u]] = SubSeq(reading'[u], 1, offset'[u])
    BY <1>1, <1>2, <2>1 DEF OneTransfer, Quiet
  <2>3. \A u \in Syncing' : u \in Task
    BY DEF Syncing
  <2>4. \A u \in Syncing' : \A n \in Listed(u)' \cup {name'[u]} : n \in Name => deleted'[n] = Absent
    BY <1>1, <2>1, <2>3 DEF OneTransfer, Quiet
  <2> QED
    BY <2>1, <2>2, <2>4 DEF OneTransfer
<1>4. AloneInv'
  <2>1. \A u \in alone : u \in Busy' => Busy' = {u}
    BY DEF DropInv, AloneInv
  <2>2. ASSUME NEW u \in alone, NEW e \in listing'[u], u \in Syncing'
        PROVE  remote'[e[1]] # Absent /\ e[2] = Size(remote'[e[1]])
    BY <1>1, <2>2 DEF DropInv, AloneInv, Quiet, TypeOK
  <2> QED
    BY <2>1, <2>2 DEF AloneInv, Size
<1> QED
  BY <1>3, <1>4

\* What there is of a file is in the mirror when a task that none has met has
\* looked at all.
LEMMA KnownIsHere ==
  ASSUME DropInv, NoMixture, NEW t \in alone, phase[t] = "listed", listing[t] = {},
         NEW n \in Name \ ambiguous, Known(n) \in Content
  PROVE  mirror[n] = Known(n)
<1>1. CASE protocol = "none"
  BY <1>1 DEF Known
<1>2. CASE protocol # "none" /\ remote[n] # Absent
  <2>1. name[t] = Absent /\ t \in Syncing
    BY DEF DropInv, TypeOK, Syncing
  <2>2. n \notin Listed(t) \cup {name[t]}
    BY <2>1, Contents DEF Listed
  <2> QED
    BY <1>2, <2>1, <2>2 DEF DropInv, ProgressInv, Brought, Known
<1>3. CASE protocol # "none" /\ remote[n] = Absent
  <2>1. Known(n) = deleted[n] /\ deleted[n] # Absent
    BY <1>3, Contents DEF Known
  <2>2. ~crowded
    BY <2>1 DEF NoMixture, DropInv, TypeOK
  <2>3. n \notin overtaken
    BY DEF DropInv, TypeOK
  <2> QED
    BY <2>1, <2>2, <2>3 DEF DropInv, ReceivedAlone, Received
<1> QED
  BY <1>1, <1>2, <1>3

LEMMA ParseStep ==
  ASSUME DropInv, NEW t \in Task, Parse(t)
  PROVE  DropInv'
<1>1. TypeOK'
  BY FetchType DEF DropInv, Fetch
<1>2. /\ phase[t] = "listed" /\ phase'[t] = "parsing" /\ files'[t] = Present(mirror) /\ alone' = alone
      /\ listing'[t] = listing[t] /\ listing[t] = {} /\ name'[t] = name[t] /\ name[t] = Absent
  BY DEF DropInv, TypeOK, Parse, syncVars, historyVars
<1>3. Quiet(t)
  BY <1>2 DEF Quiet, Parse, OthersSame, Moving, DropInv, TypeOK, optionVars, syncVars, boundVars, historyVars
<1>4. Syncing' = Syncing \ {t} /\ Busy' = Busy
  BY <1>2, <1>3 DEF Busy, Syncing, Quiet, OthersSame
<1>5. AtOneFile(t)'
  BY <1>2, <1>3 DEF DropInv, TaskInv, AtOneFile, Moving, Quiet, optionVars, Listed, Present
<1>6. ASSUME t \in alone, NoMixture' PROVE Parsed(t)'
  <2>1. NoMixture
    BY <1>1, <1>3, <1>6, QuietStep
  <2>2. \A n \in Name \ ambiguous : Known(n) \in Content => mirror[n] = Known(n)
    BY <1>2, <1>6, <2>1, KnownIsHere
  <2>3. \A n \in Name : Known(n)' = Known(n)
    BY <1>1, <1>3, QuietStep
  <2> QED
    BY <1>2, <1>3, <2>2, <2>3, Contents DEF Parsed, Present, Quiet
<1>7. ASSUME NEW u \in alone', NoMixture'
      PROVE  /\ u \in Syncing' => Brought(u)'
             /\ phase'[u] = "parsing" => Parsed(u)'
             /\ phase'[u] = "done" => Whole(u)'
  <2>1. CASE u = t
    BY <1>2, <1>4, <1>6, <1>7, <2>1
  <2>2. CASE u # t
    BY <1>1, <1>2, <1>3, <1>4, <1>7, <2>2, QuietStep
      DEF DropInv, ProgressInv, AnswerIsWhole, TypeOK, Quiet, OthersSame
  <2> QED
    BY <2>1, <2>2
<1> QED
  BY <1>1, <1>2, <1>3, <1>4, <1>5, <1>7, QuietStep, QuietLess DEF DropInv, TaskInv, ProgressInv, AnswerIsWhole

LEMMA ReadStep ==
  ASSUME DropInv, NEW t \in Task, Read(t)
  PROVE  DropInv'
<1>1. TypeOK'
  BY FetchType DEF DropInv, Fetch
<1>2. PICK n \in files[t] :
       /\ files' = [files EXCEPT ![t] = @ \ {n}]
       /\ \/ /\ MayBeRead(mirror[n])
             /\ answer' = [answer EXCEPT ![t] = @ \cup RowsOf(t, mirror[n])]
          \/ /\ MayBeSkipped(mirror[n])
             /\ UNCHANGED answer
  BY DEF Read
<1>3. /\ phase[t] = "parsing" /\ phase'[t] = "parsing" /\ files'[t] = files[t] \ {n} /\ alone' = alone
      /\ listing'[t] = listing[t] /\ name'[t] = name[t] /\ start'[t] = start[t] /\ answer[t] \subseteq answer'[t]
      /\ answer'[t] = answer[t] \cup RowsOf(t, mirror[n]) \/ MayBeSkipped(mirror[n])
  BY <1>2 DEF DropInv, TypeOK, Read, syncVars, historyVars
<1>4. Quiet(t)
  BY <1>2, <1>3 DEF Quiet, Read, OthersSame, Moving, DropInv, TypeOK, optionVars, syncVars, boundVars, historyVars
<1>5. Syncing' = Syncing /\ Busy' = Busy
  BY <1>3, <1>4 DEF Busy, Syncing, Read
<1>6. AtOneFile(t)'
  BY <1>3, <1>4 DEF DropInv, TaskInv, AtOneFile, Moving, Quiet, optionVars, Listed, Present
<1>7. ASSUME t \in alone, NoMixture' PROVE Parsed(t)'
  <2>1. Parsed(t) /\ \A m \in Name : Known(m)' = Known(m)
    BY <1>1, <1>3, <1>4, <1>7, QuietStep DEF DropInv, ProgressInv
  <2>2. \A f : RowsOf(t, f)' = RowsOf(t, f)
    BY <1>3 DEF RowsOf
  <2>3. ASSUME NEW m \in Name \ ambiguous, Known(m) \in Content \ Unreadable
        PROVE  mirror[m] = Known(m) /\ (m \in files'[t] \/ RowsOf(t, Known(m)) \subseteq answer'[t])
    BY <1>3, <2>1, <2>3 DEF Parsed, MayBeSkipped
  <2> QED
    BY <1>4, <2>1, <2>2, <2>3 DEF Parsed, Quiet
<1>8. ASSUME NEW u \in alone', NoMixture'
      PROVE  /\ u \in Syncing' => Brought(u)'
             /\ phase'[u] = "parsing" => Parsed(u)'
             /\ phase'[u] = "done" => Whole(u)'
  <2>1. CASE u = t
    BY <1>3, <1>7, <1>8, <2>1 DEF Syncing
  <2>2. CASE u # t
    BY <1>1, <1>3, <1>4, <1>5, <1>8, <2>2, QuietStep
      DEF DropInv, ProgressInv, AnswerIsWhole, TypeOK, Quiet, OthersSame
  <2> QED
    BY <2>1, <2>2
<1> QED
  BY <1>1, <1>3, <1>4, <1>5, <1>6, <1>8, QuietStep, QuietLess DEF DropInv, TaskInv, ProgressInv, AnswerIsWhole

LEMMA ReturnStep ==
  ASSUME DropInv, NEW t \in Task, Return(t)
  PROVE  DropInv'
<1>1. TypeOK'
  BY FetchType DEF DropInv, Fetch
<1>2. /\ phase[t] = "parsing" /\ phase'[t] = "done" /\ files'[t] = files[t] /\ files[t] = {} /\ alone' = alone
      /\ listing'[t] = listing[t] /\ name'[t] = name[t] /\ start'[t] = start[t] /\ answer'[t] = answer[t]
  BY DEF DropInv, TypeOK, Return, syncVars, parseVars, historyVars
<1>3. Quiet(t)
  BY <1>2 DEF Quiet, Return, OthersSame, Moving, DropInv, TypeOK, optionVars, syncVars, parseVars, boundVars, historyVars
<1>4. Syncing' \subseteq Syncing /\ Busy' \subseteq Busy
  BY <1>2, <1>3 DEF Busy, Syncing, Quiet, OthersSame
<1>5. AtOneFile(t)'
  BY <1>2, <1>3 DEF DropInv, TaskInv, AtOneFile, Moving, Quiet, optionVars, Listed, Present
<1>6. ASSUME t \in alone, NoMixture' PROVE Whole(t)'
  <2>1. Parsed(t) /\ \A m \in Name : Known(m)' = Known(m)
    BY <1>1, <1>2, <1>3, <1>6, QuietStep DEF DropInv, ProgressInv
  <2>2. \A f : RowsOf(t, f)' = RowsOf(t, f)
    BY <1>2 DEF RowsOf
  <2> QED
    BY <1>2, <1>3, <2>1, <2>2 DEF Parsed, Whole, Quiet
<1>7. ASSUME NEW u \in alone', NoMixture'
      PROVE  /\ u \in Syncing' => Brought(u)'
             /\ phase'[u] = "parsing" => Parsed(u)'
             /\ phase'[u] = "done" => Whole(u)'
  <2>1. CASE u = t
    BY <1>2, <1>6, <1>7, <2>1 DEF Syncing
  <2>2. CASE u # t
    BY <1>1, <1>2, <1>3, <1>4, <1>7, <2>2, QuietStep
      DEF DropInv, ProgressInv, AnswerIsWhole, TypeOK, Quiet, OthersSame
  <2> QED
    BY <2>1, <2>2
<1> QED
  BY <1>1, <1>2, <1>3, <1>4, <1>5, <1>7, QuietStep, QuietLess DEF DropInv, TaskInv, ProgressInv, AnswerIsWhole

LEMMA NextRunStep ==
  ASSUME DropInv, NextRun
  PROVE  DropInv'
<1>1. TypeOK'
  BY NextRunType DEF DropInv
<1>2. /\ \A u \in Task : phase[u] \in {"done", "failed"} /\ phase'[u] = "idle"
      /\ UNCHANGED <<optionVars, remote, mirror, syncVars, files, boundVars, historyVars>>
  BY DEF NextRun
<1>3. Syncing' = {} /\ Busy' = {} /\ \A u \in Task : ~Moving(u)' /\ ~Moving(u)
  BY <1>2 DEF Syncing, Busy, Moving
<1>4. TaskInv' /\ LoneInv' /\ GoneInv'
  BY <1>2, <1>3 DEF DropInv, TaskInv, AtOneFile, LoneInv, OneTransfer, GoneInv, Listed, Present,
    optionVars, syncVars, historyVars
<1>5. AloneInv' /\ ProgressInv' /\ AnswerIsWhole'
  BY <1>1, <1>2, <1>3 DEF AloneInv, ProgressInv, AnswerIsWhole, TypeOK
<1>6. ReceivedAlone'
  BY <1>2 DEF DropInv, ReceivedAlone, Received, historyVars
<1>7. SizeTells'
  <2>1. \A n \in Name : Writers(n)' = Writers(n) /\ Writers(n) = {}
    BY <1>3 DEF Writers, Moving
  <2>2. \A n \in Name : Rewritten(n)' = Rewritten(n)
    BY <1>2, <2>1 DEF Rewritten, InPlace
  <2>3. NoMixture' = NoMixture
    BY <1>2 DEF NoMixture, optionVars, boundVars, historyVars
  <2> QED
    BY <1>2, <1>3, <2>2, <2>3 DEF DropInv, SizeTells, Told, historyVars
<1> QED
  BY <1>1, <1>4, <1>5, <1>6, <1>7 DEF DropInv

-------------------------------------------------------------------------------
\* A step of a task at the file it transfers.
Transfer(t) ==
  /\ OthersSame(t)
  /\ UNCHANGED <<optionVars, remote, deleted, overtaken, ambiguous, alone, crowded, faults>>
  /\ t \in Syncing /\ name[t] \in Name
  /\ \A m \in Name \ {name[t]} : mirror'[m] = mirror[m]
  /\ mirror[name[t]] # Absent => mirror'[name[t]] # Absent
  /\ phase'[t] \notin {"parsing", "done"}
  /\ listing'[t] \in {listing[t], {}}
  /\ name'[t] \in {name[t], Absent}

LEMMA TransferStep ==
  ASSUME DropInv, TypeOK', NEW t \in Task, Transfer(t)
  PROVE  /\ GoneInv' /\ ReceivedAlone' /\ AloneInv' /\ AnswerIsWhole'
         /\ NoMixture' = NoMixture
         /\ \A u \in Task \ {t} : AtOneFile(u)'
         /\ (~crowded /\ Moving(t)' => mirror'[name'[t]] = SubSeq(reading'[t], 1, offset'[t])) => LoneInv'
         /\ \A m \in Name \ {name[t]} : Told(m) => Told(m)'
         /\ (t \in alone /\ NoMixture /\ t \in Syncing' => Brought(t)') => ProgressInv'
<1>1. protocol # "none" /\ t \in Busy /\ t \in Syncing
  BY Contents DEF DropInv, TaskInv, AtOneFile, Transfer, Busy
<1>2. Syncing' \subseteq Syncing /\ Busy' \subseteq Busy /\ phase'[t] # "parsing"
  BY <1>1 DEF Transfer, OthersSame, Syncing, Busy
<1>3. GoneInv'
  BY DEF DropInv, GoneInv, Transfer, optionVars
<1>4. ReceivedAlone'
  <2>1. ~crowded => deleted[name[t]] = Absent
    BY <1>1 DEF DropInv, LoneInv, OneTransfer, Transfer
  <2> QED
    BY <2>1 DEF DropInv, ReceivedAlone, Received, Transfer
<1>5. NoMixture' = NoMixture
  BY DEF NoMixture, Transfer, optionVars
<1>6. ASSUME NEW u \in Task \ {t} PROVE AtOneFile(u)'
  <2>1. \A m \in Name : mirror[m] # Absent => mirror'[m] # Absent
    BY DEF Transfer
  <2>2. files'[u] \subseteq Present(mirror)'
    BY <2>1 DEF DropInv, TaskInv, AtOneFile, Present, Transfer, OthersSame
  <2>3. Moving(u)' => mirror'[name'[u]] # Absent
    BY <2>1 DEF DropInv, TypeOK, TaskInv, AtOneFile, Moving, Transfer, OthersSame
  <2> QED
    BY <2>2, <2>3 DEF DropInv, TaskInv, AtOneFile, Moving, Transfer, OthersSame, Listed, optionVars
<1>7. ASSUME ~crowded /\ Moving(t)' => mirror'[name'[t]] = SubSeq(reading'[t], 1, offset'[t])
      PROVE  LoneInv'
  <2> SUFFICES ASSUME ~crowded' PROVE OneTransfer'
    BY DEF LoneInv
  <2>1. OneTransfer /\ ~crowded
    BY DEF DropInv, LoneInv, Transfer
  <2>2. Syncing' \subseteq {t}
    BY <1>1, <1>2, <2>1 DEF OneTransfer
  <2>3. \A u \in Task : Moving(u)' => u = t
    BY <2>2 DEF Moving, Syncing
  <2>4. \A n \in Listed(t)' \cup {name'[t]} : n \in Name => deleted'[n] = Absent
    <3>1. Listed(t)' \subseteq Listed(t)
      BY DEF Listed, Transfer
    <3> QED
      BY <1>1, <2>1, <3>1, Contents DEF OneTransfer, Transfer
  <2> QED
    BY <1>7, <2>1, <2>2, <2>3, <2>4 DEF OneTransfer
<1>8. ASSUME NEW m \in Name \ {name[t]}, Told(m) PROVE Told(m)'
  <2>1. Writers(m)' = Writers(m) /\ \A u \in Writers(m) : offset'[u] = offset[u]
    BY Contents DEF Writers, Transfer, OthersSame
  <2>2. Rewritten(m)' = Rewritten(m)
    BY <2>1 DEF Rewritten, InPlace, Transfer
  <2>3. (\A u \in Task : Moving(u) => name[u] # m) => (\A u \in Task : Moving(u)' => name'[u] # m)
    BY Contents DEF Moving, Transfer, OthersSame
  <2> QED
    BY <1>8, <2>2, <2>3 DEF Told, Transfer, Size
<1>9. \A u \in alone \ {t} : u \notin Busy
  BY <1>1 DEF DropInv, AloneInv
<1>10. AloneInv'
  <2>1. \A u \in alone' : u \in Busy' => Busy' = {u}
    BY <1>2 DEF DropInv, AloneInv, Transfer
  <2>2. ASSUME NEW u \in alone', u \in Syncing', NEW e \in listing'[u]
        PROVE  remote'[e[1]] # Absent /\ e[2] = Size(remote'[e[1]])
    <3>1. u = t /\ u \in alone
      BY <1>2, <1>9, <2>2 DEF Busy, Transfer
    <3> QED
      BY <1>1, <2>2, <3>1 DEF DropInv, AloneInv, Transfer
  <2> QED
    BY <2>1, <2>2 DEF AloneInv, Size
<1>11. ASSUME NEW u \in alone \ {t} PROVE Whole(u)' = Whole(u) /\ phase'[u] = phase[u]
  <2>1. \A n \in Name : Known(n)' = Known(n)
    BY <1>1 DEF Known, Transfer, optionVars
  <2>2. u \in Task
    BY DEF DropInv, TypeOK
  <2>3. \A f : RowsOf(u, f)' = RowsOf(u, f)
    BY <2>2 DEF RowsOf, Transfer, OthersSame
  <2> QED
    BY <2>1, <2>2, <2>3 DEF Whole, Transfer, OthersSame
<1>12. AnswerIsWhole'
  BY <1>5, <1>11 DEF DropInv, AnswerIsWhole, Transfer
<1>13. ASSUME t \in alone /\ NoMixture /\ t \in Syncing' => Brought(t)' PROVE ProgressInv'
  <2> SUFFICES ASSUME NoMixture, NEW u \in alone
               PROVE  (u \in Syncing' => Brought(u)') /\ (phase'[u] = "parsing" => Parsed(u)')
    BY <1>5 DEF ProgressInv, Transfer
  <2>1. u # t => u \notin Busy'
    BY <1>2, <1>9
  <2>2. u # t => u \notin Syncing' /\ phase'[u] # "parsing"
    BY <2>1 DEF Busy, DropInv, TypeOK
  <2> QED
    BY <1>2, <1>13, <2>2
<1> QED
  BY <1>3, <1>4, <1>5, <1>6, <1>7, <1>8, <1>10, <1>12, <1>13

LEMMA OpenStep ==
  ASSUME DropInv, NEW t \in Task, Open(t)
  PROVE  DropInv'
<1>1. TypeOK'
  BY OpenType DEF DropInv
<1>2. PICK n \in Name : n = name[t] /\ phase[t] = "wanted" /\ offset[t] = 0
  BY DEF DropInv, TypeOK, Open
<1>3. mirror'[n] = <<>> /\ \A m \in Name \ {n} : mirror'[m] = mirror[m]
  BY <1>2 DEF DropInv, TypeOK, Open, Emptied
<1>4. mirror'[n] # Absent /\ Size(mirror'[n]) = 0
  <2>1. <<>> \in File
    BY DEF File
  <2> QED
    BY <1>3, <2>1, Contents DEF Size
<1>5. \/ remote[n] = Absent /\ phase'[t] \in {"idle", "failed"} /\ listing'[t] = {} /\ name'[t] = Absent /\ files'[t] = {}
      \/ /\ remote[n] # Absent /\ phase'[t] = "writing" /\ listing'[t] = listing[t] /\ name'[t] = n
         /\ reading'[t] = remote[n] /\ offset'[t] = 0 /\ files'[t] = files[t]
  <2>1. CASE remote[n] = Absent
    BY <1>2, <2>1, RaisedStep DEF Open, Raised, DropInv, TypeOK
  <2>2. CASE remote[n] # Absent
    BY <1>2, <2>2 DEF Open, DropInv, TypeOK, parseVars
  <2> QED
    BY <2>1, <2>2
<1>6. Transfer(t)
  <2>1. OthersSame(t)
    <3>1. CASE remote[n] = Absent
      BY <1>2, <3>1, RaisedStep DEF Open, DropInv
    <3>2. CASE remote[n] # Absent
      BY <1>2, <3>2 DEF Open, DropInv, TypeOK, OthersSame, parseVars
    <3> QED
      BY <3>1, <3>2
  <2> QED
    BY <1>2, <1>3, <1>4, <1>5, <2>1 DEF Transfer, Open, Syncing, historyVars, boundVars
<1>7. AtOneFile(t)'
  <2>1. files'[t] \subseteq Present(mirror)'
    BY <1>3, <1>4, <1>5 DEF DropInv, TaskInv, AtOneFile, Present
  <2>2. protocol' = protocol /\ remote' = remote /\ deletes' = deletes /\ ambiguous' = ambiguous
    BY <1>6 DEF Transfer, optionVars
  <2>3. Listed(t)' \subseteq Listed(t) /\ listing'[t] \subseteq listing[t]
    BY <1>5 DEF Listed
  <2>4. name'[t] \notin Listed(t)'
    BY <1>1, <1>2, <1>5, <2>3, Contents DEF Listed, DropInv, TypeOK, TaskInv, AtOneFile
  <2> QED
    BY <1>2, <1>4, <1>5, <2>1, <2>2, <2>3, <2>4 DEF DropInv, TaskInv, AtOneFile, Moving
<1>8. ~crowded /\ Moving(t)' => mirror'[name'[t]] = SubSeq(reading'[t], 1, offset'[t])
  <2>1. Moving(t)' => name'[t] = n /\ offset'[t] = 0
    BY <1>5 DEF Moving
  <2>2. SubSeq(reading'[t], 1, 0) = <<>>
    OBVIOUS
  <2> QED
    BY <1>3, <2>1, <2>2
<1>9. Told(n)'
  <2> SUFFICES ASSUME remote[n] # Absent PROVE Rewritten(n)'
    BY <1>6 DEF Told, Transfer
  <2>1. Size(remote[n]) \in Nat
    BY <1>2, Contents, SizeType DEF DropInv, TypeOK
  <2>2. t \in Writers(n)' /\ \A i \in 1..Size(remote[n]) : offset'[t] < i
    BY <1>5 DEF Writers
  <2> QED
    BY <1>4, <1>6, <2>1, <2>2 DEF Rewritten, Transfer
<1>10. SizeTells'
  BY <1>1, <1>2, <1>6, <1>9, TransferStep DEF DropInv, SizeTells, Transfer
<1>11. t \in alone /\ NoMixture /\ t \in Syncing' => Brought(t)'
  <2> SUFFICES ASSUME t \in alone, NoMixture, t \in Syncing' PROVE Brought(t)'
    OBVIOUS
  <2>1. name'[t] = n /\ Listed(t)' = Listed(t)
    BY <1>5 DEF Syncing, Listed
  <2>2. Brought(t)
    BY <1>6 DEF DropInv, ProgressInv, Transfer
  <2> QED
    BY <1>2, <1>3, <1>6, <2>1, <2>2 DEF Brought, Transfer
<1> QED
  BY <1>1, <1>6, <1>7, <1>8, <1>10, <1>11, TransferStep DEF DropInv, TaskInv

-------------------------------------------------------------------------------
LEMMA WriteStep ==
  ASSUME DropInv, NEW t \in Task, Write(t)
  PROVE  DropInv'
<1>1. TypeOK'
  BY WriteType DEF DropInv
<1>2. PICK n \in Name : n = name[t] /\ phase[t] = "writing" /\ Moving(t) /\ mirror[n] \in File /\ reading[t] \in Content
  BY DEF DropInv, TypeOK, TaskInv, AtOneFile, Write, Moving
<1>3. PICK k \in Nat \ {0} : k = offset[t] + 1 /\ k \in 1..Size(reading[t]) /\ offset'[t] = k
  BY <1>2, Contents, SizeType DEF DropInv, TypeOK, Write
<1>4. PICK row \in Row : row = reading[t][k]
  BY <1>2, <1>3, Contents DEF Size
<1>5. mirror'[n] = Written(mirror[n], k, row) /\ \A m \in Name \ {n} : mirror'[m] = mirror[m]
  BY <1>2, <1>3, <1>4 DEF DropInv, TypeOK, Write
<1>6. /\ mirror'[n] \in File
      /\ Size(mirror'[n]) = IF k > Size(mirror[n]) THEN k ELSE Size(mirror[n])
      /\ \A i \in 1..Size(mirror'[n]) : mirror'[n][i] = IF i = k THEN row ELSE IF i <= Size(mirror[n]) THEN mirror[n][i] ELSE Hole
  <2>1. PICK f \in File : f = mirror[n]
    BY <1>2
  <2>2. PICK g \in File : g = Written(f, k, row)
    BY WrittenType
  <2>3. Size(g) = (IF k > Size(f) THEN k ELSE Size(f))
        /\ \A i \in 1..Size(g) : g[i] = IF i = k THEN row ELSE IF i <= Size(f) THEN f[i] ELSE Hole
    BY <2>2, WrittenType
  <2> QED
    BY <1>5, <2>1, <2>2, <2>3
<1>7. UNCHANGED <<phase, listing, name, reading, files, start, answer>>
  BY DEF Write, parseVars
<1>8. Transfer(t)
  BY <1>2, <1>5, <1>6, <1>7, Contents DEF Transfer, OthersSame, Write, Syncing, historyVars, boundVars, DropInv, TypeOK
<1>9. AtOneFile(t)'
  <2>1. files'[t] \subseteq Present(mirror)'
    BY <1>5, <1>6, <1>7, Contents DEF DropInv, TaskInv, AtOneFile, Present
  <2> QED
    BY <1>2, <1>6, <1>7, <1>8, <2>1, Contents DEF DropInv, TaskInv, AtOneFile, Moving, Listed, Transfer, optionVars
<1>10. Size(mirror[n]) \in Nat /\ Size(reading[t]) \in Nat
  BY <1>2, Contents, SizeType
<1>11. ASSUME ~crowded PROVE mirror'[n] = SubSeq(reading[t], 1, k)
  <2>1. mirror[n] = SubSeq(reading[t], 1, k - 1)
    BY <1>2, <1>3, <1>11 DEF DropInv, TypeOK, LoneInv, OneTransfer
  <2>2. reading[t] \in Seq(Row) /\ Size(reading[t]) = Len(reading[t])
    BY <1>2, Contents DEF Size
  <2>3. Size(mirror[n]) = k - 1 /\ \A i \in 1..(k - 1) : mirror[n][i] = reading[t][i]
    BY <1>3, <2>1, <2>2 DEF Size
  <2>4. Size(mirror'[n]) = k /\ \A i \in 1..k : mirror'[n][i] = reading[t][i]
    BY <1>4, <1>6, <2>3
  <2>5. SubSeq(reading[t], 1, k) \in File
    BY <1>3, <2>2 DEF File, Row
  <2>6. Size(SubSeq(reading[t], 1, k)) = k /\ \A i \in 1..k : SubSeq(reading[t], 1, k)[i] = reading[t][i]
    BY <1>3, <2>2 DEF Size
  <2>7. PICK f, g \in File : f = mirror'[n] /\ g = SubSeq(reading[t], 1, k)
    BY <1>6, <2>5
  <2>8. Size(f) = Size(g) /\ \A i \in 1..Size(f) : f[i] = g[i]
    BY <2>4, <2>6, <2>7
  <2> QED
    BY <2>7, <2>8, SameFile
<1>12. ASSUME n \notin ambiguous, NoMixture PROVE Told(n)'
  <2> SUFFICES ASSUME remote[n] # Absent PROVE Rewritten(n)'
    BY <1>8 DEF Told, Transfer
  <2>1. reading[t] = remote[n]
    BY <1>2, <1>12 DEF DropInv, TypeOK, TaskInv, AtOneFile
  <2>2. Rewritten(n)
    BY <1>2, <1>12, Contents DEF DropInv, SizeTells, Told
  <2>3. t \in Writers(n) /\ Writers(n)' = Writers(n)
    BY <1>2, <1>7 DEF Writers
  <2>4. Size(mirror'[n]) <= Size(remote[n])
    BY <1>3, <1>6, <1>10, <2>1, <2>2 DEF Rewritten
  <2>5. ASSUME NEW i \in 1..Size(remote[n])
        PROVE  InPlace(n, i)' \/ \E u \in Writers(n) : offset'[u] < i
    <3>1. InPlace(n, i) \/ \E u \in Writers(n) : offset[u] < i
      BY <2>2, <2>3 DEF Rewritten
    <3>2. CASE i = k
      BY <1>4, <1>6, <1>8, <1>10, <2>1, <3>2 DEF InPlace, Transfer
    <3>3. CASE i # k /\ InPlace(n, i)
      <4>1. i <= Size(mirror[n]) /\ mirror[n][i] = remote[n][i] /\ i <= Size(mirror'[n])
        BY <1>6, <1>10, <3>3 DEF InPlace
      <4>2. mirror'[n][i] = mirror[n][i]
        BY <1>6, <1>10, <3>3, <4>1
      <4> QED
        BY <1>8, <4>1, <4>2 DEF InPlace, Transfer
    <3>4. ASSUME i # k, NEW u \in Writers(n), offset[u] < i PROVE offset'[u] < i
      BY <1>3, <1>8, <3>4 DEF Writers, Transfer, OthersSame, DropInv, TypeOK
    <3> QED
      BY <3>1, <3>2, <3>3, <3>4
  <2> QED
    BY <1>8, <2>3, <2>4, <2>5 DEF Rewritten, Transfer
<1>13. SizeTells'
  BY <1>1, <1>2, <1>8, <1>12, TransferStep DEF DropInv, SizeTells, Transfer
<1>14. t \in alone /\ NoMixture /\ t \in Syncing' => Brought(t)'
  <2> SUFFICES ASSUME t \in alone, NoMixture PROVE Brought(t)'
    OBVIOUS
  <2>1. Brought(t) /\ Listed(t)' = Listed(t)
    BY <1>7, <1>8 DEF DropInv, ProgressInv, Transfer, Listed
  <2> QED
    BY <1>2, <1>5, <1>7, <1>8, <2>1 DEF Brought, Transfer
<1>15. ~crowded /\ Moving(t)' => mirror'[name'[t]] = SubSeq(reading'[t], 1, offset'[t])
  BY <1>2, <1>3, <1>7, <1>11
<1> QED
  BY <1>1, <1>8, <1>9, <1>13, <1>14, <1>15, TransferStep DEF DropInv, TaskInv

\* A file that a task has read to its end is in the mirror, but for the rows that
\* the other tasks come to.
LEMMA EndOfFile ==
  ASSUME DropInv, NEW t \in Task, NEW n \in Name, Moving(t), name[t] = n, offset[t] = Size(reading[t]),
         n \notin ambiguous, NoMixture, remote[n] # Absent
  PROVE  /\ Rewritten(n)
         /\ Size(mirror[n]) \in Nat /\ Size(remote[n]) \in Nat
         /\ \A i \in 1..Size(remote[n]) : ~(offset[t] < i)
         /\ phase[t] = "writing" /\ Busy = {t} => mirror[n] = remote[n]
<1>1. reading[t] = remote[n] /\ mirror[n] # Absent
  BY DEF DropInv, TypeOK, TaskInv, AtOneFile
<1>2. Rewritten(n)
  BY <1>1 DEF DropInv, SizeTells, Told
<1>3. mirror[n] \in File /\ remote[n] \in File
  BY <1>1, Contents DEF DropInv, TypeOK
<1>4. Size(mirror[n]) \in Nat /\ Size(remote[n]) \in Nat
  BY <1>3, SizeType
<1>5. \A i \in 1..Size(remote[n]) : ~(offset[t] < i)
  BY <1>1, <1>4
<1>6. ASSUME phase[t] = "writing", Busy = {t} PROVE mirror[n] = remote[n]
  <2>1. Writers(n) = {t}
    BY <1>6 DEF Writers, Busy, Syncing
  <2>2. \A i \in 1..Size(remote[n]) : InPlace(n, i)
    BY <1>2, <1>5, <2>1 DEF Rewritten
  <2>3. Size(mirror[n]) <= Size(remote[n])
    BY <1>2 DEF Rewritten
  <2>4. Size(mirror[n]) = Size(remote[n])
    <3>1. CASE Size(remote[n]) = 0
      BY <1>4, <2>3, <3>1
    <3>2. CASE Size(remote[n]) # 0
      BY <1>4, <2>2, <2>3, <3>2 DEF InPlace
    <3> QED
      BY <3>1, <3>2
  <2> QED
    BY <1>3, <2>2, <2>4, SameFile DEF InPlace
<1> QED
  BY <1>2, <1>4, <1>5, <1>6

LEMMA CloseStep ==
  ASSUME DropInv, NEW t \in Task, Close(t)
  PROVE  DropInv'
<1>1. TypeOK'
  BY CloseType DEF DropInv
<1>2. PICK n \in Name : n = name[t] /\ phase[t] = "writing" /\ Moving(t) /\ offset[t] = Size(reading[t])
  BY DEF DropInv, TypeOK, Close, Moving, Transferred
<1>3. /\ OthersSame(t) /\ mirror' = mirror /\ files'[t] \subseteq files[t]
      /\ \/ /\ phase'[t] = "written" /\ deletes
            /\ listing'[t] = listing[t] /\ name'[t] = n /\ reading'[t] = reading[t] /\ offset'[t] = offset[t]
         \/ phase'[t] = "listed" /\ listing'[t] = listing[t] /\ name'[t] = Absent
         \/ phase'[t] \in {"idle", "failed"} /\ listing'[t] = {} /\ name'[t] = Absent
  <2>1. CASE Confirmed(t) /\ deletes /\ phase' = [phase EXCEPT ![t] = "written"] /\ UNCHANGED <<syncVars, parseVars>>
    BY <1>2, <2>1 DEF Close, OthersSame, syncVars, parseVars, DropInv, TypeOK
  <2>2. CASE NextFile(t) /\ UNCHANGED <<listing, parseVars>>
    BY <2>2, NextFileStep DEF Close, parseVars, DropInv
  <2>3. CASE Raised(t)
    <3>1. files'[t] = {}
      BY <2>3 DEF Raised, DropInv, TypeOK
    <3> QED
      BY <2>3, <3>1, RaisedStep DEF Close, DropInv
  <2> QED
    BY <2>1, <2>2, <2>3 DEF Close
<1>4. Transfer(t)
  BY <1>2, <1>3 DEF Transfer, Close, Syncing, historyVars, boundVars
<1>5. AtOneFile(t)'
  <2>1. /\ name'[t] \notin Listed(t)'
        /\ \A d, e \in listing'[t] : d[1] = e[1] => d = e
    BY <1>1, <1>2, <1>3, Contents DEF DropInv, TaskInv, AtOneFile, Listed, TypeOK
  <2>2. files'[t] \subseteq Present(mirror)'
    BY <1>3 DEF DropInv, TaskInv, AtOneFile, Present
  <2>3. Moving(t)' => phase'[t] = "written"
    BY <1>3 DEF Moving
  <2> QED
    BY <1>2, <1>3, <1>4, <2>1, <2>2, <2>3 DEF DropInv, TaskInv, AtOneFile, Transfer, optionVars
<1>6. ~crowded /\ Moving(t)' => mirror'[name'[t]] = SubSeq(reading'[t], 1, offset'[t])
  BY <1>2, <1>3 DEF Moving, DropInv, LoneInv, OneTransfer
<1>7. ASSUME n \notin ambiguous, NoMixture PROVE Told(n)'
  <2> SUFFICES ASSUME remote[n] # Absent PROVE Rewritten(n)'
    BY <1>4 DEF Told, Transfer
  <2>1. Rewritten(n) /\ \A i \in 1..Size(remote[n]) : ~(offset[t] < i)
    BY <1>2, <1>7, EndOfFile
  <2>2. t \in Writers(n)
    BY <1>2 DEF Writers
  <2>3. \A u \in Writers(n) \ {t} : u \in Writers(n)' /\ offset'[u] = offset[u]
    BY <1>3 DEF Writers, OthersSame
  <2>4. \A i \in 1..Size(remote[n]) : InPlace(n, i) \/ \E u \in Writers(n)' : offset'[u] < i
    BY <2>1, <2>2, <2>3 DEF Rewritten
  <2> QED
    BY <1>3, <1>4, <2>1, <2>4 DEF Rewritten, InPlace, Transfer
<1>8. SizeTells'
  BY <1>1, <1>2, <1>4, <1>7, TransferStep DEF DropInv, SizeTells, Transfer
<1>9. t \in alone /\ NoMixture /\ t \in Syncing' => Brought(t)'
  <2> SUFFICES ASSUME t \in alone, NoMixture, t \in Syncing' PROVE Brought(t)'
    OBVIOUS
  <2>1. Brought(t) /\ Listed(t)' = Listed(t) /\ Busy = {t}
    BY <1>3, <1>4 DEF DropInv, ProgressInv, AloneInv, Transfer, Listed, Syncing, Busy
  <2>2. n \notin ambiguous /\ remote[n] # Absent => mirror[n] = remote[n]
    BY <1>2, <2>1, EndOfFile
  <2> QED
    BY <1>2, <1>3, <1>4, <2>1, <2>2 DEF Brought, Transfer
<1> QED
  BY <1>1, <1>4, <1>5, <1>6, <1>8, <1>9, TransferStep DEF DropInv, TaskInv

-------------------------------------------------------------------------------
\* A file that is gone from the server by the time it is to be removed there.
LEMMA GoneStep ==
  ASSUME DropInv, NEW t \in Task, Remove(t), remote[name[t]] = Absent
  PROVE  DropInv'
<1>1. TypeOK'
  BY RemoveType DEF DropInv
<1>2. PICK n \in Name : n = name[t] /\ phase[t] = "written" /\ remote[n] = Absent
  BY DEF DropInv, TypeOK, Remove
<1>3. /\ OthersSame(t) /\ mirror' = mirror /\ files'[t] = {}
      /\ phase'[t] \in {"idle", "failed"} /\ listing'[t] = {} /\ name'[t] = Absent
  <2>1. Raised(t)
    BY DEF Remove
  <2> QED
    BY <2>1, RaisedStep DEF Remove, Raised, DropInv, TypeOK
<1>4. Transfer(t)
  BY <1>2, <1>3 DEF Transfer, Remove, Syncing, boundVars
<1>5. AtOneFile(t)' /\ ~Moving(t)' /\ t \notin Syncing'
  BY <1>3 DEF AtOneFile, Listed, Moving, Syncing
<1>6. Told(n)'
  BY <1>2, <1>4 DEF Told, Transfer
<1>7. SizeTells'
  BY <1>1, <1>2, <1>4, <1>6, TransferStep DEF DropInv, SizeTells, Transfer
<1> QED
  BY <1>1, <1>4, <1>5, <1>7, TransferStep DEF DropInv, TaskInv

LEMMA RemoveStep ==
  ASSUME DropInv, NEW t \in Task, Remove(t), remote[name[t]] # Absent
  PROVE  DropInv'
<1>1. TypeOK'
  BY RemoveType DEF DropInv
<1>2. PICK n \in Name : n = name[t] /\ phase[t] = "written" /\ Moving(t) /\ deletes /\ offset[t] = Size(reading[t])
  BY DEF DropInv, TypeOK, TaskInv, AtOneFile, Remove, Moving
<1>3. /\ NextFile(t) /\ UNCHANGED <<listing, parseVars>>
      /\ UNCHANGED <<optionVars, mirror, faults, overtaken, ambiguous, alone, crowded>>
  BY DEF Remove, boundVars
<1>4. /\ OthersSame(t) /\ phase'[t] = "listed" /\ name'[t] = Absent
      /\ UNCHANGED <<listing, files, start, answer>>
  BY <1>3, NextFileStep DEF DropInv, parseVars
<1>5. /\ remote'[n] = Absent /\ deleted'[n] = remote[n] /\ reading[t] # Absent /\ remote[n] # Absent
      /\ (n \notin overtaken => remote[n] = reading[t])
      /\ \A m \in Name \ {n} : remote'[m] = remote[m] /\ deleted'[m] = deleted[m]
  BY <1>2 DEF Remove, DropInv, TaskInv, AtOneFile, TypeOK, Moving
<1>6. \A u \in Task \ {t} : Moving(u)' = Moving(u) /\ Listed(u)' = Listed(u)
  BY <1>4 DEF OthersSame, Moving, Listed
<1>7. ~Moving(t)' /\ Listed(t)' = Listed(t) /\ n \notin Listed(t)
  BY <1>2, <1>4 DEF Moving, Listed, DropInv, TaskInv, AtOneFile
<1>8. Syncing' = Syncing /\ Busy' = Busy /\ t \in Syncing /\ t \in Busy
  BY <1>2, <1>4 DEF OthersSame, Syncing, Busy
<1>9. TaskInv'
  <2>1. AtOneFile(t)'
    BY <1>1, <1>2, <1>3, <1>4, <1>7, Contents DEF DropInv, TaskInv, AtOneFile, Present, TypeOK, Listed, optionVars
  <2>2. ASSUME NEW u \in Task \ {t} PROVE AtOneFile(u)'
    <3>1. Moving(u) => name[u] \in Name
      BY DEF Moving, DropInv, TypeOK
    <3>2. Moving(u)' /\ name'[u] \notin overtaken' => remote'[name'[u]] \in {reading'[u], Absent}
      BY <1>3, <1>4, <1>5, <1>6, <3>1 DEF OthersSame, DropInv, TaskInv, AtOneFile
    <3> QED
      BY <1>3, <1>4, <1>6, <3>2 DEF OthersSame, DropInv, TaskInv, AtOneFile, Present, optionVars
  <2> QED
    BY <2>1, <2>2 DEF TaskInv
<1>10. ~crowded => mirror[n] = reading[t]
  <2> SUFFICES ASSUME ~crowded PROVE mirror[n] = reading[t]
    OBVIOUS
  <2>1. reading[t] \in Seq(Row) /\ Size(reading[t]) = Len(reading[t])
    BY <1>5, Contents DEF DropInv, TypeOK, Size
  <2>2. mirror[n] = SubSeq(reading[t], 1, Len(reading[t]))
    BY <1>2, <2>1 DEF DropInv, LoneInv, OneTransfer
  <2> QED
    BY <2>1, <2>2
<1>11. LoneInv'
  <2> SUFFICES ASSUME ~crowded PROVE OneTransfer'
    BY <1>3 DEF LoneInv
  <2>1. OneTransfer
    BY DEF DropInv, LoneInv
  <2>2. \A u \in Syncing' : u = t
    BY <1>8, <2>1 DEF OneTransfer
  <2>3. \A u \in Task : ~Moving(u)'
    BY <1>7, <2>2 DEF Moving, Syncing
  <2>4. \A m \in Listed(t)' \cup {name'[t]} : m \in Name => deleted'[m] = Absent
    BY <1>4, <1>5, <1>7, <1>8, <2>1, Contents DEF OneTransfer
  <2> QED
    BY <2>2, <2>3, <2>4 DEF OneTransfer
<1>12. GoneInv' /\ ReceivedAlone'
  BY <1>2, <1>3, <1>5, <1>10 DEF DropInv, GoneInv, ReceivedAlone, Received, optionVars
<1>13. NoMixture' = NoMixture /\ (NoMixture => ~crowded)
  BY <1>2, <1>3 DEF NoMixture, optionVars
<1>14. SizeTells'
  <2> SUFFICES ASSUME NoMixture, NEW m \in Name \ ambiguous PROVE Told(m)'
    BY <1>3, <1>13 DEF SizeTells
  <2>1. CASE m = n
    BY <1>5, <2>1 DEF Told
  <2>2. CASE m # n
    <3>1. Writers(m)' = Writers(m) /\ \A u \in Writers(m) : offset'[u] = offset[u]
      BY <1>2, <1>4, <2>2 DEF Writers, OthersSame
    <3>2. Rewritten(m)' = Rewritten(m)
      BY <1>3, <1>5, <2>2, <3>1 DEF Rewritten, InPlace
    <3>3. Told(m)
      BY DEF DropInv, SizeTells
    <3> QED
      BY <1>3, <1>4, <1>5, <1>6, <1>7, <2>2, <3>2, <3>3 DEF Told, OthersSame, Size
  <2> QED
    BY <2>1, <2>2
<1>15. AloneInv'
  <2>1. \A u \in alone : u \in Busy => Busy = {u}
    BY DEF DropInv, AloneInv
  <2>2. ASSUME NEW u \in alone, u \in Syncing, NEW e \in listing[u]
        PROVE  remote'[e[1]] # Absent /\ e[2] = Size(remote'[e[1]])
    <3>1. u = t
      BY <1>8, <2>1, <2>2 DEF Busy
    <3>2. e[1] \in Listed(t) /\ e[1] \in Name
      BY <2>2, <3>1 DEF Listed, DropInv, TypeOK
    <3>3. remote'[e[1]] = remote[e[1]]
      BY <1>5, <1>7, <3>2
    <3> QED
      BY <2>2, <3>3 DEF DropInv, AloneInv
  <2> QED
    BY <1>3, <1>4, <1>8, <2>1, <2>2 DEF AloneInv, Size
<1>16. ASSUME NEW u \in alone, NoMixture
       PROVE  /\ u \in Syncing' => Brought(u)'
              /\ phase'[u] = "parsing" => Parsed(u)'
              /\ phase'[u] = "done" => Whole(u)'
  <2>1. CASE u = t
    <3>1. Brought(t)
      BY <1>8, <1>16, <2>1 DEF DropInv, ProgressInv
    <3>2. Brought(t)'
      BY <1>2, <1>3, <1>4, <1>5, <1>7, <3>1 DEF Brought
    <3> QED
      BY <1>4, <2>1, <3>2
  <2>2. CASE u # t
    <3>1. u \in Task /\ u \notin Busy
      BY <1>8, <2>2 DEF DropInv, TypeOK, AloneInv
    <3>2. u \notin Syncing' /\ phase'[u] # "parsing"
      BY <1>8, <3>1 DEF Busy
    <3>3. phase'[u] = phase[u] /\ \A f : RowsOf(u, f)' = RowsOf(u, f)
      BY <1>4, <2>2, <3>1 DEF OthersSame, RowsOf
    <3>4. \A m \in Name \ ambiguous : Known(m)' = Known(m)
      BY <1>2, <1>3, <1>5 DEF Known, optionVars, DropInv, GoneInv, TaskInv, AtOneFile
    <3> QED
      BY <1>3, <1>4, <1>16, <3>2, <3>3, <3>4 DEF DropInv, AnswerIsWhole, Whole
  <2> QED
    BY <2>1, <2>2
<1> QED
  BY <1>1, <1>3, <1>9, <1>11, <1>12, <1>13, <1>14, <1>15, <1>16 DEF DropInv, ProgressInv, AnswerIsWhole

LEMMA BreakStep ==
  ASSUME DropInv, NEW t \in Task, Break(t)
  PROVE  DropInv'
<1>1. TypeOK'
  BY BreakType DEF DropInv
<1>2. /\ OthersSame(t) /\ phase'[t] \in {"idle", "failed"} /\ listing'[t] = {} /\ name'[t] = Absent /\ files'[t] = {}
      /\ UNCHANGED <<optionVars, remote, mirror, deleted, overtaken, ambiguous, crowded>> /\ alone' = {}
      /\ faults' = faults + 1
  <2>1. Raised(t)
    BY DEF Break
  <2> QED
    BY <2>1, RaisedStep DEF Break, Raised, DropInv, TypeOK
<1>3. Syncing' = Syncing \ {t} /\ ~Moving(t)'
  BY <1>2 DEF Syncing, OthersSame, Moving
<1>4. \A u \in Task \ {t} : Moving(u)' = Moving(u) /\ Listed(u)' = Listed(u)
  BY <1>2 DEF OthersSame, Moving, Listed
<1>5. TaskInv'
  <2>1. AtOneFile(t)'
    BY <1>2, <1>3 DEF AtOneFile, Listed
  <2>2. ASSUME NEW u \in Task \ {t} PROVE AtOneFile(u)'
    BY <1>2, <1>4 DEF DropInv, TaskInv, AtOneFile, OthersSame, Present, optionVars
  <2> QED
    BY <2>1, <2>2 DEF TaskInv
<1>6. LoneInv'
  <2> SUFFICES ASSUME ~crowded PROVE OneTransfer'
    BY <1>2 DEF LoneInv
  <2>1. OneTransfer
    BY DEF DropInv, LoneInv
  <2>2. \A u \in Task : Moving(u)' => mirror'[name'[u]] = SubSeq(reading'[u], 1, offset'[u])
    BY <1>2, <1>3, <1>4, <2>1 DEF OneTransfer, OthersSame
  <2>3. \A u \in Syncing' : \A m \in Listed(u)' \cup {name'[u]} : m \in Name => deleted'[m] = Absent
    <3>1. \A u \in Syncing' : u \in Syncing /\ Listed(u)' = Listed(u) /\ name'[u] = name[u]
      BY <1>2, <1>3, <1>4 DEF OthersSame, Syncing
    <3> QED
      BY <1>2, <2>1, <3>1 DEF OneTransfer
  <2> QED
    BY <1>3, <2>1, <2>2, <2>3 DEF OneTransfer
<1>7. GoneInv' /\ ReceivedAlone'
  BY <1>2 DEF DropInv, GoneInv, ReceivedAlone, Received, optionVars
<1>8. AloneInv' /\ ProgressInv' /\ AnswerIsWhole'
  BY <1>2 DEF AloneInv, ProgressInv, AnswerIsWhole
<1>9. SizeTells'
  <2> SUFFICES ASSUME NoMixture', NEW m \in Name \ ambiguous PROVE Told(m)'
    BY <1>2 DEF SizeTells
  <2>1. ~crowded /\ NoMixture
    BY <1>2, NoMixture' DEF NoMixture, DropInv, TypeOK
  <2>2. OneTransfer /\ Told(m)
    BY <2>1 DEF DropInv, LoneInv, SizeTells
  <2>3. CASE Moving(t) /\ name[t] = m
    <3> SUFFICES ASSUME remote[m] # Absent PROVE Rewritten(m)'
      BY <1>2 DEF Told
    <3>1. mirror[m] = SubSeq(remote[m], 1, offset[t]) /\ offset[t] <= Size(remote[m]) /\ offset[t] \in Nat
      BY <2>2, <2>3 DEF OneTransfer, DropInv, TypeOK, TaskInv, AtOneFile, Moving
    <3>2. remote[m] \in Seq(Row) /\ Size(remote[m]) = Len(remote[m])
      BY Contents DEF DropInv, TypeOK, Size
    <3>3. Size(mirror[m]) = offset[t] /\ \A i \in 1..offset[t] : mirror[m][i] = remote[m][i]
      BY <3>1, <3>2 DEF Size
    <3>4. Writers(m)' = {}
      <4>1. \A u \in Task : ~Moving(u)'
        BY <1>3, <1>4, <2>2, <2>3 DEF OneTransfer, Syncing, Moving
      <4> QED
        BY <4>1 DEF Writers, Moving
    <3> QED
      BY <1>2, <3>1, <3>2, <3>3, <3>4 DEF Rewritten, InPlace
  <2>4. CASE ~(Moving(t) /\ name[t] = m)
    <3>1. Writers(m)' = Writers(m) /\ \A u \in Writers(m) : offset'[u] = offset[u]
      BY <1>2, <2>4 DEF Writers, OthersSame, Moving
    <3>2. Rewritten(m)' = Rewritten(m)
      BY <1>2, <3>1 DEF Rewritten, InPlace
    <3> QED
      BY <1>2, <1>3, <1>4, <2>2, <3>2 DEF Told, OthersSame, Size
  <2> QED
    BY <2>3, <2>4
<1> QED
  BY <1>1, <1>5, <1>6, <1>7, <1>8, <1>9 DEF DropInv

-------------------------------------------------------------------------------
\* The partner's steps touch no task, and none is unmet after one.
LEMMA PartnerStep ==
  ASSUME DropInv, UNCHANGED <<optionVars, phase, syncVars, parseVars, faults, crowded>>, alone' = {}
  PROVE  /\ AloneInv' /\ ProgressInv' /\ AnswerIsWhole'
         /\ \A u \in Task : Moving(u)' = Moving(u) /\ Listed(u)' = Listed(u)
         /\ Syncing' = Syncing /\ NoMixture' = NoMixture
         /\ \A n \in Name : Writers(n)' = Writers(n)
<1>1. AloneInv' /\ ProgressInv' /\ AnswerIsWhole'
  BY DEF AloneInv, ProgressInv, AnswerIsWhole
<1> QED
  BY <1>1 DEF Moving, Listed, Syncing, NoMixture, Writers, optionVars, syncVars

LEMMA LoneKept ==
  ASSUME OneTransfer, UNCHANGED <<phase, syncVars>>,
         \A u \in Task : Moving(u) => mirror'[name[u]] = mirror[name[u]],
         \A m \in Name : deleted[m] = Absent => deleted'[m] = Absent
  PROVE  OneTransfer'
<1>1. Syncing' = Syncing /\ UNCHANGED <<phase, listing, name, reading, offset>>
  BY DEF Syncing, syncVars
<1>2. \A u \in Task : Moving(u)' => mirror'[name'[u]] = SubSeq(reading'[u], 1, offset'[u])
  BY <1>1 DEF OneTransfer, Moving
<1>3. \A u \in Syncing : Listed(u)' \cup {name'[u]} = Listed(u) \cup {name[u]}
  BY <1>1 DEF Listed
<1>4. \A u \in Syncing' : \A n \in Listed(u)' \cup {name'[u]} : n \in Name => deleted'[n] = Absent
  BY <1>1, <1>3 DEF OneTransfer
<1> QED
  BY <1>1, <1>2, <1>4 DEF OneTransfer

LEMMA UploadStep ==
  ASSUME DropInv, NEW n \in Name, Upload(n)
  PROVE  DropInv'
<1>1. TypeOK'
  BY UploadType DEF DropInv
<1>2. PICK c \in Version[n] :
       IF protocol = "none"
       THEN mirror' = [mirror EXCEPT ![n] = c] /\ UNCHANGED <<remote, ambiguous>>
       ELSE /\ remote' = [remote EXCEPT ![n] = c]
            /\ ambiguous' = IF Overtaken(n) \/ SameSize(n, c) THEN ambiguous \cup {n} ELSE ambiguous \ {n}
            /\ UNCHANGED mirror
  BY DEF Upload
<1>3. c \in Content /\ c \in File /\ c # Absent
  BY Contents
<1>4. /\ deleted'[n] = Absent /\ \A m \in Name \ {n} : deleted'[m] = deleted[m] /\ remote'[m] = remote[m]
      /\ \A m \in Name \ {n} : mirror'[m] = mirror[m] /\ (m \in overtaken' <=> m \in overtaken)
      /\ UNCHANGED <<optionVars, phase, syncVars, parseVars, faults, crowded>> /\ alone' = {}
  BY <1>2 DEF Upload, DropInv, TypeOK
<1>5. IF protocol = "none" THEN mirror'[n] = c /\ remote' = remote ELSE remote'[n] = c /\ mirror' = mirror
  BY <1>2 DEF DropInv, TypeOK
<1>6. ASSUME NEW u \in Task PROVE AtOneFile(u)'
  <2>1. files'[u] \subseteq Present(mirror)'
    BY <1>3, <1>4, <1>5 DEF DropInv, TaskInv, AtOneFile, Present, parseVars
  <2>2. Moving(u) => mirror'[name[u]] # Absent /\ protocol # "none"
    BY <1>4, <1>5 DEF DropInv, TaskInv, AtOneFile, TypeOK, Moving
  <2>3. Moving(u) /\ name[u] \notin overtaken' => remote'[name[u]] \in {reading[u], Absent}
    <3> SUFFICES ASSUME Moving(u), name[u] \notin overtaken' PROVE remote'[name[u]] \in {reading[u], Absent}
      OBVIOUS
    <3>1. name[u] # n
      BY DEF Upload
    <3>2. name[u] \notin overtaken
      BY <3>1 DEF Upload
    <3> QED
      BY <1>4, <3>1, <3>2 DEF DropInv, TypeOK, TaskInv, AtOneFile, Moving
  <2> QED
    BY <1>4, <2>1, <2>2, <2>3, PartnerStep DEF DropInv, TaskInv, AtOneFile, syncVars, optionVars
<1>7. LoneInv'
  <2> SUFFICES ASSUME ~crowded PROVE OneTransfer'
    BY <1>4 DEF LoneInv
  <2>1. OneTransfer
    BY DEF DropInv, LoneInv
  <2>2. \A u \in Task : Moving(u) => mirror'[name[u]] = mirror[name[u]]
    BY <1>5 DEF DropInv, TaskInv, AtOneFile, TypeOK, Moving
  <2>3. \A m \in Name : deleted[m] = Absent => deleted'[m] = Absent
    BY <1>4
  <2> QED
    BY <1>4, <2>1, <2>2, <2>3, LoneKept
<1>8. GoneInv' /\ ReceivedAlone'
  BY <1>4, <1>5 DEF DropInv, GoneInv, ReceivedAlone, Received, optionVars
<1>9. SizeTells'
  <2> SUFFICES ASSUME NoMixture, NEW m \in Name \ ambiguous' PROVE Told(m)'
    BY <1>4, PartnerStep DEF SizeTells
  <2>1. CASE protocol = "none"
    BY <1>5, <2>1 DEF DropInv, GoneInv, Told
  <2>2. CASE protocol # "none" /\ m # n
    <3>1. Rewritten(m)' = Rewritten(m)
      BY <1>4, <2>2, PartnerStep DEF Rewritten, InPlace, syncVars
    <3>2. m \notin ambiguous
      BY <1>2, <2>2
    <3> QED
      BY <1>4, <2>2, <3>1, <3>2, PartnerStep DEF DropInv, SizeTells, Told, syncVars, Size
  <2>3. CASE protocol # "none" /\ m = n
    <3>1. ~Overtaken(n) /\ ~SameSize(n, c)
      BY <1>2, <2>3
    <3>2. \A u \in Task : Moving(u) => name[u] # n
      BY <3>1 DEF Overtaken, Moving
    <3>3. Writers(n)' = {}
      BY <1>4, <3>2, PartnerStep DEF Writers, Moving
    <3>4. mirror[n] = Absent \/ mirror[n] = c \/ Size(mirror[n]) # Size(c)
      BY <3>1 DEF SameSize
    <3>5. mirror[n] = c => Rewritten(n)'
      BY <1>3, <1>5, <2>3, SizeType DEF Rewritten, InPlace
    <3> QED
      BY <1>4, <1>5, <2>3, <3>2, <3>4, <3>5, PartnerStep DEF Told, syncVars, Size
  <2> QED
    BY <2>1, <2>2, <2>3
<1> QED
  BY <1>1, <1>4, <1>6, <1>7, <1>8, <1>9, PartnerStep DEF DropInv, TaskInv

LEMMA WithdrawStep ==
  ASSUME DropInv, NEW n \in Name, Withdraw(n)
  PROVE  DropInv'
<1>1. TypeOK'
  BY WithdrawType DEF DropInv
<1>2. /\ remote'[n] = Absent /\ \A m \in Name \ {n} : remote'[m] = remote[m]
      /\ UNCHANGED <<optionVars, phase, syncVars, parseVars, faults, crowded>> /\ alone' = {}
      /\ UNCHANGED <<mirror, deleted, overtaken, ambiguous>>
  BY DEF Withdraw, DropInv, TypeOK, boundVars
<1>3. ASSUME NEW u \in Task PROVE AtOneFile(u)'
  <2>1. Moving(u) => remote'[name[u]] \in {remote[name[u]], Absent}
    BY <1>2 DEF DropInv, TypeOK, Moving
  <2> QED
    BY <1>2, <2>1, PartnerStep DEF DropInv, TaskInv, AtOneFile, Present, syncVars, parseVars, optionVars
<1>4. LoneInv'
  BY <1>2, LoneKept DEF DropInv, LoneInv
<1>5. GoneInv' /\ ReceivedAlone'
  BY <1>2 DEF DropInv, GoneInv, ReceivedAlone, Received, optionVars
<1>6. SizeTells'
  <2> SUFFICES ASSUME NoMixture, NEW m \in Name \ ambiguous PROVE Told(m)'
    BY <1>2, PartnerStep DEF SizeTells
  <2>1. CASE m = n
    BY <1>2, <2>1 DEF Told
  <2>2. CASE m # n
    <3>1. Rewritten(m)' = Rewritten(m)
      BY <1>2, <2>2, PartnerStep DEF Rewritten, InPlace, syncVars
    <3> QED
      BY <1>2, <2>2, <3>1, PartnerStep DEF DropInv, SizeTells, Told, syncVars, Size
  <2> QED
    BY <2>1, <2>2
<1> QED
  BY <1>1, <1>2, <1>3, <1>4, <1>5, <1>6, PartnerStep DEF DropInv, TaskInv

LEMMA DropNext == DropInv /\ [Next]_vars => DropInv'
<1> SUFFICES ASSUME DropInv, [Next]_vars PROVE DropInv'
  OBVIOUS
<1>1. ASSUME NEW n \in Name, Upload(n) \/ Withdraw(n) PROVE DropInv'
  BY <1>1, UploadStep, WithdrawStep
<1>2. ASSUME NEW t \in Task, Sync(t) PROVE DropInv'
  BY <1>2, BeginStep, LookStep, OpenStep, WriteStep, CloseStep, GoneStep, RemoveStep DEF Sync
<1>3. ASSUME NEW t \in Task, Fetch(t) \/ Break(t) PROVE DropInv'
  BY <1>3, ParseStep, ReadStep, ReturnStep, BreakStep DEF Fetch
<1>4. CASE UNCHANGED vars
  <2>1. UNCHANGED <<optionVars, remote, mirror, phase, syncVars, parseVars, boundVars, historyVars>>
    BY <1>4 DEF vars
  <2>2. TypeOK' /\ TaskInv' /\ GoneInv' /\ LoneInv' /\ ReceivedAlone'
    BY <2>1 DEF DropInv, TypeOK, TaskInv, AtOneFile, GoneInv, LoneInv, OneTransfer, ReceivedAlone, Received,
      Moving, Listed, Present, Syncing, optionVars, syncVars, parseVars, boundVars, historyVars, Size
  <2>3. \A n \in Name : Told(n)' = Told(n) /\ Known(n)' = Known(n)
    <3>1. \A n \in Name : Writers(n)' = Writers(n)
      BY <2>1 DEF Writers, syncVars
    <3>2. \A n \in Name : Rewritten(n)' = Rewritten(n)
      BY <2>1, <3>1 DEF Rewritten, InPlace, syncVars
    <3>3. \A n \in Name : Known(n)' = Known(n)
      BY <2>1 DEF Known, optionVars, historyVars
    <3>4. \A u \in Task : Moving(u)' = Moving(u) /\ name'[u] = name[u]
      BY <2>1 DEF Moving, syncVars
    <3> QED
      BY <2>1, <3>2, <3>3, <3>4 DEF Told, Size
  <2>4. NoMixture' = NoMixture /\ Busy' = Busy /\ Syncing' = Syncing
    BY <2>1 DEF NoMixture, Busy, Syncing, optionVars, boundVars, historyVars
  <2>5. SizeTells' /\ AloneInv'
    BY <2>1, <2>3, <2>4 DEF DropInv, SizeTells, AloneInv, syncVars, historyVars
  <2>6. \A t \in Task : \A f : RowsOf(t, f)' = RowsOf(t, f)
    BY <2>1 DEF RowsOf, parseVars
  <2>7. \A t \in Task : Brought(t)' = Brought(t) /\ Parsed(t)' = Parsed(t) /\ Whole(t)' = Whole(t)
    BY <2>1, <2>3, <2>6 DEF Brought, Parsed, Whole, Listed, syncVars, parseVars, historyVars
  <2>8. alone \subseteq Task
    BY DEF DropInv, TypeOK
  <2>9. ProgressInv' /\ AnswerIsWhole'
    BY <2>1, <2>4, <2>7, <2>8 DEF DropInv, ProgressInv, AnswerIsWhole, historyVars
  <2> QED
    BY <2>2, <2>5, <2>9 DEF DropInv
<1> QED
  BY <1>1, <1>2, <1>3, <1>4, NextRunStep DEF Next

-------------------------------------------------------------------------------
\* The invariant of the file gates, for any Devices, files, versions, retries,
\* uploads and failures.
THEOREM DropInvariant == Spec => []DropInv
BY DropInit, DropNext, PTL DEF Spec

\* fetch of a Device returns every row that the files have for it in its window,
\* whatever earlier transfers left half done and whatever the partner did before.
THEOREM WholeSafety == Spec => []AnswerIsWhole
<1>1. DropInv => AnswerIsWhole
  BY DEF DropInv
<1> QED
  BY <1>1, DropInvariant, PTL

\* As long as no two tasks sync at a time, the mirror has every file that the
\* gate deleted on the server, as the server had it when it was deleted, and
\* keeps it until the partner uploads the name again; a file that was uploaded
\* anew while it was transferred is set apart.
THEOREM ReceivedSafety == Spec => []ReceivedAlone
<1>1. DropInv => ReceivedAlone
  BY DEF DropInv
<1> QED
  BY <1>1, DropInvariant, PTL
===============================================================================
