---------------------------- MODULE ControlProofs ----------------------------
(***************************************************************************)
(* Theorems about ProcessControl for every number of invocations, every    *)
(* set of configuration files and commands, and every fault: types, and    *)
(* what a pid file says while operators wait for a command to return.      *)
(***************************************************************************)
EXTENDS ProcessControl, ConfigurationProofs

\* Where kill_process has a pid in hand.
Knows == {"probe", "kill", "remove"}

AllAddresses == UNION {Addresses(f) : f \in DOMAIN Files}

ProcType == [at : Ats, op : {"start", "stop", "restart"}, daemon : BOOLEAN,
             cwd : {"start", "argv0"}, file : DOMAIN Files \cup {"none"},
             pid : Procs \cup {Nobody}, bound : SUBSET AllAddresses, workers : Nat,
             crashed : Ats \cup {"no"}]

ProcRecords == {r \in ProcType : /\ r.at \notin {"new", "end"} => r.file \in DOMAIN Files
                                 /\ r.at \in Knows => r.pid \in Procs}

FilesType == [Places -> Procs \cup {Absent, Empty}]

ControlTypes ==
  /\ proc \in [Procs -> ProcRecords]
  /\ files \in FilesType
  /\ signalled \subseteq Procs /\ hung \subseteq Procs /\ hit \subseteq Procs
  /\ recycled \in [Procs -> {"free", "same user", "other user"}]
  /\ serial \in BOOLEAN

-----------------------------------------------------------------------------
(* Types                                                                    *)

LEMMA NoProcess == Absent \notin Procs /\ Empty \notin Procs /\ Nobody \notin Procs /\ Absent # Empty
BY InvocationsAssumption DEF Absent, Empty, Nobody, Procs

LEMMA FreshType == Fresh \in ProcRecords /\ Fresh.at = "new"
BY DEF Fresh, ProcRecords, ProcType, Ats, Knows, Nobody, AllAddresses

\* What the record of a process that is alive holds.
LEMMA AliveRecord ==
  ASSUME ControlTypes, NEW p \in Procs, Alive(p)
  PROVE  /\ proc[p] \in ProcType /\ At(p) \in Ats
         /\ proc[p].file \in DOMAIN Files
         /\ At(p) \in Knows => proc[p].pid \in Procs
<1>1. proc[p] \in ProcRecords
  BY DEF ControlTypes
<1> QED
  BY <1>1 DEF ProcRecords, ProcType, Alive, At

\* A process that is alive looks for its pid file in one of the places.
LEMMA PlaceType ==
  ASSUME ControlTypes, NEW p \in Procs, Alive(p)
  PROVE  Place(p) \in Places
<1>1. proc[p].file \in DOMAIN Files /\ proc[p].cwd \in {"start", "argv0"}
  BY AliveRecord DEF ProcType
<1>2. Conf(p)["pidfile"] \in {"", "/pid", "pid"}
  BY <1>1, FilesAssumption DEF Conf, Parsed
<1> QED
  BY <1>1, <1>2 DEF Place, Places

\* A step that gives one process another record.
LEMMA ProcStepTypes ==
  ASSUME ControlTypes, NEW p \in Procs, NEW record \in ProcRecords,
         proc' = [proc EXCEPT ![p] = record]
  PROVE  proc' \in [Procs -> ProcRecords]
BY DEF ControlTypes

\* The record of a process that has ended, by itself or in a crash.
LEMMA OverTypes ==
  ASSUME ControlTypes, NEW p \in Procs, NEW how \in Ats \cup {"no"}, End(p, how)
  PROVE  /\ proc' \in [Procs -> ProcRecords] /\ At(p)' = "end"
         /\ proc'[p].pid = proc[p].pid /\ proc'[p].crashed = how
<1> DEFINE record == [Fresh EXCEPT !.at = "end", !.pid = proc[p].pid, !.crashed = how]
<1>1. /\ record \in ProcRecords /\ record.at = "end"
      /\ record.pid = proc[p].pid /\ record.crashed = how
  <2>1. proc[p].pid \in Procs \cup {Nobody}
    BY DEF ControlTypes, ProcRecords, ProcType
  <2>2. Fresh \in ProcType
    BY FreshType DEF ProcRecords
  <2>3. [Fresh EXCEPT !.at = "end"] \in ProcType
    BY <2>2 DEF ProcType, Ats
  <2>4. [[Fresh EXCEPT !.at = "end"] EXCEPT !.pid = proc[p].pid] \in ProcType
    BY <2>1, <2>3 DEF ProcType
  <2>5. record \in ProcType
    BY <2>4 DEF ProcType
  <2>6. record.at = "end" /\ record.pid = proc[p].pid /\ record.crashed = how
    BY <2>2 DEF ProcType
  <2> QED
    BY <2>5, <2>6 DEF ProcRecords, Knows
<1>2. proc' = [proc EXCEPT ![p] = record]
  BY DEF End
<1> HIDE DEF record
<1> QED
  BY <1>1, <1>2, ProcStepTypes DEF ControlTypes, At

LEMMA ExitTypes ==
  ASSUME ControlTypes, NEW p \in Procs, Exit(p)
  PROVE  proc' \in [Procs -> ProcRecords] /\ At(p)' = "end"
BY OverTypes DEF Exit

\* A crash comes at a point of the program.
LEMMA CrashOver ==
  ASSUME ControlTypes, NEW p \in Procs, Crash(p)
  PROVE  /\ At(p) \in Ats /\ End(p, At(p)) /\ OnlyProc /\ Alive(p)
         /\ proc' \in [Procs -> ProcRecords] /\ At(p)' = "end"
         /\ proc'[p].pid = proc[p].pid /\ proc'[p].crashed = At(p)
<1>1. Alive(p) /\ End(p, At(p)) /\ OnlyProc
  BY DEF Crash
<1>2. At(p) \in Ats
  BY <1>1, AliveRecord
<1> QED
  BY <1>1, <1>2, OverTypes

LEMMA GotoTypes ==
  ASSUME ControlTypes, NEW p \in Procs, Alive(p), NEW at \in Ats, Goto(p, at),
         at \in Knows => At(p) \in Knows
  PROVE  proc' \in [Procs -> ProcRecords] /\ At(p)' = at
<1> DEFINE record == [proc[p] EXCEPT !.at = at]
<1>1. record \in ProcRecords /\ record.at = at
  BY AliveRecord DEF ProcRecords, ProcType
<1>2. proc' = [proc EXCEPT ![p] = record]
  BY DEF Goto
<1> HIDE DEF record
<1> QED
  BY <1>1, <1>2, ProcStepTypes DEF ControlTypes, At

LEMMA RemoveTypes ==
  ASSUME ControlTypes, NEW p \in Procs, Alive(p), RemoveFile(p)
  PROVE  files' \in FilesType
BY PlaceType DEF ControlTypes, RemoveFile, FilesType

LEMMA TypesInit == ASSUME Init PROVE ControlTypes
BY FreshType DEF Init, ControlTypes, FilesType

LEMMA LaunchTypes ==
  ASSUME ControlTypes, NEW p \in Procs, Launch(p)
  PROVE  ControlTypes'
<1>1. PICK c \in Commands :
        proc' = [proc EXCEPT ![p] = [@ EXCEPT !.at = IF c.daemon THEN "daemonize" ELSE "run",
                                              !.op = c.op, !.daemon = c.daemon, !.file = c.file]]
  BY DEF Launch
<1> DEFINE record == [proc[p] EXCEPT !.at = IF c.daemon THEN "daemonize" ELSE "run",
                                     !.op = c.op, !.daemon = c.daemon, !.file = c.file]
<1>2. c \in [op : {"start", "stop", "restart"}, daemon : BOOLEAN, file : DOMAIN Files]
  BY CommandsAssumption
<1>3. record \in ProcRecords
  <2>1. proc[p] \in ProcType
    BY DEF ControlTypes, ProcRecords
  <2>2. c.op \in {"start", "stop", "restart"} /\ c.daemon \in BOOLEAN /\ c.file \in DOMAIN Files
    BY <1>2
  <2> DEFINE at == IF c.daemon THEN "daemonize" ELSE "run"
  <2>3. at \in {"daemonize", "run"}
    OBVIOUS
  <2> HIDE DEF at
  <2>4. record = [proc[p] EXCEPT !.at = at, !.op = c.op, !.daemon = c.daemon, !.file = c.file]
    BY DEF at
  <2> HIDE DEF record
  <2>5. /\ record.at = at /\ record.file = c.file /\ record \in ProcType
    BY <2>1, <2>2, <2>3, <2>4 DEF ProcType, Ats
  <2> QED
    BY <2>2, <2>3, <2>5 DEF ProcRecords, Knows
<1>4. proc' = [proc EXCEPT ![p] = record]
  BY <1>1 DEF ControlTypes
<1> HIDE DEF record
<1> QED
  BY <1>3, <1>4, ProcStepTypes DEF Launch, OnlyProc, ControlTypes

LEMMA DaemonizeTypes ==
  ASSUME ControlTypes, NEW p \in Procs, Daemonize(p)
  PROVE  ControlTypes'
<1>0. Alive(p)
  BY DEF Daemonize, Alive
<1>1. ASSUME proc' = [proc EXCEPT ![p].at = "run", ![p].cwd = "argv0"]
      PROVE  proc' \in [Procs -> ProcRecords]
  <2> DEFINE record == [proc[p] EXCEPT !.at = "run", !.cwd = "argv0"]
  <2>1. record \in ProcRecords
    <3>1. proc[p] \in ProcType /\ proc[p].file \in DOMAIN Files
      BY <1>0, AliveRecord
    <3>2. record \in ProcType /\ record.at = "run" /\ record.file = proc[p].file
      BY <3>1 DEF ProcType, Ats
    <3> QED
      BY <3>1, <3>2 DEF ProcRecords, Knows
  <2>2. proc' = [proc EXCEPT ![p] = record]
    BY <1>1 DEF ControlTypes
  <2> HIDE DEF record
  <2> QED
    BY <2>1, <2>2, ProcStepTypes
<1>2. ASSUME Exit(p) PROVE proc' \in [Procs -> ProcRecords]
  BY <1>2, ExitTypes
<1>3. ASSUME Goto(p, "run") PROVE proc' \in [Procs -> ProcRecords]
  BY <1>0, <1>3, GotoTypes DEF Ats, Knows
<1> QED
  BY <1>1, <1>2, <1>3 DEF Daemonize, OnlyProc, ControlTypes

LEMMA ReadPidTypes ==
  ASSUME ControlTypes, NEW p \in Procs, ReadPid(p)
  PROVE  ControlTypes'
<1>1. Alive(p) /\ OnlyProc
  BY DEF ReadPid, Alive
<1>2. ASSUME files[Place(p)] \in {Absent, Empty} PROVE proc' \in [Procs -> ProcRecords]
  BY <1>2, ExitTypes, PlaceType, <1>1, NoProcess DEF ReadPid
<1>3. ASSUME files[Place(p)] \notin {Absent, Empty} PROVE proc' \in [Procs -> ProcRecords]
  <2> DEFINE record == [proc[p] EXCEPT !.at = "probe", !.pid = files[Place(p)]]
  <2>1. files[Place(p)] \in Procs
    BY <1>1, <1>3, PlaceType DEF ControlTypes, FilesType
  <2>2. record \in ProcRecords
    <3>1. proc[p] \in ProcType /\ proc[p].file \in DOMAIN Files
      BY <1>1, AliveRecord
    <3>2. /\ record \in ProcType /\ record.at = "probe" /\ record.file = proc[p].file
          /\ record.pid = files[Place(p)]
      BY <2>1, <3>1 DEF ProcType, Ats
    <3> QED
      BY <2>1, <3>1, <3>2 DEF ProcRecords
  <2>3. proc' = [proc EXCEPT ![p] = record]
    BY <1>3 DEF ReadPid, ControlTypes
  <2> HIDE DEF record
  <2> QED
    BY <2>2, <2>3, ProcStepTypes
<1> QED
  BY <1>1, <1>2, <1>3 DEF OnlyProc, ControlTypes

LEMMA KillProcessTypes ==
  ASSUME ControlTypes, NEW p \in Procs, Probe(p) \/ Kill(p) \/ Remove(p) \/ Await(p)
  PROVE  ControlTypes'
<1>1. Alive(p)
  BY DEF Probe, Kill, Remove, Await, Alive
<1>2. Exit(p) \/ \E at \in Ats : Goto(p, at) /\ (at \in Knows => At(p) \in Knows)
  BY DEF Probe, Kill, Remove, Await, Rest, Ats, Knows
<1>3. proc' \in [Procs -> ProcRecords]
  BY <1>1, <1>2, ExitTypes, GotoTypes
<1>4. files' \in FilesType
  BY <1>1, RemoveTypes DEF Probe, Kill, Remove, Await, OnlyProc, ControlTypes
<1>5. At(p) = "kill" => proc[p].pid \in Procs
  BY <1>1, AliveRecord DEF Knows
<1>6. /\ signalled' \subseteq Procs /\ hit' \subseteq Procs
      /\ UNCHANGED <<hung, recycled, serial>>
  BY <1>5 DEF Probe, Kill, Remove, Await, OnlyProc, ControlTypes
<1> QED
  BY <1>3, <1>4, <1>6 DEF ControlTypes

LEMMA RunTypes ==
  ASSUME ControlTypes, NEW p \in Procs, Run(p)
  PROVE  ControlTypes'
<1>1. Alive(p) /\ proc[p].op \in {"start", "stop", "restart"}
  BY AliveRecord DEF Run, Alive, At, ProcType
<1>2. Exit(p) \/ Goto(p, "admin") \/ Goto(p, "read")
  BY <1>1 DEF Run
<1>3. proc' \in [Procs -> ProcRecords]
  BY <1>1, <1>2, ExitTypes, GotoTypes DEF Ats, Knows
<1> QED
  BY <1>3 DEF Run, OnlyProc, ControlTypes

\* What a process has bound after one more socket.
LEMMA BindTypes ==
  ASSUME ControlTypes, NEW p \in Procs, BindAdmin(p) \/ BindFront(p)
  PROVE  ControlTypes'
<1>1. Alive(p) /\ OnlyProc /\ proc[p].file \in DOMAIN Files
  BY AliveRecord DEF BindAdmin, BindFront, Bind, Alive
<1>2. ASSUME NEW to \in {"front", "threads"}, NEW a \in Addresses(proc[p].file),
             proc' = [proc EXCEPT ![p].at = to, ![p].bound = @ \cup {a}]
      PROVE  proc' \in [Procs -> ProcRecords]
  <2> DEFINE record == [proc[p] EXCEPT !.at = to, !.bound = @ \cup {a}]
  <2>1. a \in AllAddresses
    BY <1>1 DEF AllAddresses
  <2>2. record \in ProcRecords
    <3>1. proc[p] \in ProcType
      BY <1>1, AliveRecord
    <3>2. record \in ProcType /\ record.at = to /\ record.file = proc[p].file
      BY <2>1, <3>1 DEF ProcType, Ats
    <3> QED
      BY <1>1, <3>2 DEF ProcRecords, Knows
  <2>3. proc' = [proc EXCEPT ![p] = record]
    BY <1>2 DEF ControlTypes
  <2> HIDE DEF record
  <2> QED
    BY <2>2, <2>3, ProcStepTypes
<1>3. \/ Exit(p)
      \/ \E to \in {"front", "threads"}, a \in Addresses(proc[p].file) :
           proc' = [proc EXCEPT ![p].at = to, ![p].bound = @ \cup {a}]
  BY DEF BindAdmin, BindFront, Bind, Addresses, Conf
<1>4. proc' \in [Procs -> ProcRecords]
  BY <1>2, <1>3, ExitTypes
<1> QED
  BY <1>1, <1>4 DEF OnlyProc, ControlTypes

LEMMA ThreadsTypes ==
  ASSUME ControlTypes, NEW p \in Procs, Threads(p)
  PROVE  ControlTypes'
<1>1. Alive(p) /\ OnlyProc
  BY DEF Threads, Alive
<1>2. PICK n \in 0..Conf(p)["nthreads"] :
        proc' = [proc EXCEPT ![p].workers = n,
                             ![p].at = IF proc[p].daemon THEN "open" ELSE "serve"]
  BY DEF Threads
<1> DEFINE record == [proc[p] EXCEPT !.workers = n,
                                     !.at = IF proc[p].daemon THEN "open" ELSE "serve"]
<1>3. n \in Nat
  OBVIOUS
<1>4. record \in ProcRecords
  <2>1. proc[p] \in ProcType /\ proc[p].file \in DOMAIN Files
    BY <1>1, AliveRecord
  <2>2. record \in ProcType
    BY <1>3, <2>1 DEF ProcType, Ats
  <2>3. record.at \in {"open", "serve"} /\ record.file = proc[p].file
    BY <2>1 DEF ProcType
  <2> QED
    BY <2>1, <2>2, <2>3 DEF ProcRecords, Knows
<1>5. proc' = [proc EXCEPT ![p] = record]
  BY <1>2 DEF ControlTypes
<1> HIDE DEF record
<1> QED
  BY <1>1, <1>4, <1>5, ProcStepTypes DEF OnlyProc, ControlTypes

LEMMA PidFileTypes ==
  ASSUME ControlTypes, NEW p \in Procs, OpenPid(p) \/ PutPid(p)
  PROVE  ControlTypes'
<1>1. Alive(p)
  BY DEF OpenPid, PutPid, Alive
<1>2. Exit(p) \/ Goto(p, "put") \/ Goto(p, "serve")
  BY DEF OpenPid, PutPid
<1>3. proc' \in [Procs -> ProcRecords]
  BY <1>1, <1>2, ExitTypes, GotoTypes DEF Ats, Knows
<1>4. files' \in FilesType
  BY <1>1, PlaceType DEF OpenPid, PutPid, FilesType, ControlTypes
<1> QED
  BY <1>3, <1>4 DEF OpenPid, PutPid, ControlTypes

LEMMA EndTypes ==
  ASSUME ControlTypes, NEW p \in Procs, Terminate(p) \/ Mishap(p)
  PROVE  ControlTypes'
<1>1. CASE Fail(p)
  BY <1>1, ExitTypes DEF Fail, OnlyProc, ControlTypes
<1>2. CASE Hang(p)
  BY <1>2 DEF Hang, ControlTypes
<1>3. CASE Recycle(p)
  BY <1>3 DEF Recycle, ControlTypes
<1>4. CASE Crash(p)
  BY <1>4, CrashOver DEF OnlyProc, ControlTypes
<1> QED
  BY <1>1, <1>2, <1>3, <1>4 DEF Terminate, Mishap, StartFails

LEMMA TypesStep ==
  ASSUME ControlTypes, [Next]_vars
  PROVE  ControlTypes'
<1>1. CASE UNCHANGED vars
  BY <1>1 DEF vars, ControlTypes
<1>2. ASSUME NEW p \in Procs, Launch(p) \/ Command(p) \/ Terminate(p) \/ Mishap(p)
      PROVE  ControlTypes'
  <2>1. CASE Command(p)
    BY <2>1, DaemonizeTypes, RunTypes, ReadPidTypes, KillProcessTypes, BindTypes, ThreadsTypes,
       PidFileTypes DEF Command
  <2> QED
    BY <1>2, <2>1, LaunchTypes, EndTypes
<1> QED
  BY <1>1, <1>2 DEF Next

LEMMA TypesImply == ASSUME ControlTypes PROVE ControlTypeOK
<1>1. ASSUME NEW p \in Procs
      PROVE  /\ At(p) \in Ats /\ proc[p].pid \in Procs \cup {Nobody} /\ proc[p].workers \in Nat
             /\ proc[p].crashed \in Ats \cup {"no"}
             /\ Alive(p) => proc[p].file \in DOMAIN Files /\ Place(p) \in Places
  <2>1. proc[p] \in ProcType
    BY DEF ControlTypes, ProcRecords
  <2> QED
    BY <2>1, AliveRecord, PlaceType DEF ProcType, At
<1> QED
  BY <1>1 DEF ControlTypeOK, ControlTypes, FilesType

\* Every variable keeps its type, for any number of invocations: a process that is
\* alive has a file, and its pid file is in one of the places.
THEOREM ControlTyped == Spec => []ControlTypeOK
<1>1. Init => ControlTypes
  BY TypesInit
<1>2. ControlTypes /\ [Next]_vars => ControlTypes'
  BY TypesStep
<1>3. ControlTypes => ControlTypeOK
  BY TypesImply
<1> QED
  BY <1>1, <1>2, <1>3, PTL DEF Spec

-----------------------------------------------------------------------------
(* The listening sockets                                                    *)

Admin(f) == <<Parsed[f]["admin_ip"], Parsed[f]["admin_port"]>>
Front(f) == <<Parsed[f]["front_ip"], Parsed[f]["front_port"]>>

\* What a process listens on, by where it is.
Bound(p) ==
  /\ At(p) \in {"threads", "open", "put", "serve"} =>
       /\ proc[p].bound = Addresses(proc[p].file)
       /\ \A a \in Addresses(proc[p].file) : a[1] # ""
  /\ At(p) = "front" =>
       proc[p].bound = {Admin(proc[p].file)} /\ Admin(proc[p].file)[1] # ""
  /\ At(p) \notin {"front", "threads", "open", "put", "serve"} => proc[p].bound = {}

\* Two processes have no address in common, but for port 0.
Apart(p, q) == \A a \in proc[p].bound \cap proc[q].bound : a[2] = 0

Listening ==
  /\ \A p \in Procs : Bound(p)
  /\ \A p, q \in Procs : p # q => Apart(p, q)

\* A step of one process, after which it listens on no more than before, or on one
\* address more that was free.
LEMMA ListeningStep ==
  ASSUME ControlTypes, Listening, NEW p \in Procs, NEW record,
         proc' = [proc EXCEPT ![p] = record], Bound(p)',
         \A a \in record.bound \ proc[p].bound : ~Taken(a)
  PROVE  Listening'
<1>1. proc'[p] = record /\ \A q \in Procs \ {p} : proc'[q] = proc[q]
  BY DEF ControlTypes
<1>2. \A q \in Procs : Bound(q)'
  <2>1. ASSUME NEW q \in Procs \ {p} PROVE Bound(q)'
    <3>1. proc'[q] = proc[q] /\ At(q)' = At(q) /\ Bound(q)
      BY <1>1 DEF Listening, At
    <3> QED
      BY <3>1 DEF Bound
  <2> QED
    BY <2>1
<1>3. ASSUME NEW q \in Procs \ {p}
      PROVE  Apart(p, q)' /\ Apart(q, p)'
  <2>1. \A b \in record.bound \cap proc[q].bound : b[2] = 0
    BY DEF Listening, Apart, Taken
  <2> QED
    BY <1>1, <2>1 DEF Apart
<1>4. \A q, s \in Procs \ {p} : q # s => Apart(q, s)'
  BY <1>1 DEF Listening, Apart
<1> QED
  BY <1>2, <1>3, <1>4 DEF Listening

LEMMA OverListening ==
  ASSUME ControlTypes, Listening, NEW p \in Procs, NEW how \in Ats \cup {"no"}, End(p, how)
  PROVE  Listening'
<1> DEFINE record == [Fresh EXCEPT !.at = "end", !.pid = proc[p].pid, !.crashed = how]
<1>1. record.at = "end" /\ record.bound = {}
  <2>1. Fresh \in ProcType /\ Fresh.bound = {}
    BY FreshType DEF ProcRecords, Fresh
  <2> QED
    BY <2>1 DEF ProcType
<1>2. proc' = [proc EXCEPT ![p] = record]
  BY DEF End
<1> HIDE DEF record
<1>3. Bound(p)'
  BY <1>1, <1>2 DEF ControlTypes, Bound, At
<1> QED
  BY <1>1, <1>2, <1>3, ListeningStep

LEMMA EndListening ==
  ASSUME ControlTypes, Listening, NEW p \in Procs, Exit(p)
  PROVE  Listening'
BY OverListening DEF Exit

\* Steps that bind nothing.
LEMMA GoListening ==
  ASSUME ControlTypes, Listening, NEW p \in Procs, NEW at, Goto(p, at),
         \/ {at, At(p)} \subseteq {"threads", "open", "put", "serve"}
         \/ {at, At(p)} \cap {"front", "threads", "open", "put", "serve"} = {}
  PROVE  Listening'
<1> DEFINE record == [proc[p] EXCEPT !.at = at]
<1>0. proc[p] \in ProcType
  BY DEF ControlTypes, ProcRecords
<1>1. record.at = at /\ record.bound = proc[p].bound /\ record.file = proc[p].file
  BY <1>0 DEF ProcType
<1>2. proc' = [proc EXCEPT ![p] = record]
  BY DEF Goto
<1> HIDE DEF record
<1>3. Bound(p)'
  BY <1>1, <1>2 DEF ControlTypes, Listening, Bound, At
<1> QED
  BY <1>1, <1>2, <1>3, ListeningStep

LEMMA BindListening ==
  ASSUME ControlTypes, Listening, NEW p \in Procs, BindAdmin(p) \/ BindFront(p)
  PROVE  Listening'
<1>0. proc[p] \in ProcType /\ Bound(p)
  BY DEF ControlTypes, ProcRecords, Listening
<1>1. ASSUME NEW to \in {"front", "threads"}, NEW a, ~Taken(a),
             proc' = [proc EXCEPT ![p].at = to, ![p].bound = @ \cup {a}],
             \/ /\ to = "front" /\ At(p) = "admin"
                /\ a = Admin(proc[p].file) /\ a[1] # ""
             \/ /\ to = "threads" /\ At(p) = "front"
                /\ a = Front(proc[p].file) /\ a[1] # ""
      PROVE  Listening'
  <2> DEFINE record == [proc[p] EXCEPT !.at = to, !.bound = @ \cup {a}]
  <2>1. /\ record.at = to /\ record.bound = proc[p].bound \cup {a}
        /\ record.file = proc[p].file
    BY <1>0 DEF ProcType
  <2>2. proc' = [proc EXCEPT ![p] = record]
    BY <1>1 DEF ControlTypes
  <2> HIDE DEF record
  <2>3. proc'[p] = record
    BY <2>2 DEF ControlTypes
  <2>4. Addresses(proc[p].file) = {Admin(proc[p].file), Front(proc[p].file)}
    BY DEF Addresses, Admin, Front
  <2>5. Bound(p)'
    <3>1. At(p)' = to /\ proc'[p].file = proc[p].file /\ proc'[p].bound = proc[p].bound \cup {a}
      BY <2>1, <2>3 DEF At
    <3>2. CASE to = "front"
      BY <1>0, <1>1, <3>1, <3>2 DEF Bound
    <3>3. CASE to = "threads"
      <4>1. /\ proc[p].bound = {Admin(proc[p].file)} /\ Admin(proc[p].file)[1] # ""
            /\ a = Front(proc[p].file) /\ a[1] # ""
        BY <1>0, <1>1, <3>3 DEF Bound
      <4>2. /\ proc'[p].bound = Addresses(proc[p].file)
            /\ \A b \in Addresses(proc[p].file) : b[1] # ""
        BY <2>4, <3>1, <4>1
      <4> QED
        BY <3>1, <3>3, <4>2 DEF Bound
    <3> QED
      BY <3>2, <3>3
  <2>6. \A b \in record.bound \ proc[p].bound : ~Taken(b)
    BY <1>1, <2>1
  <2> QED
    BY <2>2, <2>5, <2>6, ListeningStep
<1>2. ASSUME BindAdmin(p) PROVE Listening'
  <2>1. At(p) = "admin"
    BY <1>2 DEF BindAdmin, Bind
  <2>2. \/ Exit(p)
        \/ /\ Admin(proc[p].file)[1] # "" /\ ~Taken(Admin(proc[p].file))
           /\ proc' = [proc EXCEPT ![p].at = "front", ![p].bound = @ \cup {Admin(proc[p].file)}]
    BY <1>2 DEF BindAdmin, Bind, Conf, Admin
  <2> QED
    BY <1>1, <2>1, <2>2, EndListening
<1>3. ASSUME BindFront(p) PROVE Listening'
  <2>1. At(p) = "front"
    BY <1>3 DEF BindFront, Bind
  <2>2. \/ Exit(p)
        \/ /\ Front(proc[p].file)[1] # "" /\ ~Taken(Front(proc[p].file))
           /\ proc' = [proc EXCEPT ![p].at = "threads", ![p].bound = @ \cup {Front(proc[p].file)}]
    BY <1>3 DEF BindFront, Bind, Conf, Front
  <2> QED
    BY <1>1, <2>1, <2>2, EndListening
<1> QED
  BY <1>2, <1>3

LEMMA LaunchListening ==
  ASSUME ControlTypes, Listening, NEW p \in Procs, Launch(p)
  PROVE  Listening'
<1>1. PICK c \in Commands :
        proc' = [proc EXCEPT ![p] = [@ EXCEPT !.at = IF c.daemon THEN "daemonize" ELSE "run",
                                              !.op = c.op, !.daemon = c.daemon, !.file = c.file]]
  BY DEF Launch
<1> DEFINE record == [proc[p] EXCEPT !.at = IF c.daemon THEN "daemonize" ELSE "run",
                                     !.op = c.op, !.daemon = c.daemon, !.file = c.file]
<1>2. proc[p] \in ProcType /\ Bound(p) /\ At(p) = "new"
  BY DEF ControlTypes, ProcRecords, Listening, Launch
<1>3. record.at \in {"daemonize", "run"} /\ record.bound = proc[p].bound
  BY <1>2 DEF ProcType
<1>4. proc' = [proc EXCEPT ![p] = record]
  BY <1>1 DEF ControlTypes
<1> HIDE DEF record
<1>5. Bound(p)'
  BY <1>2, <1>3, <1>4 DEF ControlTypes, Bound, At
<1> QED
  BY <1>3, <1>4, <1>5, ListeningStep

LEMMA DaemonizeListening ==
  ASSUME ControlTypes, Listening, NEW p \in Procs, Daemonize(p)
  PROVE  Listening'
<1>1. proc[p] \in ProcType /\ Bound(p) /\ At(p) = "daemonize"
  BY DEF ControlTypes, ProcRecords, Listening, Daemonize
<1>2. ASSUME proc' = [proc EXCEPT ![p].at = "run", ![p].cwd = "argv0"]
      PROVE  Listening'
  <2> DEFINE record == [proc[p] EXCEPT !.at = "run", !.cwd = "argv0"]
  <2>1. record.at = "run" /\ record.bound = proc[p].bound
    BY <1>1 DEF ProcType
  <2>2. proc' = [proc EXCEPT ![p] = record]
    BY <1>2 DEF ControlTypes
  <2> HIDE DEF record
  <2>3. Bound(p)'
    BY <1>1, <2>1, <2>2 DEF ControlTypes, Bound, At
  <2> QED
    BY <2>1, <2>2, <2>3, ListeningStep
<1> QED
  BY <1>1, <1>2, EndListening, GoListening DEF Daemonize

LEMMA ReadPidListening ==
  ASSUME ControlTypes, Listening, NEW p \in Procs, ReadPid(p)
  PROVE  Listening'
<1>1. proc[p] \in ProcType /\ Bound(p) /\ At(p) = "read"
  BY DEF ControlTypes, ProcRecords, Listening, ReadPid
<1>2. ASSUME proc' = [proc EXCEPT ![p].at = "probe", ![p].pid = files[Place(p)]]
      PROVE  Listening'
  <2> DEFINE record == [proc[p] EXCEPT !.at = "probe", !.pid = files[Place(p)]]
  <2>1. record.at = "probe" /\ record.bound = proc[p].bound
    BY <1>1 DEF ProcType
  <2>2. proc' = [proc EXCEPT ![p] = record]
    BY <1>2 DEF ControlTypes
  <2> HIDE DEF record
  <2>3. Bound(p)'
    BY <1>1, <2>1, <2>2 DEF ControlTypes, Bound, At
  <2> QED
    BY <2>1, <2>2, <2>3, ListeningStep
<1> QED
  BY <1>1, <1>2, EndListening DEF ReadPid

LEMMA ThreadsListening ==
  ASSUME ControlTypes, Listening, NEW p \in Procs, Threads(p)
  PROVE  Listening'
<1>1. proc[p] \in ProcType /\ Bound(p) /\ At(p) = "threads"
  BY DEF ControlTypes, ProcRecords, Listening, Threads
<1>2. PICK n \in 0..Conf(p)["nthreads"] :
        proc' = [proc EXCEPT ![p].workers = n,
                             ![p].at = IF proc[p].daemon THEN "open" ELSE "serve"]
  BY DEF Threads
<1> DEFINE record == [proc[p] EXCEPT !.workers = n,
                                     !.at = IF proc[p].daemon THEN "open" ELSE "serve"]
<1>3. /\ record.at \in {"open", "serve"} /\ record.bound = proc[p].bound
      /\ record.file = proc[p].file
  BY <1>1 DEF ProcType
<1>4. proc' = [proc EXCEPT ![p] = record]
  BY <1>2 DEF ControlTypes
<1> HIDE DEF record
<1>5. Bound(p)'
  BY <1>1, <1>3, <1>4 DEF ControlTypes, Bound, At
<1> QED
  BY <1>3, <1>4, <1>5, ListeningStep

LEMMA ListenStep ==
  ASSUME ControlTypes, Listening, [Next]_vars
  PROVE  Listening'
<1>1. CASE UNCHANGED proc
  BY <1>1 DEF Listening, Bound, Apart, At
<1>2. ASSUME NEW p \in Procs, Command(p) PROVE Listening'
  <2>1. CASE Run(p)
    <3>1. Exit(p) \/ Goto(p, "admin") \/ Goto(p, "read")
      <4>1. At(p) = "run" /\ proc[p].op \in {"start", "stop", "restart"}
        BY <2>1 DEF Run, ControlTypes, ProcRecords, ProcType
      <4> QED
        BY <2>1, <4>1 DEF Run
    <3> QED
      BY <2>1, <3>1, EndListening, GoListening DEF Run
  <2>2. CASE Probe(p) \/ Kill(p) \/ Remove(p) \/ Await(p)
    BY <2>2, EndListening, GoListening DEF Probe, Kill, Remove, Await, Rest
  <2>3. CASE OpenPid(p) \/ PutPid(p)
    BY <2>3, EndListening, GoListening DEF OpenPid, PutPid
  <2> QED
    BY <1>2, <2>1, <2>2, <2>3, DaemonizeListening, ReadPidListening, BindListening,
       ThreadsListening DEF Command
<1>3. ASSUME NEW p \in Procs, Terminate(p) \/ Mishap(p) PROVE Listening'
  <2>1. Exit(p) \/ Crash(p) \/ UNCHANGED proc
    BY <1>3 DEF Terminate, Mishap, StartFails, Hang, Recycle, Fail
  <2> QED
    BY <1>1, <2>1, EndListening, CrashOver, OverListening
<1> QED
  BY <1>1, <1>2, <1>3, LaunchListening DEF Next, vars

-----------------------------------------------------------------------------
(* The configuration of a process with workers                              *)

\* A process has workers only after it has read how many, and has bound both of
\* its addresses.
WorkersInv ==
  \A p \in Procs : \/ proc[p].workers = 0
                   \/ At(p) \in {"open", "put", "serve"} /\ Conf(p)["nthreads"] # 0

LEMMA WorkersOf ==
  ASSUME ControlTypes, WorkersInv, NEW p \in Procs, NEW record,
         proc' = [proc EXCEPT ![p] = record],
         \/ record.workers = 0
         \/ record.at \in {"open", "put", "serve"} /\ Parsed[record.file]["nthreads"] # 0
  PROVE  WorkersInv'
<1>1. proc'[p] = record /\ \A q \in Procs \ {p} : proc'[q] = proc[q]
  BY DEF ControlTypes
<1> QED BY <1>1 DEF WorkersInv, At, Conf

LEMMA OverWorkers ==
  ASSUME ControlTypes, WorkersInv, NEW p \in Procs, NEW how \in Ats \cup {"no"}, End(p, how)
  PROVE  WorkersInv'
<1> DEFINE record == [Fresh EXCEPT !.at = "end", !.pid = proc[p].pid, !.crashed = how]
<1>1. record.workers = 0
  <2>1. Fresh \in ProcType /\ Fresh.workers = 0
    BY FreshType DEF ProcRecords, Fresh
  <2> QED BY <2>1 DEF ProcType
<1>2. proc' = [proc EXCEPT ![p] = record]
  BY DEF End
<1> HIDE DEF record
<1> QED BY <1>1, <1>2, WorkersOf

LEMMA ExitWorkers ==
  ASSUME ControlTypes, WorkersInv, NEW p \in Procs, Exit(p)
  PROVE  WorkersInv'
BY OverWorkers DEF Exit

LEMMA GotoWorkers ==
  ASSUME ControlTypes, WorkersInv, NEW p \in Procs, NEW at, Goto(p, at),
         At(p) \in {"open", "put", "serve"} => at \in {"open", "put", "serve"}
  PROVE  WorkersInv'
<1> DEFINE record == [proc[p] EXCEPT !.at = at]
<1>0. proc[p] \in ProcType
  BY DEF ControlTypes, ProcRecords
<1>1. record.at = at /\ record.workers = proc[p].workers /\ record.file = proc[p].file
  BY <1>0 DEF ProcType
<1>2. proc' = [proc EXCEPT ![p] = record]
  BY DEF Goto
<1> HIDE DEF record
<1> QED BY <1>1, <1>2, WorkersOf DEF WorkersInv, At, Conf

\* The steps before the workers that write more than the point of the process.
LEMMA EarlyWorkers ==
  ASSUME ControlTypes, WorkersInv, NEW p \in Procs,
         Launch(p) \/ Daemonize(p) \/ ReadPid(p) \/ BindAdmin(p) \/ BindFront(p)
  PROVE  WorkersInv'
<1>1. proc[p] \in ProcType /\ proc[p].workers = 0 /\ At(p) \notin {"open", "put", "serve"}
  BY DEF ControlTypes, ProcRecords, WorkersInv, Launch, Daemonize, ReadPid, BindAdmin, BindFront,
         Bind
<1>2. ASSUME NEW record, proc' = [proc EXCEPT ![p] = record], record.workers = proc[p].workers
      PROVE  WorkersInv'
  BY <1>1, <1>2, WorkersOf
<1>3. CASE Launch(p)
  <2>1. PICK c \in Commands :
          proc' = [proc EXCEPT ![p] = [proc[p] EXCEPT
                     !.at = IF c.daemon THEN "daemonize" ELSE "run",
                     !.op = c.op, !.daemon = c.daemon, !.file = c.file]]
    BY <1>3 DEF Launch, ControlTypes
  <2> DEFINE record == [proc[p] EXCEPT !.at = IF c.daemon THEN "daemonize" ELSE "run",
                                       !.op = c.op, !.daemon = c.daemon, !.file = c.file]
  <2>2. record.workers = proc[p].workers
    BY <1>1 DEF ProcType
  <2> HIDE DEF record
  <2> QED BY <1>2, <2>1, <2>2 DEF record
<1>4. CASE proc' = [proc EXCEPT ![p].at = "run", ![p].cwd = "argv0"]
  <2> DEFINE record == [proc[p] EXCEPT !.at = "run", !.cwd = "argv0"]
  <2>1. record.workers = proc[p].workers
    BY <1>1 DEF ProcType
  <2>2. proc' = [proc EXCEPT ![p] = record]
    BY <1>4 DEF ControlTypes
  <2> HIDE DEF record
  <2> QED BY <1>2, <2>1, <2>2
<1>5. CASE proc' = [proc EXCEPT ![p].at = "probe", ![p].pid = files[Place(p)]]
  <2> DEFINE record == [proc[p] EXCEPT !.at = "probe", !.pid = files[Place(p)]]
  <2>1. record.workers = proc[p].workers
    BY <1>1 DEF ProcType
  <2>2. proc' = [proc EXCEPT ![p] = record]
    BY <1>5 DEF ControlTypes
  <2> HIDE DEF record
  <2> QED BY <1>2, <2>1, <2>2
<1>6. ASSUME NEW to, NEW a, proc' = [proc EXCEPT ![p].at = to, ![p].bound = @ \cup {a}]
      PROVE  WorkersInv'
  <2> DEFINE record == [proc[p] EXCEPT !.at = to, !.bound = @ \cup {a}]
  <2>1. record.workers = proc[p].workers
    BY <1>1 DEF ProcType
  <2>2. proc' = [proc EXCEPT ![p] = record]
    BY <1>6 DEF ControlTypes
  <2> HIDE DEF record
  <2> QED BY <1>2, <2>1, <2>2
<1>7. CASE BindAdmin(p) \/ BindFront(p)
  BY <1>6, <1>7, ExitWorkers DEF BindAdmin, BindFront, Bind
<1>8. CASE Daemonize(p)
  BY <1>1, <1>4, <1>8, ExitWorkers, GotoWorkers DEF Daemonize
<1>9. CASE ReadPid(p)
  BY <1>5, <1>9, ExitWorkers DEF ReadPid
<1> QED BY <1>3, <1>7, <1>8, <1>9

LEMMA ThreadsWorkers ==
  ASSUME ControlTypes, WorkersInv, NEW p \in Procs, Threads(p)
  PROVE  WorkersInv'
<1>1. proc[p] \in ProcType
  BY DEF ControlTypes, ProcRecords
<1>2. PICK n \in 0..Conf(p)["nthreads"] :
        proc' = [proc EXCEPT ![p].workers = n,
                             ![p].at = IF proc[p].daemon THEN "open" ELSE "serve"]
  BY DEF Threads
<1>3. n = 0 \/ Conf(p)["nthreads"] # 0
  BY <1>2
<1> DEFINE record == [proc[p] EXCEPT !.workers = n,
                                     !.at = IF proc[p].daemon THEN "open" ELSE "serve"]
<1>4. record.at \in {"open", "serve"} /\ record.workers = n /\ record.file = proc[p].file
  BY <1>1 DEF ProcType
<1>5. proc' = [proc EXCEPT ![p] = record]
  BY <1>2 DEF ControlTypes
<1> HIDE DEF record
<1> QED BY <1>3, <1>4, <1>5, WorkersOf DEF Conf

LEMMA WorkersStep ==
  ASSUME ControlTypes, WorkersInv, [Next]_vars
  PROVE  WorkersInv'
<1>1. CASE UNCHANGED proc
  BY <1>1 DEF WorkersInv, At, Conf
<1>2. ASSUME NEW p \in Procs, Command(p) PROVE WorkersInv'
  <2>1. CASE Run(p)
    <3>1. Exit(p) \/ Goto(p, "admin") \/ Goto(p, "read")
      <4>1. At(p) = "run" /\ proc[p].op \in {"start", "stop", "restart"}
        BY <2>1 DEF Run, ControlTypes, ProcRecords, ProcType
      <4> QED
        BY <2>1, <4>1 DEF Run
    <3> QED
      BY <2>1, <3>1, ExitWorkers, GotoWorkers DEF Run
  <2>2. CASE Probe(p) \/ Kill(p) \/ Remove(p) \/ Await(p)
    BY <2>2, ExitWorkers, GotoWorkers DEF Probe, Kill, Remove, Await, Rest
  <2>3. CASE OpenPid(p) \/ PutPid(p)
    BY <2>3, ExitWorkers, GotoWorkers DEF OpenPid, PutPid
  <2> QED
    BY <1>2, <2>1, <2>2, <2>3, EarlyWorkers, ThreadsWorkers DEF Command
<1>3. ASSUME NEW p \in Procs, Terminate(p) \/ Mishap(p) PROVE WorkersInv'
  <2>1. Exit(p) \/ Crash(p) \/ UNCHANGED proc
    BY <1>3 DEF Terminate, Mishap, StartFails, Hang, Recycle, Fail
  <2> QED
    BY <1>1, <2>1, ExitWorkers, CrashOver, OverWorkers
<1> QED
  BY <1>1, <1>2, <1>3, EarlyWorkers DEF Next, vars

\* A file whose number of threads was read, and is not 0, has all keys before it.
LEMMA ThreadsReadLate ==
  ASSUME NEW file, Parse(file)["nthreads"] # 0, NEW k \in Keys \ {"generic_file"}
  PROVE  k \in DOMAIN file /\ k \in ReachedKeys(file)
<1>1. "nthreads" \in ReachedKeys(file)
  BY DEF Parse, Keys, Zero
<1>2. Len(Order) = 12
  BY DEF Order
<1>3. PICK i \in 1..12 : Order[i] = "nthreads" /\ \A m \in 1..i : Order[m] \in DOMAIN file
  BY <1>1, <1>2 DEF ReachedKeys
<1>4. i = 11
  BY <1>3 DEF Order
<1>5. \A m \in 1..11 : Order[m] \in DOMAIN file
  BY <1>3, <1>4
<1>6. \A m \in 1..11 : Order[m] \in ReachedKeys(file)
  BY <1>2, <1>5 DEF ReachedKeys
<1>7. \E m \in 1..11 : Order[m] = k
  BY DEF Order, Keys
<1> QED BY <1>5, <1>6, <1>7

-----------------------------------------------------------------------------
(* The pid files, while operators wait for a command to return              *)

Busy(p) == At(p) \notin {"new", "serve", "end"}

OneBusy == \A p, q \in Procs : Busy(p) /\ Busy(q) => p = q

\* kill_process has in hand what the file holds.
ReadInv == \A p \in Procs : At(p) \in Knows => files[Place(p)] = proc[p].pid

\* What has ended after it had served: signalled, or in a crash.
Served(q) == At(q) = "end" /\ (q \in signalled \/ proc[q].crashed = "serve")

\* A pid stands in one file, and belongs to a server that serves or has served.
WrittenInv ==
  /\ \A pl \in Places : \A q \in Procs : files[pl] = q => At(q) = "serve" \/ Served(q)
  /\ \A pl, pm \in Places : files[pl] \in Procs /\ files[pl] = files[pm] => pl = pm

\* The pid of a signalled process stands in no file but the one that the command
\* which has signalled it is about to remove, unless that command has crashed.
SignalInv ==
  \A q \in signalled :
    /\ At(q) \in {"serve", "end"}
    /\ \A pl \in Places : files[pl] = q =>
         LeftInFile(q) \/ \E p \in Procs : At(p) = "remove" /\ Place(p) = pl

KillInv ==
  \A p \in Procs : At(p) = "remove" => proc[p].pid \in signalled \/ At(proc[p].pid) = "end"

HitInv ==
  /\ \A q \in Procs : recycled[q] # "free" => At(q) = "end"
  /\ \A q \in hit : /\ recycled[q] # "free"
                    /\ IF q \in signalled THEN LeftInFile(q) ELSE proc[q].crashed = "serve"

\* A file with both addresses has both ports.
PortsGiven ==
  \A f \in DOMAIN Files :
    (\A a \in Addresses(f) : a[1] # "") => \A a \in Addresses(f) : a[2] # 0

NameInv ==
  \A p \in Procs :
    At(p) = "serve" /\ proc[p].daemon /\ p \notin signalled => files[Place(p)] = p

SerialInv == OneBusy /\ ReadInv /\ WrittenInv /\ SignalInv /\ KillInv /\ HitInv

\* What a step of p does not disturb.
LEMMA PlaceStays ==
  ASSUME NEW q, proc'[q].file = proc[q].file, proc'[q].cwd = proc[q].cwd
  PROVE  Place(q)' = Place(q)
BY DEF Place, Conf

OthersStay(p) == \A q \in Procs \ {p} : proc'[q] = proc[q]

LEMMA ProcExcept ==
  ASSUME ControlTypes, NEW p \in Procs, NEW record, proc' = [proc EXCEPT ![p] = record]
  PROVE  OthersStay(p) /\ proc'[p] = record
BY DEF ControlTypes, OthersStay

LEMMA OthersSame ==
  ASSUME NEW p \in Procs, OthersStay(p), NEW q \in Procs \ {p}
  PROVE  proc'[q] = proc[q] /\ At(q)' = At(q) /\ Place(q)' = Place(q)
BY PlaceStays DEF OthersStay, At

LEMMA GotoOne ==
  ASSUME ControlTypes, NEW p \in Procs, NEW at \in Ats, Goto(p, at)
  PROVE  /\ OthersStay(p) /\ At(p)' = at /\ Place(p)' = Place(p)
         /\ proc'[p].pid = proc[p].pid /\ proc'[p].daemon = proc[p].daemon
<1> DEFINE record == [proc[p] EXCEPT !.at = at]
<1>1. proc[p] \in ProcType
  BY DEF ControlTypes, ProcRecords
<1>2. /\ record.at = at /\ record.pid = proc[p].pid /\ record.daemon = proc[p].daemon
      /\ record.file = proc[p].file /\ record.cwd = proc[p].cwd
  BY <1>1 DEF ProcType
<1>3. proc' = [proc EXCEPT ![p] = record]
  BY DEF Goto
<1> HIDE DEF record
<1> QED
  BY <1>2, <1>3, ProcExcept, PlaceStays DEF At

LEMMA OverOne ==
  ASSUME ControlTypes, NEW p \in Procs, NEW how \in Ats \cup {"no"}, End(p, how)
  PROVE  /\ OthersStay(p) /\ At(p)' = "end"
         /\ proc'[p].pid = proc[p].pid /\ proc'[p].crashed = how
BY OverTypes, ProcExcept DEF End

LEMMA ExitOne ==
  ASSUME ControlTypes, NEW p \in Procs, Exit(p)
  PROVE  OthersStay(p) /\ At(p)' = "end"
BY OverOne DEF Exit

\* What has ended stays as it was left.
LEMMA LeftStays ==
  ASSUME ControlTypes, NEW p \in Procs, OthersStay(p), At(p) # "end", NEW q \in Procs
  PROVE  /\ LeftInFile(q) => LeftInFile(q)'
         /\ At(q) = "end" => At(q)' = "end" /\ proc'[q].crashed = proc[q].crashed
         /\ UNCHANGED signalled => (Served(q) => Served(q)')
<1>1. \A s \in Procs : At(s) = "end" => proc'[s] = proc[s] /\ At(s)' = "end"
  BY DEF OthersStay, At
<1>2. LeftInFile(q) => LeftInFile(q)'
  BY <1>1 DEF LeftInFile
<1> QED
  BY <1>1, <1>2 DEF Served

\* A step that hits nobody.
LEMMA HitStays ==
  ASSUME ControlTypes, SerialInv, NEW p \in Procs, OthersStay(p), At(p) # "end",
         UNCHANGED <<signalled, hit, recycled>>
  PROVE  HitInv'
<1>1. \A q \in Procs : recycled[q] # "free" => At(q) = "end" /\ At(q)' = "end"
  BY LeftStays DEF SerialInv, HitInv
<1>2. ASSUME NEW q \in hit
      PROVE  IF q \in signalled THEN LeftInFile(q)' ELSE proc'[q].crashed = "serve"
  <2>1. q \in Procs /\ recycled[q] # "free"
    BY DEF SerialInv, HitInv, ControlTypes
  <2> QED
    BY <1>1, <2>1, LeftStays DEF SerialInv, HitInv
<1> QED
  BY <1>1, <1>2 DEF SerialInv, HitInv

\* A step that touches nothing but the record of p: it ends, or goes on without
\* signalling, and if it has read a pid, it is the one in its file.
Local(p) ==
  /\ OthersStay(p) /\ OnlyProc
  /\ At(p) \notin {"remove", "end"}
  /\ \/ /\ At(p)' = "end"
        /\ At(p) = "serve" => p \in signalled \/ proc'[p].crashed = "serve"
     \/ /\ At(p) # "serve"
        /\ At(p) = "new" => \A q \in Procs \ {p} : ~Busy(q)
        /\ At(p)' \notin {"new", "remove", "end"}
        /\ At(p)' \in Knows => files[Place(p)'] = proc'[p].pid
        /\ At(p)' = "serve" => ~proc'[p].daemon

LEMMA LocalKeeps ==
  ASSUME ControlTypes, SerialInv, NEW p \in Procs, Local(p)
  PROVE  SerialInv' /\ (NameInv => NameInv')
<1>1. \A q \in Procs \ {p} : proc'[q] = proc[q] /\ At(q)' = At(q) /\ Place(q)' = Place(q)
  BY OthersSame DEF Local
<1>2. UNCHANGED <<files, signalled, hit, recycled>>
  BY DEF Local, OnlyProc
<1>3. OneBusy'
  BY <1>1 DEF SerialInv, OneBusy, Busy, Local
<1>4. ReadInv'
  BY <1>1, <1>2 DEF SerialInv, ReadInv, Local, Knows
<1>0. At(p) # "end" /\ OthersStay(p)
  BY DEF Local
<1>5. WrittenInv'
  <2>1. ASSUME NEW pl \in Places, NEW q \in Procs, files[pl] = q
        PROVE  At(q)' = "serve" \/ Served(q)'
    <3>1. CASE q = p
      <4>1. At(p) = "serve" /\ At(p)' = "end" /\ (p \in signalled \/ proc'[p].crashed = "serve")
        BY <2>1, <3>1 DEF SerialInv, WrittenInv, Served, Local
      <4> QED
        BY <1>2, <3>1, <4>1 DEF Served
    <3>2. CASE q # p
      BY <1>0, <1>1, <1>2, <2>1, <3>2, LeftStays DEF SerialInv, WrittenInv
    <3> QED
      BY <3>1, <3>2
  <2> QED
    BY <1>2, <2>1 DEF SerialInv, WrittenInv
<1>6. SignalInv'
  <2> SUFFICES ASSUME NEW q \in signalled
      PROVE  /\ At(q)' \in {"serve", "end"}
             /\ \A pl \in Places : files[pl] = q =>
                  LeftInFile(q)' \/ \E p0 \in Procs : At(p0)' = "remove" /\ Place(p0)' = pl
    BY <1>2 DEF SignalInv
  <2>1. q \in Procs /\ At(q) \in {"serve", "end"}
    BY DEF SerialInv, SignalInv, ControlTypes
  <2>2. At(q)' \in {"serve", "end"}
    BY <1>1, <2>1 DEF Local
  <2>3. ASSUME NEW pl \in Places, files[pl] = q
        PROVE  LeftInFile(q)' \/ \E p0 \in Procs : At(p0)' = "remove" /\ Place(p0)' = pl
    <3>1. CASE LeftInFile(q)
      BY <1>0, <2>1, <3>1, LeftStays
    <3>2. ASSUME NEW p0 \in Procs, At(p0) = "remove", Place(p0) = pl
          PROVE  At(p0)' = "remove" /\ Place(p0)' = pl
      BY <1>1, <3>2 DEF Local
    <3> QED
      BY <2>3, <3>1, <3>2 DEF SerialInv, SignalInv
  <2> QED
    BY <2>2, <2>3
<1>7. KillInv'
  <2>1. \A q \in Procs : At(q) = "remove" => proc[q].pid \in Procs
    BY AliveRecord DEF Knows, Alive
  <2> QED
    BY <1>1, <1>2, <2>1 DEF SerialInv, KillInv, Local
<1>8. HitInv'
  BY <1>0, <1>2, HitStays
<1>9. NameInv => NameInv'
  BY <1>1, <1>2 DEF NameInv, Local
<1> QED
  BY <1>3, <1>4, <1>5, <1>6, <1>7, <1>8, <1>9 DEF SerialInv

\* The steps that only change the record of a process.
LEMMA ExitLocal ==
  ASSUME ControlTypes, NEW p \in Procs, Exit(p), OnlyProc, At(p) \notin {"remove", "end"},
         At(p) = "serve" => p \in signalled
  PROVE  Local(p)
BY ExitOne DEF Local

LEMMA GotoLocal ==
  ASSUME ControlTypes, NEW p \in Procs, OnlyProc, Busy(p), At(p) # "remove",
         NEW at \in Ats \ (Knows \cup {"new", "end", "serve"}), Goto(p, at)
  PROVE  Local(p)
BY GotoOne DEF Local, Knows, Busy

LEMMA LaunchLocal ==
  ASSUME ControlTypes, serial = TRUE, NEW p \in Procs, Launch(p)
  PROVE  Local(p)
<1>1. PICK c \in Commands :
        proc' = [proc EXCEPT ![p] = [@ EXCEPT !.at = IF c.daemon THEN "daemonize" ELSE "run",
                                              !.op = c.op, !.daemon = c.daemon, !.file = c.file]]
  BY DEF Launch
<1> DEFINE record == [proc[p] EXCEPT !.at = IF c.daemon THEN "daemonize" ELSE "run",
                                     !.op = c.op, !.daemon = c.daemon, !.file = c.file]
<1>2. proc[p] \in ProcType
  BY DEF ControlTypes, ProcRecords
<1>3. record.at \in {"daemonize", "run"}
  BY <1>2 DEF ProcType
<1>4. proc' = [proc EXCEPT ![p] = record]
  BY <1>1 DEF ControlTypes
<1> HIDE DEF record
<1>5. OthersStay(p) /\ At(p)' \in {"daemonize", "run"}
  BY <1>3, <1>4, ProcExcept DEF At
<1>6. At(p) = "new" /\ \A q \in Procs \ {p} : ~Busy(q)
  BY DEF Launch, Quiet, Busy
<1> QED
  BY <1>5, <1>6 DEF Launch, Local, Knows

LEMMA DaemonizeLocal ==
  ASSUME ControlTypes, NEW p \in Procs, Daemonize(p)
  PROVE  Local(p)
<1>1. At(p) = "daemonize" /\ OnlyProc /\ proc[p] \in ProcType
  BY DEF Daemonize, ControlTypes, ProcRecords
<1>2. CASE proc' = [proc EXCEPT ![p].at = "run", ![p].cwd = "argv0"]
  <2> DEFINE record == [proc[p] EXCEPT !.at = "run", !.cwd = "argv0"]
  <2>1. record.at = "run"
    BY <1>1 DEF ProcType
  <2>2. proc' = [proc EXCEPT ![p] = record]
    BY <1>2 DEF ControlTypes
  <2> HIDE DEF record
  <2>3. OthersStay(p) /\ At(p)' = "run"
    BY <2>1, <2>2, ProcExcept DEF At
  <2> QED
    BY <1>1, <2>3 DEF Local, Knows
<1>3. CASE Exit(p)
  BY <1>1, <1>3, ExitLocal
<1>4. CASE Goto(p, "run")
  BY <1>1, <1>4, GotoLocal DEF Busy, Ats, Knows
<1> QED
  BY <1>2, <1>3, <1>4 DEF Daemonize

LEMMA ReadPidLocal ==
  ASSUME ControlTypes, NEW p \in Procs, ReadPid(p)
  PROVE  Local(p)
<1>1. At(p) = "read" /\ OnlyProc /\ proc[p] \in ProcType
  BY DEF ReadPid, ControlTypes, ProcRecords
<1>2. CASE proc' = [proc EXCEPT ![p].at = "probe", ![p].pid = files[Place(p)]]
  <2> DEFINE record == [proc[p] EXCEPT !.at = "probe", !.pid = files[Place(p)]]
  <2>1. /\ record.at = "probe" /\ record.pid = files[Place(p)]
        /\ record.file = proc[p].file /\ record.cwd = proc[p].cwd
    BY <1>1 DEF ProcType
  <2>2. proc' = [proc EXCEPT ![p] = record]
    BY <1>2 DEF ControlTypes
  <2> HIDE DEF record
  <2>3. /\ OthersStay(p) /\ At(p)' = "probe" /\ proc'[p].pid = files[Place(p)]
        /\ Place(p)' = Place(p)
    BY <2>1, <2>2, ProcExcept, PlaceStays DEF At
  <2> QED
    BY <1>1, <2>3 DEF Local, Knows
<1>3. CASE Exit(p)
  BY <1>1, <1>3, ExitLocal
<1> QED
  BY <1>2, <1>3 DEF ReadPid

LEMMA BindLocal ==
  ASSUME ControlTypes, NEW p \in Procs, BindAdmin(p) \/ BindFront(p)
  PROVE  Local(p)
<1>1. At(p) \in {"admin", "front"} /\ OnlyProc /\ proc[p] \in ProcType
  BY DEF BindAdmin, BindFront, Bind, ControlTypes, ProcRecords
<1>2. ASSUME NEW to \in {"front", "threads"}, NEW a,
             proc' = [proc EXCEPT ![p].at = to, ![p].bound = @ \cup {a}]
      PROVE  Local(p)
  <2> DEFINE record == [proc[p] EXCEPT !.at = to, !.bound = @ \cup {a}]
  <2>1. record.at = to
    BY <1>1 DEF ProcType
  <2>2. proc' = [proc EXCEPT ![p] = record]
    BY <1>2 DEF ControlTypes
  <2> HIDE DEF record
  <2>3. OthersStay(p) /\ At(p)' = to
    BY <2>1, <2>2, ProcExcept DEF At
  <2> QED
    BY <1>1, <2>3 DEF Local, Knows
<1> QED
  BY <1>1, <1>2, ExitLocal DEF BindAdmin, BindFront, Bind

LEMMA ThreadsLocal ==
  ASSUME ControlTypes, NEW p \in Procs, Threads(p)
  PROVE  Local(p)
<1>1. At(p) = "threads" /\ OnlyProc /\ proc[p] \in ProcType
  BY DEF Threads, ControlTypes, ProcRecords
<1>2. PICK n \in 0..Conf(p)["nthreads"] :
        proc' = [proc EXCEPT ![p].workers = n,
                             ![p].at = IF proc[p].daemon THEN "open" ELSE "serve"]
  BY DEF Threads
<1> DEFINE record == [proc[p] EXCEPT !.workers = n,
                                     !.at = IF proc[p].daemon THEN "open" ELSE "serve"]
<1>3. record.at = IF proc[p].daemon THEN "open" ELSE "serve"
  BY <1>1 DEF ProcType
<1>4. record.daemon = proc[p].daemon
  BY <1>1 DEF ProcType
<1>5. proc' = [proc EXCEPT ![p] = record]
  BY <1>2 DEF ControlTypes
<1> HIDE DEF record
<1>6. /\ OthersStay(p) /\ proc'[p].daemon = proc[p].daemon
      /\ At(p)' = IF proc[p].daemon THEN "open" ELSE "serve"
  BY <1>3, <1>4, <1>5, ProcExcept DEF At
<1> QED
  BY <1>1, <1>6 DEF Local, Knows

\* The steps of kill_process with a pid in hand.  No other process is busy, so
\* that the file still holds this pid.
LEMMA KnowsPid ==
  ASSUME ControlTypes, SerialInv, NEW p \in Procs, At(p) \in Knows
  PROVE  LET q == proc[p].pid IN
         /\ q \in Procs /\ q # p /\ files[Place(p)] = q /\ Place(p) \in Places
         /\ At(q) \in {"serve", "end"}
         /\ \A pl \in Places : files[pl] = q => pl = Place(p)
         /\ \A s \in Procs \ {p} : At(s) \in {"new", "serve", "end"}
<1>1. Alive(p) /\ Busy(p)
  BY DEF Alive, Busy, Knows
<1>2. proc[p].pid \in Procs /\ Place(p) \in Places
  BY <1>1, AliveRecord, PlaceType
<1>3. files[Place(p)] = proc[p].pid
  BY DEF SerialInv, ReadInv
<1>4. At(proc[p].pid) \in {"serve", "end"}
  BY <1>2, <1>3 DEF SerialInv, WrittenInv, Served
<1>5. \A pl \in Places : files[pl] = proc[p].pid => pl = Place(p)
  BY <1>2, <1>3 DEF SerialInv, WrittenInv
<1>6. \A s \in Procs \ {p} : At(s) \in {"new", "serve", "end"}
  BY <1>1 DEF SerialInv, OneBusy, Busy
<1> QED
  BY <1>1, <1>2, <1>3, <1>4, <1>5, <1>6 DEF Busy

\* Unless p is at its removal, a signalled process stands in a file only if the
\* command that has signalled it crashed.
LEMMA NoSignalled ==
  ASSUME ControlTypes, SerialInv, NEW p \in Procs, Busy(p), At(p) # "remove"
  PROVE  \A q \in signalled, pl \in Places : files[pl] = q => LeftInFile(q)
BY DEF SerialInv, SignalInv, OneBusy, Busy

\* A step that signals nobody and writes no pid.
LEMMA FilesLess ==
  ASSUME ControlTypes, SerialInv, NEW p \in Procs, OthersStay(p), At(p) \notin {"serve", "end"},
         UNCHANGED signalled,
         \A pl \in Places : files'[pl] = files[pl] \/ files'[pl] \notin Procs
  PROVE  WrittenInv'
<1>1. ASSUME NEW pl \in Places, NEW q \in Procs, files'[pl] = q
      PROVE  At(q)' = "serve" \/ Served(q)'
  <2>1. At(q) = "serve" \/ Served(q)
    BY <1>1 DEF SerialInv, WrittenInv
  <2>2. At(q) = "serve" => At(q)' = "serve"
    BY OthersSame
  <2> QED
    BY <2>1, <2>2, LeftStays
<1> QED
  BY <1>1 DEF SerialInv, WrittenInv

LEMMA ProbeKeeps ==
  ASSUME ControlTypes, SerialInv, NEW p \in Procs, Probe(p)
  PROVE  SerialInv' /\ (NameInv => NameInv')
<1> DEFINE pid == proc[p].pid
<1>1. At(p) = "probe" /\ Busy(p) /\ UNCHANGED <<signalled, hit, recycled>>
  BY DEF Probe, Busy
<1>2. /\ pid \in Procs /\ pid # p /\ files[Place(p)] = pid /\ Place(p) \in Places
      /\ \A pl \in Places : files[pl] = pid => pl = Place(p)
      /\ \A s \in Procs \ {p} : At(s) \in {"new", "serve", "end"}
  BY <1>1, KnowsPid DEF Knows
<1>3. \A q \in signalled, pl \in Places : files[pl] = q => LeftInFile(q)
  BY <1>1, NoSignalled
<1>4. ASSUME NoSuchProcess(pid), RemoveFile(p), Rest(p)
      PROVE  SerialInv' /\ (NameInv => NameInv')
  <2>1. OthersStay(p) /\ At(p)' \in {"admin", "end"}
    BY <1>4, ExitOne, GotoOne DEF Rest, Ats
  <2>2. \A q \in Procs \ {p} : proc'[q] = proc[q] /\ At(q)' = At(q) /\ Place(q)' = Place(q)
    BY <2>1, OthersSame
  <2>3. \A pl \in Places : files'[pl] = IF pl = Place(p) THEN Absent ELSE files[pl]
    BY <1>4 DEF RemoveFile, ControlTypes, FilesType
  <2>4. OneBusy'
    BY <1>2, <2>2 DEF OneBusy, Busy
  <2>5. ReadInv' /\ KillInv'
    BY <1>2, <2>1, <2>2 DEF ReadInv, KillInv, Knows
  <2>6. WrittenInv'
    BY <1>1, <2>1, <2>3, NoProcess, FilesLess
  <2>7. SignalInv'
    <3>1. \A q \in signalled, pl \in Places : files'[pl] = q => LeftInFile(q)'
      BY <1>1, <1>3, <2>1, <2>3, NoProcess, LeftStays DEF ControlTypes
    <3>2. \A q \in signalled : At(q)' \in {"serve", "end"}
      BY <1>1, <2>2 DEF SerialInv, SignalInv, ControlTypes
    <3> QED
      BY <1>1, <3>1, <3>2 DEF SignalInv
  <2>8. HitInv'
    BY <1>1, <2>1, HitStays
  <2>9. NameInv => NameInv'
    <3>1. \A q \in Procs \ {p} : At(q) = "serve" => Place(q) \in Places /\ Alive(q)
      BY PlaceType DEF Alive
    <3>2. At(pid) # "serve"
      BY <1>4 DEF NoSuchProcess, Alive
    <3> QED
      BY <1>1, <1>2, <2>1, <2>2, <2>3, <3>1, <3>2 DEF NameInv
  <2> QED
    BY <2>4, <2>5, <2>6, <2>7, <2>8, <2>9 DEF SerialInv
<1>5. ASSUME Goto(p, "kill"), UNCHANGED files
      PROVE  SerialInv' /\ (NameInv => NameInv')
  <2>1. /\ OthersStay(p) /\ At(p)' = "kill" /\ Place(p)' = Place(p) /\ proc'[p].pid = pid
    BY <1>5, GotoOne DEF Ats
  <2>2. OnlyProc
    BY <1>5 DEF OnlyProc, Probe
  <2>3. Local(p)
    BY <1>1, <1>2, <2>1, <2>2 DEF Local
  <2> QED
    BY <2>3, LocalKeeps
<1> QED
  BY <1>4, <1>5 DEF Probe

LEMMA KillKeeps ==
  ASSUME ControlTypes, SerialInv, NEW p \in Procs, Kill(p)
  PROVE  SerialInv' /\ (NameInv => NameInv')
<1> DEFINE pid == proc[p].pid
<1>1. At(p) = "kill" /\ Busy(p) /\ UNCHANGED <<files, recycled>>
  BY DEF Kill, Busy
<1>2. /\ pid \in Procs /\ pid # p /\ files[Place(p)] = pid /\ Place(p) \in Places
      /\ At(pid) \in {"serve", "end"}
      /\ \A pl \in Places : files[pl] = pid => pl = Place(p)
      /\ \A s \in Procs \ {p} : At(s) \in {"new", "serve", "end"}
  BY <1>1, KnowsPid DEF Knows
<1>3. pid \in signalled => LeftInFile(pid)
  BY <1>1, <1>2, NoSignalled
<1>4. ASSUME Goto(p, "remove"), Alive(pid) \/ recycled[pid] = "same user",
             signalled' = IF Alive(pid) THEN signalled \cup {pid} ELSE signalled,
             hit' = IF Alive(pid) THEN hit ELSE hit \cup {pid}
      PROVE  SerialInv' /\ (NameInv => NameInv')
  <2>1. /\ OthersStay(p) /\ At(p)' = "remove" /\ Place(p)' = Place(p) /\ proc'[p].pid = pid
    BY <1>4, GotoOne DEF Ats
  <2>2. \A q \in Procs \ {p} : proc'[q] = proc[q] /\ At(q)' = At(q) /\ Place(q)' = Place(q)
    BY <2>1, OthersSame
  <2>3. Alive(pid) <=> At(pid) = "serve"
    BY <1>2 DEF Alive
  <2>4. OneBusy'
    BY <1>2, <2>2 DEF OneBusy, Busy
  <2>5. ReadInv'
    BY <1>1, <1>2, <2>1, <2>2 DEF ReadInv, Knows
  <2>6. KillInv'
    BY <1>2, <1>4, <2>1, <2>2, <2>3 DEF KillInv
  <2>0. \A q \in Procs : /\ LeftInFile(q) => LeftInFile(q)'
                         /\ At(q) = "end" => At(q)' = "end" /\ proc'[q].crashed = proc[q].crashed
    BY <1>1, <2>1, LeftStays
  <2>7. WrittenInv'
    <3>1. ASSUME NEW pl \in Places, NEW q \in Procs, files[pl] = q
          PROVE  At(q)' = "serve" \/ Served(q)'
      BY <1>1, <1>4, <2>0, <2>2, <3>1 DEF SerialInv, WrittenInv, Served
    <3> QED
      BY <1>1, <3>1 DEF SerialInv, WrittenInv
  <2>8. SignalInv'
    <3>1. ASSUME NEW q \in signalled'
          PROVE  /\ At(q)' \in {"serve", "end"}
                 /\ \A pl \in Places : files[pl] = q =>
                      LeftInFile(q)' \/ (At(p)' = "remove" /\ Place(p)' = pl)
      <4>1. CASE q = pid
        BY <1>2, <2>1, <2>2, <4>1
      <4>2. CASE q \in signalled
        <5>1. q \in Procs \ {p} /\ At(q) \in {"serve", "end"}
          BY <1>1, <4>2 DEF ControlTypes, SerialInv, SignalInv
        <5> QED
          BY <1>1, <2>0, <2>2, <4>2, <5>1, NoSignalled
      <4> QED
        BY <1>4, <3>1, <4>1, <4>2
    <3> QED
      BY <1>1, <3>1 DEF SignalInv
  <2>9. HitInv'
    <3>1. \A q \in Procs : recycled'[q] # "free" => At(q)' = "end"
      BY <1>1, <2>0 DEF SerialInv, HitInv
    <3>2. ASSUME NEW q \in hit'
          PROVE  /\ recycled[q] # "free"
                 /\ IF q \in signalled' THEN LeftInFile(q)' ELSE proc'[q].crashed = "serve"
      <4>1. CASE q \in hit
        <5>1. /\ q \in Procs /\ recycled[q] # "free" /\ At(q) = "end"
              /\ IF q \in signalled THEN LeftInFile(q) ELSE proc[q].crashed = "serve"
          BY <4>1 DEF SerialInv, HitInv, ControlTypes
        <5>2. q \in signalled' <=> q \in signalled
          BY <1>4, <2>3, <5>1
        <5> QED
          BY <2>0, <5>1, <5>2
      <4>2. CASE q \notin hit
        <5>1. q = pid /\ ~Alive(pid) /\ recycled[pid] = "same user" /\ signalled' = signalled
          BY <1>4, <3>2, <4>2
        <5>2. Served(pid)
          BY <1>2, <2>3, <5>1 DEF SerialInv, WrittenInv
        <5> QED
          BY <1>2, <1>3, <2>0, <5>1, <5>2 DEF Served
      <4> QED
        BY <4>1, <4>2
    <3> QED
      BY <1>1, <3>1, <3>2 DEF HitInv
  <2>10. NameInv => NameInv'
    BY <1>1, <1>4, <2>1, <2>2 DEF NameInv
  <2> QED
    BY <2>4, <2>5, <2>6, <2>7, <2>8, <2>9, <2>10 DEF SerialInv
<1>5. ASSUME Exit(p), UNCHANGED <<signalled, hit>>
      PROVE  SerialInv' /\ (NameInv => NameInv')
  BY <1>1, <1>5, ExitLocal, LocalKeeps DEF Kill, OnlyProc
<1> QED
  BY <1>4, <1>5 DEF Kill

LEMMA RemoveKeeps ==
  ASSUME ControlTypes, SerialInv, NEW p \in Procs, Remove(p)
  PROVE  SerialInv' /\ (NameInv => NameInv')
<1> DEFINE pid == proc[p].pid
<1>1. At(p) = "remove" /\ Busy(p) /\ UNCHANGED <<signalled, hit, recycled>>
  BY DEF Remove, Busy
<1>2. /\ pid \in Procs /\ pid # p /\ files[Place(p)] = pid /\ Place(p) \in Places
      /\ \A s \in Procs \ {p} : At(s) \in {"new", "serve", "end"}
  BY <1>1, KnowsPid DEF Knows
<1>3. OthersStay(p) /\ At(p)' = "await"
  BY GotoOne DEF Remove, Ats
<1>4. \A q \in Procs \ {p} : proc'[q] = proc[q] /\ At(q)' = At(q) /\ Place(q)' = Place(q)
  BY <1>3, OthersSame
<1>5. \A pl \in Places : files'[pl] = IF pl = Place(p) THEN Absent ELSE files[pl]
  BY DEF Remove, RemoveFile, ControlTypes, FilesType
<1>6. OneBusy'
  BY <1>2, <1>4 DEF OneBusy, Busy
<1>7. ReadInv' /\ KillInv'
  BY <1>2, <1>3, <1>4 DEF ReadInv, KillInv, Knows
<1>8. WrittenInv'
  BY <1>1, <1>3, <1>5, NoProcess, FilesLess
<1>9. SignalInv'
  <2>1. ASSUME NEW q \in signalled, NEW pl \in Places, files'[pl] = q PROVE LeftInFile(q)'
    <3>1. q \in Procs /\ pl # Place(p) /\ files[pl] = q
      BY <1>5, <2>1, NoProcess DEF ControlTypes
    <3>2. LeftInFile(q) \/ \E p0 \in Procs : At(p0) = "remove" /\ Place(p0) = pl
      BY <3>1 DEF SerialInv, SignalInv
    <3>3. LeftInFile(q)
      BY <1>2, <3>1, <3>2
    <3> QED
      BY <1>1, <1>3, <3>1, <3>3, LeftStays
  <2>2. \A q \in signalled : At(q)' \in {"serve", "end"}
    BY <1>1, <1>4 DEF SerialInv, SignalInv, ControlTypes
  <2> QED
    BY <1>1, <2>1, <2>2 DEF SignalInv
<1>10. HitInv'
  BY <1>1, <1>3, HitStays
<1>11. NameInv => NameInv'
  <2>1. \A q \in Procs \ {p} : At(q) = "serve" => Place(q) \in Places
    BY PlaceType DEF Alive
  <2>2. At(pid) # "serve" \/ pid \in signalled
    BY <1>1 DEF SerialInv, KillInv
  <2> QED
    BY <1>1, <1>2, <1>3, <1>4, <1>5, <2>1, <2>2 DEF NameInv
<1> QED
  BY <1>6, <1>7, <1>8, <1>9, <1>10, <1>11 DEF SerialInv

\* A server that is about to write its pid shares no place with one that serves:
\* they would have an address in common.
LEMMA NotShared ==
  ASSUME ControlTypes, Listening, FilesApart, PortsGiven, NEW p \in Procs, NEW q \in Procs \ {p},
         At(p) \in {"open", "put"}, At(q) = "serve"
  PROVE  Place(q) # Place(p)
<1> SUFFICES ASSUME Place(q) = Place(p) PROVE FALSE
  OBVIOUS
<1>1. proc[p].file \in DOMAIN Files /\ proc[q].file \in DOMAIN Files
  BY AliveRecord DEF Alive
<1>2. Parsed[proc[p].file]["pidfile"] = Parsed[proc[q].file]["pidfile"]
  BY DEF Place, Conf
<1>3. PICK a : a \in Addresses(proc[p].file) /\ a \in Addresses(proc[q].file)
  BY <1>1, <1>2 DEF FilesApart
<1>4. /\ proc[p].bound = Addresses(proc[p].file) /\ proc[q].bound = Addresses(proc[q].file)
      /\ \A b \in Addresses(proc[p].file) : b[1] # ""
  BY DEF Listening, Bound
<1>5. a[2] # 0
  BY <1>1, <1>3, <1>4 DEF PortsGiven
<1>6. a[2] = 0
  BY <1>3, <1>4 DEF Listening, Apart
<1> QED
  BY <1>5, <1>6

\* write_pid, which puts nothing or p into the file.
LEMMA WriteKeeps ==
  ASSUME ControlTypes, SerialInv, NEW p \in Procs, OpenPid(p) \/ PutPid(p), ~Exit(p)
  PROVE  SerialInv' /\ (NameInv /\ Listening /\ FilesApart /\ PortsGiven => NameInv')
<1>1. At(p) \in {"open", "put"} /\ Busy(p) /\ UNCHANGED <<signalled, hit, recycled>>
  BY DEF OpenPid, PutPid, Busy
<1>2. \/ Goto(p, "put") /\ files' = [files EXCEPT ![Place(p)] = Empty]
      \/ Goto(p, "serve") /\ files' = [files EXCEPT ![Place(p)] = p]
  BY DEF OpenPid, PutPid
<1>3. /\ OthersStay(p) /\ Place(p)' = Place(p)
      /\ \/ At(p)' = "put" /\ files' = [files EXCEPT ![Place(p)] = Empty]
         \/ At(p)' = "serve" /\ files' = [files EXCEPT ![Place(p)] = p]
  BY <1>2, GotoOne DEF Ats
<1>4. PICK x \in {Empty, p} :
        /\ \A pl \in Places : files'[pl] = IF pl = Place(p) THEN x ELSE files[pl]
        /\ x = p <=> At(p)' = "serve"
        /\ At(p)' \in {"put", "serve"}
  BY <1>3, NoProcess DEF ControlTypes, FilesType
<1>5. \A q \in Procs \ {p} : proc'[q] = proc[q] /\ At(q)' = At(q) /\ Place(q)' = Place(q)
  BY <1>3, OthersSame
<1>6. \A s \in Procs \ {p} : At(s) \in {"new", "serve", "end"}
  BY <1>1 DEF SerialInv, OneBusy, Busy
<1>7. Place(p) \in Places
  BY <1>1, PlaceType DEF Alive
<1>8. \A pl \in Places : files[pl] # p
  BY <1>1 DEF SerialInv, WrittenInv, Served
<1>9. OneBusy'
  BY <1>5, <1>6 DEF OneBusy, Busy
<1>10. ReadInv' /\ KillInv'
  BY <1>4, <1>5, <1>6 DEF ReadInv, KillInv, Knows
<1>11. WrittenInv'
  <2>1. ASSUME NEW pl \in Places, NEW q \in Procs, files'[pl] = q
        PROVE  At(q)' = "serve" \/ Served(q)'
    <3>1. CASE q = p
      BY <1>4, <1>8, <2>1, <3>1, NoProcess
    <3>2. CASE q # p
      <4>1. files[pl] = q
        BY <1>4, <2>1, <3>2, NoProcess
      <4> QED
        BY <1>1, <1>5, <3>2, <4>1 DEF SerialInv, WrittenInv, Served
    <3> QED
      BY <3>1, <3>2
  <2>2. ASSUME NEW pl \in Places, NEW pm \in Places, files'[pl] \in Procs, files'[pl] = files'[pm]
        PROVE  pl = pm
    BY <1>4, <1>8, <2>2, NoProcess DEF SerialInv, WrittenInv
  <2> QED
    BY <2>1, <2>2 DEF WrittenInv
<1>12. SignalInv'
  <2>1. p \notin signalled
    BY <1>1 DEF SerialInv, SignalInv
  <2>2. ASSUME NEW q \in signalled, NEW pl \in Places, files'[pl] = q PROVE LeftInFile(q)'
    <3>1. q \in Procs /\ files[pl] = q
      BY <1>4, <2>1, <2>2, NoProcess DEF ControlTypes
    <3>2. LeftInFile(q)
      BY <1>1, <3>1, NoSignalled
    <3> QED
      BY <1>1, <1>3, <3>1, <3>2, LeftStays
  <2>3. \A q \in signalled : At(q)' \in {"serve", "end"}
    BY <1>5, <2>1 DEF SerialInv, SignalInv, ControlTypes
  <2> QED
    BY <1>1, <2>2, <2>3 DEF SignalInv
<1>13. HitInv'
  BY <1>1, <1>3, HitStays
<1>14. ASSUME NameInv, Listening, FilesApart, PortsGiven PROVE NameInv'
  <2>1. \A q \in Procs \ {p} : At(q) = "serve" => Place(q) # Place(p) /\ Place(q) \in Places
    BY <1>1, <1>14, NotShared, PlaceType DEF Alive
  <2> QED
    BY <1>1, <1>3, <1>4, <1>5, <1>7, <1>14, <2>1 DEF NameInv
<1> QED
  BY <1>9, <1>10, <1>11, <1>12, <1>13, <1>14 DEF SerialInv

LEMMA SerialInit == ASSUME Init PROVE Listening /\ SerialInv /\ NameInv
<1>1. /\ \A p \in Procs : At(p) = "new" /\ proc[p].bound = {}
      /\ \A pl \in Places : files[pl] = Absent
      /\ signalled = {} /\ hit = {} /\ \A p \in Procs : recycled[p] = "free"
  BY DEF Init, Fresh, At
<1>2. Listening
  BY <1>1 DEF Listening, Bound, Apart
<1>3. SerialInv
  BY <1>1, NoProcess DEF SerialInv, OneBusy, Busy, ReadInv, Knows, WrittenInv, SignalInv, KillInv,
     HitInv
<1> QED
  BY <1>1, <1>2, <1>3 DEF NameInv

\* Steps that change no process and no file.
LEMMA SameKeeps ==
  ASSUME ControlTypes, SerialInv, UNCHANGED <<proc, files, signalled>>, HitInv'
  PROVE  SerialInv' /\ (NameInv => NameInv')
<1>1. /\ \A p : proc'[p] = proc[p] /\ At(p)' = At(p) /\ Place(p)' = Place(p)
      /\ \A q : (Served(q)' <=> Served(q)) /\ (LeftInFile(q)' <=> LeftInFile(q))
  BY PlaceStays DEF At, Served, LeftInFile
<1>2. OneBusy' /\ ReadInv' /\ KillInv'
  BY <1>1 DEF SerialInv, OneBusy, Busy, ReadInv, KillInv
<1>3. WrittenInv'
  BY <1>1 DEF SerialInv, WrittenInv
<1>4. SignalInv'
  BY <1>1 DEF SerialInv, SignalInv
<1>5. NameInv => NameInv'
  BY <1>1 DEF NameInv
<1> QED
  BY <1>2, <1>3, <1>4, <1>5 DEF SerialInv

\* A crash: the one of a command at its removal leaves a signalled pid in the file.
LEMMA CrashKeeps ==
  ASSUME ControlTypes, SerialInv, NEW p \in Procs, Crash(p)
  PROVE  SerialInv' /\ (NameInv => NameInv')
<1>1. /\ OnlyProc /\ Alive(p) /\ OthersStay(p) /\ At(p)' = "end"
      /\ proc'[p].pid = proc[p].pid /\ proc'[p].crashed = At(p)
  BY CrashOver, OverOne
<1>2. CASE At(p) # "remove"
  <2>1. Local(p)
    BY <1>1, <1>2 DEF Local, Alive
  <2> QED
    BY <2>1, LocalKeeps
<1>3. CASE At(p) = "remove"
  <2>1. UNCHANGED <<files, signalled, hit, recycled>> /\ Busy(p)
    BY <1>1, <1>3 DEF OnlyProc, Busy
  <2>2. \A q \in Procs \ {p} : proc'[q] = proc[q] /\ At(q)' = At(q) /\ Place(q)' = Place(q)
    BY <1>1, OthersSame
  <2>3. /\ files[Place(p)] = proc[p].pid
        /\ \A s \in Procs \ {p} : At(s) \in {"new", "serve", "end"}
    BY <1>3, KnowsPid DEF Knows
  <2>4. OneBusy' /\ ReadInv' /\ KillInv'
    BY <1>1, <2>2, <2>3 DEF OneBusy, Busy, ReadInv, KillInv, Knows
  <2>5. WrittenInv'
    BY <1>1, <1>3, <2>1, FilesLess
  <2>6. SignalInv'
    <3>1. ASSUME NEW q \in signalled PROVE At(q)' \in {"serve", "end"}
      BY <1>1, <2>2 DEF SerialInv, SignalInv, ControlTypes
    <3>2. ASSUME NEW q \in signalled, NEW pl \in Places, files[pl] = q PROVE LeftInFile(q)'
      <4>1. q \in Procs
        BY DEF ControlTypes
      <4>2. CASE LeftInFile(q)
        BY <1>1, <1>3, <4>1, <4>2, LeftStays
      <4>3. ASSUME NEW p0 \in Procs, At(p0) = "remove", Place(p0) = pl PROVE LeftInFile(q)'
        BY <1>1, <1>3, <2>3, <3>2, <4>3 DEF LeftInFile
      <4> QED
        BY <3>2, <4>2, <4>3 DEF SerialInv, SignalInv
    <3> QED
      BY <2>1, <3>1, <3>2 DEF SignalInv
  <2>7. HitInv'
    BY <1>1, <1>3, <2>1, HitStays
  <2>8. NameInv => NameInv'
    BY <1>1, <1>3, <2>1, <2>2 DEF NameInv
  <2> QED
    BY <2>4, <2>5, <2>6, <2>7, <2>8 DEF SerialInv
<1> QED
  BY <1>2, <1>3

LEMMA SerialStep ==
  ASSUME ControlTypes, Listening, serial = TRUE, SerialInv, [Next]_vars
  PROVE  SerialInv' /\ (NameInv /\ FilesApart /\ PortsGiven => NameInv')
<1> DEFINE Goal == SerialInv' /\ (NameInv /\ FilesApart /\ PortsGiven => NameInv')
<1>1. ASSUME UNCHANGED <<proc, files, signalled, hit, recycled>> PROVE Goal
  <2>1. HitInv'
    BY <1>1 DEF SerialInv, HitInv, At, LeftInFile
  <2> QED
    BY <1>1, <2>1, SameKeeps
<1>2. ASSUME NEW p \in Procs, Local(p) PROVE Goal
  BY <1>2, LocalKeeps
<1>3. ASSUME NEW p \in Procs, Command(p) PROVE Goal
  <2>1. ASSUME Run(p) \/ Await(p) PROVE Local(p)
    <3>1. /\ At(p) \in {"run", "await"} /\ OnlyProc
          /\ proc[p].op \in {"start", "stop", "restart"}
      BY <2>1 DEF Run, Await, ControlTypes, ProcRecords, ProcType
    <3>2. Exit(p) \/ Goto(p, "admin") \/ Goto(p, "read")
      BY <2>1, <3>1 DEF Run, Await, Rest
    <3> QED
      BY <3>1, <3>2, ExitLocal, GotoLocal DEF Busy, Ats, Knows
  <2>2. ASSUME OpenPid(p) \/ PutPid(p) PROVE Goal
    <3>1. CASE Exit(p)
      <4>1. OnlyProc /\ At(p) \in {"open", "put"}
        <5>1. At(p)' = "end"
          BY <3>1, ExitTypes
        <5>2. ~Goto(p, "put") /\ ~Goto(p, "serve")
          BY <2>2, <5>1, GotoOne DEF Ats
        <5> QED
          BY <2>2, <5>2 DEF OpenPid, PutPid, OnlyProc
      <4> QED
        BY <1>2, <3>1, <4>1, ExitLocal
    <3>2. CASE ~Exit(p)
      BY <2>2, <3>2, WriteKeeps
    <3> QED
      BY <3>1, <3>2
  <2> QED
    BY <1>2, <1>3, <2>1, <2>2, DaemonizeLocal, ReadPidLocal, BindLocal, ThreadsLocal, ProbeKeeps,
       KillKeeps, RemoveKeeps DEF Command
<1>4. ASSUME NEW p \in Procs, Terminate(p) \/ StartFails(p) PROVE Goal
  <2>1. /\ Fail(p) /\ At(p) \notin {"remove", "end"}
        /\ At(p) = "serve" => p \in signalled
    BY <1>4 DEF Terminate, StartFails, Alive, SerialInv, SignalInv
  <2> QED
    BY <1>2, <2>1, ExitLocal DEF Fail
<1>5. ASSUME NEW p \in Procs, Recycle(p) PROVE Goal
  <2>1. HitInv'
    BY <1>5 DEF Recycle, SerialInv, HitInv, ControlTypes, At, LeftInFile
  <2> QED
    BY <1>5, <2>1, SameKeeps DEF Recycle
<1>6. ASSUME NEW p \in Procs, Launch(p) \/ Hang(p) PROVE Goal
  BY <1>1, <1>2, <1>6, LaunchLocal DEF Hang
<1> QED
  BY <1>1, <1>3, <1>4, <1>5, <1>6, CrashKeeps DEF Next, Mishap, vars

\* What holds always; the part about pid files if operators wait.
PidInv == ControlTypes /\ Listening /\ (serial = TRUE => SerialInv)

LEMMA PidInit == ASSUME Init PROVE PidInv
BY TypesInit, SerialInit DEF PidInv

LEMMA SerialStays == ASSUME [Next]_vars PROVE serial' = serial
<1>1. CASE UNCHANGED vars
  BY <1>1 DEF vars
<1>2. ASSUME NEW p \in Procs, OnlyProc PROVE serial' = serial
  BY <1>2 DEF OnlyProc
<1>3. ASSUME NEW p \in Procs, Command(p) PROVE serial' = serial
  <2>1. CASE Probe(p) \/ Kill(p) \/ Remove(p) \/ OpenPid(p) \/ PutPid(p)
    BY <2>1 DEF Probe, Kill, Remove, OpenPid, PutPid
  <2>2. CASE Daemonize(p) \/ Run(p) \/ ReadPid(p) \/ Await(p)
    BY <1>2, <2>2 DEF Daemonize, Run, ReadPid, Await
  <2>3. CASE BindAdmin(p) \/ BindFront(p) \/ Threads(p)
    BY <1>2, <2>3 DEF BindAdmin, BindFront, Bind, Threads
  <2> QED
    BY <1>3, <2>1, <2>2, <2>3 DEF Command
<1>4. ASSUME NEW p \in Procs, Launch(p) \/ Terminate(p) \/ Mishap(p) PROVE serial' = serial
  <2>1. CASE Hang(p) \/ Recycle(p)
    BY <2>1 DEF Hang, Recycle
  <2>2. CASE Launch(p) \/ Terminate(p) \/ StartFails(p) \/ Crash(p)
    BY <1>2, <2>2 DEF Launch, Terminate, StartFails, Crash, Fail
  <2> QED
    BY <1>4, <2>1, <2>2 DEF Mishap
<1> QED
  BY <1>1, <1>3, <1>4 DEF Next

LEMMA PidStep == ASSUME PidInv, [Next]_vars PROVE PidInv'
BY TypesStep, ListenStep, SerialStep, SerialStays DEF PidInv

\* While operators wait for a command to return, a foreign process is signalled only
\* under a pid that a crash has left in the pid file, for any number of invocations,
\* any files and any faults, crashes of every process at every point included.
THEOREM ForeignKillsNeedCrash == Spec => []ForeignNeedsCrash
<1>1. Init => PidInv
  BY PidInit
<1>2. PidInv /\ [Next]_vars => PidInv'
  BY PidStep
<1>3. PidInv => ForeignNeedsCrash
  BY DEF PidInv, SerialInv, HitInv, ForeignNeedsCrash, ControlTypes
<1> QED
  BY <1>1, <1>2, <1>3, PTL DEF Spec

\* While operators wait for a command to return, a daemon that serves is the one
\* its pid file names, for any number of invocations and any files that have a port
\* with each address.
THEOREM DaemonsAreNamed == ASSUME PortsGiven PROVE Spec => []NamedByFile
<1> DEFINE Named == PidInv /\ (serial = TRUE /\ FilesApart => NameInv)
<1>1. Init => Named
  BY PidInit, SerialInit
<1>2. Named /\ [Next]_vars => Named'
  <2> SUFFICES ASSUME Named, [Next]_vars PROVE Named'
    OBVIOUS
  <2>1. PidInv' /\ serial' = serial
    BY PidStep, SerialStays
  <2>2. ASSUME serial = TRUE, FilesApart PROVE NameInv'
    BY <2>2, SerialStep DEF PidInv
  <2> QED
    BY <2>1, <2>2
<1>3. Named => NamedByFile
  BY DEF PidInv, NameInv, NamedByFile, ControlTypes
<1> QED
  BY <1>1, <1>2, <1>3, PTL DEF Spec

\* With any files, faults and number of invocations: a process with workers
\* listens on the two addresses of its file and has stored every value that the file
\* gives before the number of threads, although parserinfo may stop anywhere: the
\* list admin_allow_ip, which nothing reads afterwards, as the fields of its text.
THEOREM WorkersAreConfigured == Spec => []AnswersAsConfigured
<1> DEFINE Inv == ControlTypes /\ Listening /\ WorkersInv
<1>1. Init => Inv
  <2> SUFFICES ASSUME Init PROVE Inv
    OBVIOUS
  <2>1. \A p \in Procs : proc[p].workers = 0
    BY DEF Init, Fresh
  <2> QED BY <2>1, TypesInit, SerialInit DEF WorkersInv
<1>2. Inv /\ [Next]_vars => Inv'
  BY TypesStep, ListenStep, WorkersStep
<1>3. Inv => AnswersAsConfigured
  <2> SUFFICES ASSUME Inv, NEW p \in Procs, proc[p].workers > 0
               PROVE  LET file == Files[proc[p].file] IN
                      /\ proc[p].bound = Addresses(proc[p].file)
                      /\ \A k \in Keys \ {"generic_file", "admin_allow_ip"} :
                           k \in DOMAIN file /\ Conf(p)[k] = file[k]
                      /\ Conf(p)["admin_allow_ip"] = Fields(file["admin_allow_ip"])
    BY DEF AnswersAsConfigured
  <2> DEFINE file == Files[proc[p].file]
  <2>1. At(p) \in {"open", "put", "serve"} /\ Conf(p)["nthreads"] # 0
    BY DEF WorkersInv
  <2>2. proc[p].bound = Addresses(proc[p].file)
    BY <2>1 DEF Listening, Bound
  <2>3. proc[p].file \in DOMAIN Files
    BY <2>1, AliveRecord DEF Alive
  <2>4. Conf(p) = Parse(file)
    BY <2>3 DEF Conf, Parsed
  <2> HIDE DEF file
  <2>5. \A k \in Keys \ {"generic_file"} : k \in DOMAIN file /\ k \in ReachedKeys(file)
    BY <2>1, <2>4, ThreadsReadLate
  <2>6. \A k \in Keys \ {"generic_file", "admin_allow_ip"} : Parse(file)[k] = file[k]
    BY <2>5 DEF Parse
  <2>7. Parse(file)["admin_allow_ip"] = Fields(file["admin_allow_ip"])
    <3>1. "admin_allow_ip" \in DOMAIN file /\ "admin_allow_ip" \in ReachedKeys(file)
      BY <2>5 DEF Keys
    <3>2. file["admin_allow_ip"] \in Seq(STRING)
      BY <2>3, <3>1, AllowAssumption DEF file
    <3>3. Split(file["admin_allow_ip"]) = Fields(file["admin_allow_ip"])
      BY <3>2, SplitCorrect
    <3> QED BY <3>1, <3>3 DEF Parse, Keys
  <2> QED BY <2>2, <2>4, <2>5, <2>6, <2>7 DEF file
<1> QED
  BY <1>1, <1>2, <1>3, PTL DEF Spec

\* Every text is split into its fields, whatever its length.
THEOREM TextsSplitToFields == Spec => []SplitIsFields
<1>1. SplitIsFields
  BY SplitCorrect, TextsAssumption DEF SplitIsFields, SplitWrongly
<1> QED
  BY <1>1, PTL DEF Spec

==============================================================================
