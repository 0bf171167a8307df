--------------------------- MODULE ProcessControl ---------------------------
(***************************************************************************)
(* The command line of the server: main, daemonize, the control part of    *)
(* run, kill_process and the pid file (main.cpp, daemon.h, operation.cpp). *)
(* A process is one invocation of the program, by an operator, with an     *)
(* operation (start, stop, restart), -d or not, and a configuration file.  *)
(* Processes meet in the pid file, in the addresses they listen on and in  *)
(* the signals that stop and restart send.  What a server does for its     *)
(* clients is in CometServer; here it only serves, hangs, crashes or ends. *)
(*                                                                         *)
(* A pid is the process itself.  The pid of an ended process may be given  *)
(* to a process outside the model, once.                                   *)
(***************************************************************************)
EXTENDS Configuration

CONSTANTS Invocations, \* a bound on the number of times the program is started
          Overlap,     \* the same, when operators do not wait for a command to return
          Files,       \* the configuration files, by name
          Commands,    \* the command lines: records of op, daemon and file
          Faults       \* what may go wrong: see the actions that name a fault

ASSUME InvocationsAssumption == Invocations \in Nat
\* Every command names a file, and a file one of three names of a pid file: none,
\* an absolute and a relative one.
ASSUME CommandsAssumption ==
  Commands \subseteq [op : {"start", "stop", "restart"}, daemon : BOOLEAN, file : DOMAIN Files]
ASSUME FilesAssumption ==
  \A f \in DOMAIN Files : Parse(Files[f])["pidfile"] \in {"", "/pid", "pid"}
\* The list of addresses is a text, as a sequence of its characters.
ASSUME AllowAssumption ==
  \A f \in DOMAIN Files :
    "admin_allow_ip" \in DOMAIN Files[f] => Files[f]["admin_allow_ip"] \in Seq(STRING)

\* Processes are numbered in the order in which they are started.
Procs == 1..Invocations

VARIABLES proc,      \* per invocation: where it is, and its globals
          files,     \* the pid files: per place Absent, Empty or a pid
          signalled, \* the processes to which SIGTERM was sent
          hung,      \* servers whose event loop does not turn any more
          recycled,  \* the pids that a foreign process has got, and whose they are
          hit,       \* the recycled pids that were sent SIGTERM
          serial     \* the operators wait for one command before the next

vars == <<proc, files, signalled, hung, recycled, hit, serial>>

\* What stands for no pid: no file, an empty file, nothing read yet.
Absent == 0
Empty  == Invocations + 1
Nobody == 0

\* _conf, once per file: after parserinfo nothing that matters here writes it.
Parsed  == [f \in DOMAIN Files |-> Parse(Files[f])]
Conf(p) == Parsed[proc[p].file]

\* A relative pid file lies in the working directory, which daemonize moves.
Place(p) ==
  <<IF Conf(p)["pidfile"] = "/pid" THEN "/" ELSE proc[p].cwd, Conf(p)["pidfile"]>>

Places == {"/", "start", "argv0"} \X {"", "/pid", "pid"}

\* The points of a process.
Ats == {"new", "daemonize", "run", "read", "probe", "kill", "remove", "await",
        "admin", "front", "threads", "open", "put", "serve", "end"}

At(p)     == proc[p].at
Alive(p)  == At(p) \notin {"new", "end"}
Server(p) == At(p) \in {"open", "put", "serve"}

\* The addresses of the two listening sockets.  Port 0 is always free.
Taken(a) == a[2] # 0 /\ \E q \in Procs : a \in proc[q].bound

Fresh == [at |-> "new", op |-> "start", daemon |-> FALSE, cwd |-> "start",
          file |-> "none", pid |-> Nobody, bound |-> {}, workers |-> 0, crashed |-> "no"]

-----------------------------------------------------------------------------
(* Steps of one process.  An end closes its sockets.                        *)
Goto(p, at) == proc' = [proc EXCEPT ![p].at = at]

\* What has ended is remembered for the pid that it read, and for where it crashed.
End(p, crash) ==
  proc' = [proc EXCEPT ![p] = [Fresh EXCEPT !.at = "end", !.pid = proc[p].pid, !.crashed = crash]]

Exit(p) == End(p, "no")

OnlyProc == UNCHANGED <<files, signalled, hung, recycled, hit, serial>>

\* err_sys and err_quit: the message goes out and the process ends.
Fail(p) == Exit(p) /\ OnlyProc

\* An operator who waits gives a command when every other one has returned or serves.
Quiet(p) == IF serial THEN \A q \in Procs \ {p} : At(q) \in {"new", "serve", "end"}
            ELSE p <= Overlap

\* main: getopt, parserinfo, then daemonize if -d was given.
Launch(p) ==
  /\ At(p) = "new" /\ \A q \in 1..(p - 1) : At(q) # "new"
  /\ Quiet(p)
  /\ \E c \in Commands :
       proc' = [proc EXCEPT ![p] = [@ EXCEPT !.at = IF c.daemon THEN "daemonize" ELSE "run",
                                             !.op = c.op, !.daemon = c.daemon, !.file = c.file]]
  /\ OnlyProc

\* daemonize(argv[0]): the child changes to the directory argv[0], which is
\* the name of the program, and ends without a word if there is none.  main
\* ignores that fork failed and goes on in the foreground.
Daemonize(p) ==
  /\ At(p) = "daemonize"
  /\ \/ proc' = [proc EXCEPT ![p].at = "run", ![p].cwd = "argv0"]
     \/ "chdir" \in Faults /\ Exit(p)
     \/ "fork" \in Faults /\ Goto(p, "run")
  /\ OnlyProc

\* The head of run: what the operation asks for.
Run(p) ==
  /\ At(p) = "run"
  /\ CASE proc[p].op = "start" -> Goto(p, "admin")
       [] proc[p].op = "stop" -> Goto(p, "read")
       [] proc[p].op = "restart" ->
            IF files[Place(p)] # Absent THEN Goto(p, "read") ELSE Exit(p)
  /\ OnlyProc

-----------------------------------------------------------------------------
(* kill_process                                                             *)

\* Mutant of ReadPid: an empty file is taken for a pid.
ReadPidUnchecked(p) ==
  /\ At(p) = "read"
  /\ IF files[Place(p)] = Absent THEN Exit(p)
     ELSE proc' = [proc EXCEPT ![p].at = "probe", ![p].pid = files[Place(p)]]
  /\ OnlyProc

\* read_pid: a missing or an empty file ends the command.
ReadPid(p) ==
  /\ At(p) = "read"
  /\ IF files[Place(p)] \in {Absent, Empty} THEN Exit(p)
     ELSE proc' = [proc EXCEPT ![p].at = "probe", ![p].pid = files[Place(p)]]
  /\ OnlyProc

\* The rest of the command: stop is done, restart goes on to start a server.
Rest(p) == IF proc[p].op = "stop" THEN Exit(p) ELSE Goto(p, "admin")

NoSuchProcess(q) == ~Alive(q) /\ recycled[q] = "free"

RemoveFile(p) == files' = [files EXCEPT ![Place(p)] = Absent]

\* Mutant of Probe: the file is removed whether the process runs or not.
ProbeRemoves(p) ==
  /\ At(p) = "probe"
  /\ RemoveFile(p)
  /\ IF NoSuchProcess(proc[p].pid) THEN Rest(p) ELSE Goto(p, "kill")
  /\ UNCHANGED <<signalled, hung, recycled, hit, serial>>

\* kill(pid, 0): without such a process the file is stale and is removed.
Probe(p) ==
  /\ At(p) = "probe"
  /\ IF NoSuchProcess(proc[p].pid)
     THEN RemoveFile(p) /\ Rest(p)
     ELSE Goto(p, "kill") /\ UNCHANGED files
  /\ UNCHANGED <<signalled, hung, recycled, hit, serial>>

\* Mutant of Kill: the command returns without removing the pid file.
KillReturns(p) ==
  LET q == proc[p].pid IN
  /\ At(p) = "kill"
  /\ IF Alive(q) \/ recycled[q] = "same user"
     THEN /\ Rest(p)
          /\ signalled' = IF Alive(q) THEN signalled \cup {q} ELSE signalled
          /\ hit' = IF Alive(q) THEN hit ELSE hit \cup {q}
     ELSE Exit(p) /\ UNCHANGED <<signalled, hit>>
  /\ UNCHANGED <<files, hung, recycled, serial>>

\* kill(pid, SIGTERM); when it fails err_quit is given the pid as a string,
\* which ends the process in any case.
Kill(p) ==
  LET q == proc[p].pid IN
  /\ At(p) = "kill"
  /\ IF Alive(q) \/ recycled[q] = "same user"
     THEN /\ Goto(p, "remove")
          /\ signalled' = IF Alive(q) THEN signalled \cup {q} ELSE signalled
          /\ hit' = IF Alive(q) THEN hit ELSE hit \cup {q}
     ELSE Exit(p) /\ UNCHANGED <<signalled, hit>>
  /\ UNCHANGED <<files, hung, recycled, serial>>

\* The file is removed at once, whatever the signalled process does.
Remove(p) ==
  /\ At(p) = "remove"
  /\ RemoveFile(p)
  /\ Goto(p, "await")
  /\ UNCHANGED <<signalled, hung, recycled, hit, serial>>

\* The loop waits for the file, not for the process, to be gone.
Await(p) ==
  /\ At(p) = "await"
  /\ files[Place(p)] = Absent
  /\ Rest(p)
  /\ OnlyProc

-----------------------------------------------------------------------------
(* Start of a server: sockets, workers, pid file                            *)

\* http_server_bind_socket and tcp_listen for one of the two addresses.
Bind(p, from, ip, port, to) ==
  LET a == <<Conf(p)[ip], Conf(p)[port]>> IN
  /\ At(p) = from
  /\ IF a[1] = "" \/ Taken(a) THEN Exit(p)
     ELSE proc' = [proc EXCEPT ![p].at = to, ![p].bound = @ \cup {a}]
  /\ OnlyProc

BindAdmin(p) == Bind(p, "admin", "admin_ip", "admin_port", "front")
BindFront(p) == Bind(p, "front", "front_ip", "front_port", "threads")

\* One thread after another; that pthread_create failed is not noticed.  The
\* workers answer from here on.  Only a daemon has a pid file.
Threads(p) ==
  /\ At(p) = "threads"
  /\ \E n \in 0..Conf(p)["nthreads"] :
       /\ n = Conf(p)["nthreads"] \/ "threads" \in Faults
       /\ proc' = [proc EXCEPT ![p].workers = n,
                               ![p].at = IF proc[p].daemon THEN "open" ELSE "serve"]
  /\ OnlyProc

\* write_pid: fopen truncates the file, then the pid is written.
OpenPid(p) ==
  /\ At(p) = "open"
  /\ IF Conf(p)["pidfile"] = "" THEN Exit(p) /\ UNCHANGED files
     ELSE Goto(p, "put") /\ files' = [files EXCEPT ![Place(p)] = Empty]
  /\ UNCHANGED <<signalled, hung, recycled, hit, serial>>

PutPid(p) ==
  /\ At(p) = "put"
  /\ Goto(p, "serve")
  /\ files' = [files EXCEPT ![Place(p)] = p]
  /\ UNCHANGED <<signalled, hung, recycled, hit, serial>>

\* Every call that can fail on the way ends the process through err_sys.
StartFails(p) ==
  /\ "start" \in Faults
  /\ At(p) \in {"admin", "front", "threads", "open", "put"}
  /\ Fail(p)

-----------------------------------------------------------------------------
(* The end of a server, and the rest of the machine                         *)

\* Mutant of Terminate: the loops have no handler for SIGTERM and ignore it.
TerminateEarly(p) ==
  /\ p \in signalled /\ Alive(p) /\ p \notin hung /\ At(p) # "serve"
  /\ Fail(p)

\* SIGTERM before the loops turn ends the process by default, afterwards
\* sigterm_cb does; neither removes the pid file.
Terminate(p) ==
  /\ p \in signalled /\ Alive(p) /\ p \notin hung
  /\ Fail(p)

\* A crash, SIGINT or SIGKILL, of a server or of a command at any point: the pid
\* file stays as it is.
Crash(p) ==
  /\ "crash" \in Faults
  /\ Alive(p)
  /\ End(p, At(p))
  /\ OnlyProc

Hang(p) ==
  /\ "hang" \in Faults
  /\ At(p) = "serve" /\ p \notin hung
  /\ hung' = hung \cup {p}
  /\ UNCHANGED <<proc, files, signalled, recycled, hit, serial>>

\* The system gives a free pid that somebody still knows to another process.
Recycle(p) ==
  /\ "recycle" \in Faults
  /\ At(p) = "end" /\ recycled[p] = "free"
  /\ \E pl \in Places : files[pl] = p
  /\ \E user \in {"same user", "other user"} : recycled' = [recycled EXCEPT ![p] = user]
  /\ UNCHANGED <<proc, files, signalled, hung, hit, serial>>

-----------------------------------------------------------------------------
Init ==
  /\ proc = [p \in Procs |-> Fresh]
  /\ files = [pl \in Places |-> Absent]
  /\ signalled = {} /\ hung = {} /\ hit = {}
  /\ recycled = [p \in Procs |-> "free"]
  /\ serial \in BOOLEAN

Command(p) ==
  \/ Daemonize(p) \/ Run(p)
  \/ ReadPid(p) \/ Probe(p) \/ Kill(p) \/ Remove(p) \/ Await(p)
  \/ BindAdmin(p) \/ BindFront(p) \/ Threads(p) \/ OpenPid(p) \/ PutPid(p)

Mishap(p) == StartFails(p) \/ Crash(p) \/ Hang(p) \/ Recycle(p)

Next == \E p \in Procs : Launch(p) \/ Command(p) \/ Terminate(p) \/ Mishap(p)

\* Processes run, and a loop that turns gets its signal.  Nobody has to give
\* another command, and nothing has to go wrong.
Fairness == \A p \in Procs : WF_vars(Command(p)) /\ WF_vars(Terminate(p))

Spec == Init /\ [][Next]_vars /\ Fairness

-----------------------------------------------------------------------------
(* Properties                                                               *)

\* What each variable of the module may hold (global variables of main.cpp,
\* the pid file, the state of the machine).
ControlTypeOK ==
  /\ \A p \in Procs :
       /\ At(p) \in Ats /\ proc[p].crashed \in Ats \cup {"no"}
       /\ proc[p].pid \in Procs \cup {Nobody}
       /\ Alive(p) => proc[p].file \in DOMAIN Files /\ Place(p) \in Places
       /\ proc[p].workers \in Nat
  /\ DOMAIN files = Places
  /\ \A pl \in Places : files[pl] \in Procs \cup {Absent, Empty}
  /\ signalled \cup hung \cup hit \subseteq Procs
  /\ \A p \in Procs : recycled[p] \in {"free", "same user", "other user"}

Addresses(f) == {<<Parsed[f]["admin_ip"], Parsed[f]["admin_port"]>>,
                 <<Parsed[f]["front_ip"], Parsed[f]["front_port"]>>}

\* No two servers on addresses of their own share a pid file.
FilesApart ==
  \A f, g \in DOMAIN Files :
    Parsed[f]["pidfile"] = Parsed[g]["pidfile"] => Addresses(f) \cap Addresses(g) # {}

\* A daemon that serves is the one its pid file names, until a stop or a restart
\* has signalled it: a second start fails on the addresses before it would
\* overwrite the file, and kill_process removes the file of a server that is
\* gone only.  Operators wait for a command to return, and two servers on other
\* addresses do not share a pid file.
NamedByFile ==
  \A p \in Procs :
    (serial /\ FilesApart /\ At(p) = "serve" /\ proc[p].daemon /\ p \notin signalled)
      => files[Place(p)] = p

\* A command has died between its kill of q and its removal of the file.
LeftInFile(q) ==
  \E p \in Procs : At(p) = "end" /\ proc[p].crashed = "remove" /\ proc[p].pid = q

\* A stop or a restart signals a foreign process only under a pid that a crash has
\* left in the pid file: that of a server which crashed while it served, or, if the
\* server was signalled before, the crash of the command that did so between its
\* kill and its remove_file.
ForeignNeedsCrash ==
  serial => \A q \in hit : IF q \in signalled THEN LeftInFile(q)
                                             ELSE proc[q].crashed = "serve"

\* A process whose workers answer listens on the two addresses of its file and
\* has every value of the file that parserinfo reads before nthreads, although
\* the parser may stop at any key and the program goes on all the same.  Of the list
\* admin_allow_ip the program keeps what split makes of it; no handler consults it.
AnswersAsConfigured ==
  \A p \in Procs :
    proc[p].workers > 0 =>
      /\ proc[p].bound = Addresses(proc[p].file)
      /\ \A k \in Keys \ {"generic_file", "admin_allow_ip"} :
           k \in DOMAIN Files[proc[p].file] /\ Conf(p)[k] = Files[proc[p].file][k]
      /\ Conf(p)["admin_allow_ip"] = Fields(Files[proc[p].file]["admin_allow_ip"])

\* split returns the maximal runs of characters between separators, for texts
\* that start or end with a separator, hold several in a row or nothing else: a
\* process that has parsed its file could have been given any of them.
SplitIsFields == \A p \in Procs : Alive(p) => SplitWrongly = {}

\* A stop that finds the pid of a running server in the file returns, and the
\* server ends, unless it hangs (its event loop does not get the signal) or the stop
\* crashes before it has sent the signal.
StopEndsServer ==
  \A p \in Procs :
    (serial /\ At(p) = "probe" /\ proc[p].op = "stop" /\ Server(proc[p].pid))
      ~> /\ At(p) = "end"
         /\ \/ proc[p].crashed \in {"probe", "kill"}
            \/ \A q \in Procs : q = proc[p].pid => At(q) = "end" \/ q \in hung

\* "OPE_RESTART //重启": a restart that has stopped the old server serves.
RestartServes ==
  \A p \in Procs : (serial /\ At(p) = "await" /\ proc[p].op = "restart") ~> At(p) = "serve"
==============================================================================
