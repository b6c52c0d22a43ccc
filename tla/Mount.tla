-------------------------------- MODULE Mount ---------------------------------
(***************************************************************************)
(* The processes of cmd/fusey/main.go around one mountpoint: `fusey mount` *)
(* (runMount) starts a daemon and waits on a pipe; the daemon (runDaemon)  *)
(* loads the index, mounts, writes its PID file, reports, serves, and on a *)
(* signal unmounts, persists, removes the PID file and exits; `fusey       *)
(* unmount` (runUnmount) looks for a PID file and signals its process.     *)
(* Any of them may be killed or signalled at any point.                    *)
(*                                                                         *)
(* A daemon is named by its directory; runUnmount meets the directories in *)
(* the order of their names.  An index is the set of the writes it has.    *)
(***************************************************************************)
EXTENDS Integers, FiniteSets

CONSTANTS
    Daemon,  \* directories of daemons, integers
    Item,    \* the writes clients make
    Waits,   \* `fusey mount` is only run after the one before has returned and
             \* no running daemon has a PID file
    Faults   \* the faults that happen: "kill" (SIGKILL, OOM), "busy" (Unmount
             \* reports an error), "pidfile" (the PID file cannot be written)

ASSUME MountAssumption == Daemon \subseteq Int /\ Waits \in BOOLEAN

VARIABLES
    parent,   \* runMount of each daemon: "none", "waiting", "done" or "failed"
    daemon,   \* where each daemon is
    ends,     \* who holds the write end of its pipe open
    told,     \* "ready\n" is in the pipe
    pidfile,  \* the directories with a daemon.pid
    fs,       \* the daemons file-system requests reach
    sig,      \* the daemons with an undelivered signal
    idx,      \* the index of each daemon, kept as history after its end
    saved,    \* the daemons whose final persist succeeded
    remote,   \* the index object
    target    \* the directory a running `fusey unmount` has found, or -1

procVars == <<parent, daemon, ends, told, sig, target>>
dataVars == <<idx, saved, remote>>
mountVars == <<procVars, dataVars, pidfile, fs>>

Stages == {"none", "starting", "loaded", "mounted", "recorded", "ready", "serving",
           "stopping", "flushing", "removing", "exited", "failed", "killed"}

Alive(d) == daemon[d] \notin {"none", "exited", "failed", "killed"}

Goto(d, stage) == daemon' = [daemon EXCEPT ![d] = stage]

\* Mutant: requests still reach a daemon that has ended.
EndsReachable(d, how) ==
    /\ Goto(d, how)
    /\ ends' = [ends EXCEPT ![d] = @ \ {"daemon"}]
    /\ sig' = sig \ {d}
    /\ UNCHANGED fs

\* What the end of a process does: the kernel closes its end of the pipe, and
\* nothing answers requests any more.
Ends(d, how) ==
    /\ Goto(d, how)
    /\ ends' = [ends EXCEPT ![d] = @ \ {"daemon"}]
    /\ fs' = fs \ {d}
    /\ sig' = sig \ {d}

-----------------------------------------------------------------------------
(* runMount *)

MayMount == Waits => \A d \in Daemon : parent[d] # "waiting" /\ (d \in pidfile => ~Alive(d))

\* Mutant: the parent keeps its copy of the write end.
StartKeepsEnd(d) ==
    /\ parent[d] = "none" /\ MayMount
    /\ parent' = [parent EXCEPT ![d] = "waiting"]
    /\ Goto(d, "starting")
    /\ ends' = [ends EXCEPT ![d] = {"parent", "daemon"}]
    /\ UNCHANGED <<told, sig, target, dataVars, pidfile, fs>>

\* The daemon is started, and the parent closes its write end.
Start(d) ==
    /\ parent[d] = "none" /\ MayMount
    /\ parent' = [parent EXCEPT ![d] = "waiting"]
    /\ Goto(d, "starting")
    /\ ends' = [ends EXCEPT ![d] = {"daemon"}]
    /\ UNCHANGED <<told, sig, target, dataVars, pidfile, fs>>

\* Mutant: the parent does not wait for the pipe to be closed.
ParentReadsOnce(d) ==
    /\ parent[d] = "waiting"
    /\ parent' = [parent EXCEPT ![d] = IF d \in told THEN "done" ELSE "failed"]
    /\ UNCHANGED <<daemon, ends, told, sig, target, dataVars, pidfile, fs>>

\* io.ReadAll returns when nobody holds the write end any more.
ParentReads(d) ==
    /\ parent[d] = "waiting"
    /\ ends[d] = {}
    /\ parent' = [parent EXCEPT ![d] = IF d \in told THEN "done" ELSE "failed"]
    /\ UNCHANGED <<daemon, ends, told, sig, target, dataVars, pidfile, fs>>

-----------------------------------------------------------------------------
(* runDaemon *)

\* mustBuildStore and loadIndex.
Load(d) ==
    /\ daemon[d] = "starting"
    /\ Goto(d, "loaded")
    /\ idx' = [idx EXCEPT ![d] = remote]
    /\ UNCHANGED <<parent, ends, told, sig, target, saved, remote, pidfile, fs>>

\* gofs.Mount returns: clients reach the file system.
MountFS(d) ==
    /\ daemon[d] = "loaded"
    /\ Goto(d, "mounted")
    /\ fs' = fs \cup {d}
    /\ UNCHANGED <<parent, ends, told, sig, target, dataVars, pidfile>>

\* The index cannot be loaded or the mount fails: log.Fatalf.
StartFails(d) ==
    /\ daemon[d] \in {"starting", "loaded"}
    /\ Ends(d, "failed")
    /\ UNCHANGED <<parent, told, target, dataVars, pidfile>>

\* The PID file is written; the code does not look at the error.
WritePid(d) ==
    /\ daemon[d] = "mounted"
    /\ Goto(d, "recorded")
    /\ pidfile' \in {pidfile \cup {d}} \cup (IF "pidfile" \in Faults THEN {pidfile} ELSE {})
    /\ UNCHANGED <<parent, ends, told, sig, target, dataVars, fs>>

\* "ready\n", and the pipe is closed.
TellParent(d) ==
    /\ daemon[d] = "recorded"
    /\ Goto(d, "ready")
    /\ told' = told \cup {d}
    /\ ends' = [ends EXCEPT ![d] = @ \ {"daemon"}]
    /\ UNCHANGED <<parent, sig, target, dataVars, pidfile, fs>>

\* signal.Notify: from here on a signal waits in the channel.
Notify(d) ==
    /\ daemon[d] = "ready"
    /\ Goto(d, "serving")
    /\ UNCHANGED <<parent, ends, told, sig, target, dataVars, pidfile, fs>>

\* Mutant: the daemon first waits for the periodic persist to catch up.
ReceiveClean(d) ==
    /\ daemon[d] = "serving" /\ d \in sig /\ idx[d] = remote
    /\ Goto(d, "stopping")
    /\ UNCHANGED <<parent, ends, told, sig, target, dataVars, pidfile, fs>>

\* The signal is taken from the channel and the periodic persist cancelled.
Receive(d) ==
    /\ daemon[d] = "serving" /\ d \in sig
    /\ Goto(d, "stopping")
    /\ UNCHANGED <<parent, ends, told, sig, target, dataVars, pidfile, fs>>

\* Mutant: the file system is unmounted by the end of the process only.
UnmountLate(d) ==
    /\ daemon[d] = "stopping"
    /\ Goto(d, "flushing")
    /\ UNCHANGED <<parent, ends, told, sig, target, dataVars, pidfile, fs>>

\* server.Unmount; an error is logged and the file system stays reachable.
Unmount(d) ==
    /\ daemon[d] = "stopping"
    /\ Goto(d, "flushing")
    /\ fs' \in {fs \ {d}} \cup (IF "busy" \in Faults THEN {fs} ELSE {})
    /\ UNCHANGED <<parent, ends, told, sig, target, dataVars, pidfile>>

\* Mutant: the PID file is removed before the index is persisted.
FinalPersistUnlisted(d) ==
    /\ daemon[d] = "flushing"
    /\ \/ pidfile' = pidfile \ {d} /\ UNCHANGED <<daemon, remote, saved>>
       \/ UNCHANGED pidfile /\ Goto(d, "removing") /\ remote' = idx[d] /\ saved' = saved \cup {d}
    /\ UNCHANGED <<parent, ends, told, sig, target, idx, fs>>

\* The final persist; an error is logged.
FinalPersist(d) ==
    /\ daemon[d] = "flushing"
    /\ Goto(d, "removing")
    /\ \/ remote' = idx[d] /\ saved' = saved \cup {d}
       \/ remote' \in {remote, idx[d]} /\ UNCHANGED saved
    /\ UNCHANGED <<parent, ends, told, sig, target, idx, pidfile, fs>>

\* The PID file is removed and the process ends.
RemovePid(d) ==
    /\ daemon[d] = "removing"
    /\ Ends(d, "exited")
    /\ pidfile' = pidfile \ {d}
    /\ UNCHANGED <<parent, told, target, dataVars>>

\* A client's write.
Write(d, w) ==
    /\ d \in fs
    /\ idx' = [idx EXCEPT ![d] = @ \cup {w}]
    /\ UNCHANGED <<procVars, saved, remote, pidfile, fs>>

\* The periodic persist.
Persist(d) ==
    /\ daemon[d] \in {"ready", "serving"}
    /\ remote' = idx[d]
    /\ UNCHANGED <<procVars, idx, saved, pidfile, fs>>

-----------------------------------------------------------------------------
(* Signals *)

Kill(d) ==
    /\ "kill" \in Faults
    /\ Alive(d)
    /\ Ends(d, "killed")
    /\ UNCHANGED <<parent, told, target, dataVars, pidfile>>

\* SIGTERM: before signal.Notify it ends the process.
Deliver(d) ==
    \/ /\ daemon[d] \in {"serving", "stopping", "flushing", "removing"}
       /\ sig' = sig \cup {d}
       /\ UNCHANGED <<daemon, ends, fs>>
    \/ /\ daemon[d] \in {"starting", "loaded", "mounted", "recorded", "ready"}
       /\ Ends(d, "killed")

\* The container runtime or the user signals a daemon.
Terminate(d) ==
    /\ Alive(d)
    /\ Deliver(d)
    /\ UNCHANGED <<parent, told, target, dataVars, pidfile>>

\* runUnmount finds the first PID file; with none it fails.
Scan ==
    /\ target = -1
    /\ \E d \in pidfile : (\A e \in pidfile : d <= e) /\ target' = d
    /\ UNCHANGED <<parent, daemon, ends, told, sig, dataVars, pidfile, fs>>

\* It signals the process; one that has ended meanwhile, or was killed and left
\* its file, makes it fail.
Signal ==
    /\ target # -1
    /\ target' = -1
    /\ \/ Alive(target) /\ Deliver(target)
       \/ ~Alive(target) /\ UNCHANGED <<daemon, ends, sig, fs>>
    /\ UNCHANGED <<parent, told, dataVars, pidfile>>

-----------------------------------------------------------------------------

MountInit ==
    /\ parent = [d \in Daemon |-> "none"]
    /\ daemon = [d \in Daemon |-> "none"]
    /\ ends = [d \in Daemon |-> {}]
    /\ told = {}
    /\ pidfile = {}
    /\ fs = {}
    /\ sig = {}
    /\ idx = [d \in Daemon |-> {}]
    /\ saved = {}
    /\ remote = {}
    /\ target = -1

\* What a daemon does of itself.
DaemonStep(d) ==
    \/ Load(d) \/ MountFS(d) \/ StartFails(d) \/ WritePid(d) \/ TellParent(d) \/ Notify(d)
    \/ Receive(d) \/ Unmount(d) \/ FinalPersist(d) \/ RemovePid(d)

MountNext ==
    \/ \E d \in Daemon :
         \/ Start(d) \/ ParentReads(d) \/ DaemonStep(d) \/ Persist(d) \/ Kill(d) \/ Terminate(d)
         \/ \E w \in Item : Write(d, w)
    \/ Scan \/ Signal

MountSpec == MountInit /\ [][MountNext]_mountVars

\* Processes run: a daemon's next step and the parent's read are not put off
\* for ever.  Nothing is assumed of clients, signals and kills.
FairMountSpec ==
    MountSpec /\ \A d \in Daemon : WF_mountVars(DaemonStep(d)) /\ WF_mountVars(ParentReads(d))

-----------------------------------------------------------------------------
(* Properties *)

\* Types, and that only a running daemon is reached by requests and signals.
MountTypeOK ==
    /\ parent \in [Daemon -> {"none", "waiting", "done", "failed"}]
    /\ daemon \in [Daemon -> Stages]
    /\ ends \in [Daemon -> SUBSET {"parent", "daemon"}]
    /\ idx \in [Daemon -> SUBSET Item] /\ remote \subseteq Item
    /\ told \cup pidfile \cup saved \subseteq Daemon
    /\ target \in Daemon \cup {-1}
    /\ \A d \in fs \cup sig : d \in Daemon /\ Alive(d)

\* When `fusey mount` reports a failure no daemon is left behind that serves
\* the mountpoint, now or later (runMount waits for the pipe to be closed).
FailedMeansGone ==
    \A d \in Daemon : parent[d] = "failed" => daemon[d] \in {"failed", "killed"}

\* From loading the index to its final persist a daemon believes that the
\* index object is its own.
Owns(d) == daemon[d] \in {"loaded", "mounted", "recorded", "ready", "serving", "stopping", "flushing"}

\* Whoever waits for `fusey mount` to return, and for the PID file of the
\* daemon before to go, never has two daemons on the same index object (the
\* PID file is there before the parent returns, and until after the final
\* persist).
OneOwner == \A d, e \in Daemon : Owns(d) /\ Owns(e) => d = e

\* What a daemon acknowledged is in the index object once it has ended with a
\* successful final persist, and no later daemon takes it out again.
NoWriteLost ==
    \A d \in saved : daemon[d] = "exited" => idx[d] \subseteq remote

\* `fusey mount` returns, however its daemon fares.
ParentResolves == \A d \in Daemon : (parent[d] = "waiting") ~> (parent[d] # "waiting")

\* A signalled daemon ends, whatever it is doing.
StopCompletes == \A d \in Daemon : (d \in sig) ~> ~Alive(d)
=============================================================================
