--------------------------- MODULE MicroVMSession ---------------------------
(***************************************************************************)
(* The krun backend in proxy mode: one microVM per project at a time,      *)
(* booted by `podman run --replace' under the project's fixed name.  The   *)
(* guest waits for a file in the sandbox home; a goroutine of the launch   *)
(* finds the VM's PID, restricts its network namespace, writes the file    *)
(* and registers the session, while the launch waits for the VM to end     *)
(* (internal/isolator/docker.go and egress.go; the guest's side is         *)
(* cmd/devsandbox-shim).                                                   *)
(*                                                                         *)
(* The engine answers an inspection truthfully, and the VM has the name    *)
(* from the moment `podman run' is started.                                *)
(***************************************************************************)
EXTENDS Naturals

CONSTANTS
  Boots,        \* devsandbox processes launched for the project
  NoVM, Nobody

ASSUME MicroVMAssumption == Nobody \notin Boots /\ NoVM \notin [id : Boots,
                              phase : {"gated", "work"}, locked : BOOLEAN]

VARIABLES
  vm,           \* the microVM that runs under the project's name, or NoVM
  vmLock,       \* who holds the session lock of the project
  goFile,       \* whether the file the guest waits for is there
  bootAt,       \* where each launch is
  resolver,     \* where its goroutine is
  stopped,      \* launches whose resolveCtx is cancelled
  failed,       \* launches that recorded a lockdown failure
  registered    \* launches with a session record

vmVars == <<vm, vmLock, goFile, bootAt, resolver, stopped, failed, registered>>

VMs == [id : Boots, phase : {"gated", "work"}, locked : BOOLEAN]

MicroVMTypeOK ==
  /\ vm \in VMs \cup {NoVM}
  /\ vmLock \in Boots \cup {Nobody}
  /\ goFile \in BOOLEAN
  /\ bootAt \in [Boots -> {"start", "lock", "guard", "clear", "boot", "wait",
                           "join", "returned", "over", "killed"}]
  /\ resolver \in [Boots -> {"none", "poll", "lockdown", "release", "register",
                             "finished"}]
  /\ stopped \subseteq Boots
  /\ failed \subseteq Boots
  /\ registered \subseteq Boots

\* The file of an earlier session may still be there: nothing removes it when
\* that session ends.
MicroVMInit ==
  /\ vm = NoVM
  /\ vmLock = Nobody
  /\ goFile \in BOOLEAN
  /\ bootAt = [b \in Boots |-> "start"]
  /\ resolver = [b \in Boots |-> "none"]
  /\ stopped = {}
  /\ failed = {}
  /\ registered = {}

BootGo(b, place) == bootAt' = [bootAt EXCEPT ![b] = place]
Resolver(b, place) == resolver' = [resolver EXCEPT ![b] = place]
\* The deferred release of the lock, taken when Run returns.
Unlocked(b) == vmLock' = IF vmLock = b THEN Nobody ELSE vmLock
Own(b) == vm # NoVM /\ vm.id = b

-----------------------------------------------------------------------------
(* A launch *)

\* Preflight, before the proxy is started: a running VM ends the launch.
Preflight(b) ==
  /\ bootAt[b] = "start"
  /\ BootGo(b, IF vm = NoVM THEN "lock" ELSE "over")
  /\ UNCHANGED <<vm, vmLock, goFile, resolver, stopped, failed, registered>>

\* acquireMicroVMSessionLock does not wait.
AcquireLock(b) ==
  /\ bootAt[b] = "lock"
  /\ IF vmLock = Nobody
     THEN vmLock' = b /\ BootGo(b, "guard")
     ELSE BootGo(b, "returned") /\ UNCHANGED vmLock
  /\ UNCHANGED <<vm, goFile, resolver, stopped, failed, registered>>

\* Mutant: the lock is trusted, no second look.
GuardRunning_Trusting(b) ==
  /\ bootAt[b] = "guard"
  /\ BootGo(b, "clear")
  /\ UNCHANGED <<vm, vmLock, goFile, resolver, stopped, failed, registered>>

\* BuildDocker looks again, under the lock; its image build may fail.
GuardRunning(b) ==
  /\ bootAt[b] = "guard"
  /\ \/ vm = NoVM /\ BootGo(b, "clear") /\ UNCHANGED vmLock
     \/ BootGo(b, "returned") /\ Unlocked(b)
  /\ UNCHANGED <<vm, goFile, resolver, stopped, failed, registered>>

\* prepareEgressLockdown: what cannot be cleared ends the launch.
ClearGoFile(b) ==
  /\ bootAt[b] = "clear"
  /\ \/ goFile' = FALSE /\ BootGo(b, "boot") /\ UNCHANGED vmLock
     \/ BootGo(b, "returned") /\ Unlocked(b) /\ UNCHANGED goFile
  /\ UNCHANGED <<vm, resolver, stopped, failed, registered>>

StartVM(b) ==
  /\ bootAt[b] = "boot"
  /\ \/ /\ vm' = [id |-> b, phase |-> "gated", locked |-> FALSE]
        /\ BootGo(b, "wait")
        /\ Resolver(b, "poll")
        /\ UNCHANGED vmLock
     \/ /\ BootGo(b, "returned")
        /\ Unlocked(b)
        /\ UNCHANGED <<vm, resolver>>
  /\ UNCHANGED <<goFile, stopped, failed, registered>>

\* cmd.Wait returns once the VM has ended, and cancels the goroutine ...
WaitReturns(b) ==
  /\ bootAt[b] = "wait"
  /\ ~Own(b)
  /\ BootGo(b, "join")
  /\ stopped' = stopped \cup {b}
  /\ UNCHANGED <<vm, vmLock, goFile, resolver, failed, registered>>

\* Mutant: the goroutine is not joined.
JoinResolver_NoWait(b) ==
  /\ bootAt[b] = "join"
  /\ BootGo(b, "returned")
  /\ Unlocked(b)
  /\ UNCHANGED <<vm, goFile, resolver, stopped, failed, registered>>

\* ... which is joined before Run returns.
JoinResolver(b) ==
  /\ bootAt[b] = "join"
  /\ resolver[b] = "finished"
  /\ BootGo(b, "returned")
  /\ Unlocked(b)
  /\ UNCHANGED <<vm, goFile, resolver, stopped, failed, registered>>

\* The deferred Remove of the session record.
RemoveRecord(b) ==
  /\ bootAt[b] = "returned"
  /\ BootGo(b, "over")
  /\ registered' = registered \ {b}
  /\ UNCHANGED <<vm, vmLock, goFile, resolver, stopped, failed>>

\* The kernel releases the lock; podman and the VM go on.
BootKilled(b) ==
  /\ bootAt[b] \notin {"start", "over", "killed"}
  /\ BootGo(b, "killed")
  /\ Unlocked(b)
  /\ Resolver(b, "finished")
  /\ UNCHANGED <<vm, goFile, stopped, failed, registered>>

-----------------------------------------------------------------------------
(* Its goroutine *)

\* recordLockdownFailure: the VM that has the name is killed.
Fail(b) ==
  /\ failed' = failed \cup {b}
  /\ vm' = NoVM
  /\ stopped' = stopped \cup {b}
  /\ Resolver(b, "finished")

\* Mutant: a cancelled goroutine never reports that it is done.
ResolvePID_NotDone(b) ==
  /\ resolver[b] = "poll"
  /\ b \notin stopped
  /\ \/ /\ vm # NoVM
        /\ Resolver(b, "lockdown")
        /\ UNCHANGED <<vm, stopped, failed>>
     \/ Fail(b)
  /\ UNCHANGED <<vmLock, goFile, bootAt, registered>>

\* waitForContainerPID, and the look at the context after it.
ResolvePID(b) ==
  /\ resolver[b] = "poll"
  /\ \/ /\ b \in stopped
        /\ Resolver(b, "finished")
        /\ UNCHANGED <<vm, stopped, failed>>
     \/ /\ b \notin stopped
        /\ vm # NoVM
        /\ Resolver(b, "lockdown")
        /\ UNCHANGED <<vm, stopped, failed>>
     \/ b \notin stopped /\ Fail(b)
  /\ UNCHANGED <<vmLock, goFile, bootAt, registered>>

\* Routes, then firewall, in the namespace of the PID; either may fail, and both
\* do if the VM is gone.
LockEgress(b) ==
  /\ resolver[b] = "lockdown"
  /\ \/ /\ Own(b)
        /\ vm' = [vm EXCEPT !.locked = TRUE]
        /\ Resolver(b, "release")
        /\ UNCHANGED <<stopped, failed>>
     \/ Fail(b)
  /\ UNCHANGED <<vmLock, goFile, bootAt, registered>>

\* writeEgressSentinel creates the file and fails if it is there.
WriteGoFile(b) ==
  /\ resolver[b] = "release"
  /\ \/ /\ ~goFile
        /\ goFile' = TRUE
        /\ Resolver(b, "register")
        /\ UNCHANGED <<vm, stopped, failed>>
     \/ Fail(b) /\ UNCHANGED goFile
  /\ UNCHANGED <<vmLock, bootAt, registered>>

OnStart(b) ==
  /\ resolver[b] = "register"
  /\ registered' = registered \cup {b}
  /\ Resolver(b, "finished")
  /\ UNCHANGED <<vm, vmLock, goFile, bootAt, stopped, failed>>

-----------------------------------------------------------------------------
(* The guest *)

\* The shim sees the file; then set-up and workload run.
GuestReleased ==
  /\ vm # NoVM /\ vm.phase = "gated"
  /\ goFile
  /\ vm' = [vm EXCEPT !.phase = "work"]
  /\ UNCHANGED <<vmLock, goFile, bootAt, resolver, stopped, failed, registered>>

\* The shim waits 30 seconds.
GuestGivesUp ==
  /\ vm # NoVM /\ vm.phase = "gated"
  /\ vm' = NoVM
  /\ UNCHANGED <<vmLock, goFile, bootAt, resolver, stopped, failed, registered>>

WorkEnds ==
  /\ vm # NoVM /\ vm.phase = "work"
  /\ vm' = NoVM
  /\ UNCHANGED <<vmLock, goFile, bootAt, resolver, stopped, failed, registered>>

-----------------------------------------------------------------------------

BootSteps(b) ==
  \/ Preflight(b) \/ AcquireLock(b) \/ GuardRunning(b) \/ ClearGoFile(b)
  \/ StartVM(b) \/ WaitReturns(b) \/ JoinResolver(b) \/ RemoveRecord(b)
  \/ BootKilled(b)

ResolverSteps(b) ==
  ResolvePID(b) \/ LockEgress(b) \/ WriteGoFile(b) \/ OnStart(b)

MicroVMNext ==
  \/ \E b \in Boots : BootSteps(b) \/ ResolverSteps(b)
  \/ GuestReleased \/ GuestGivesUp \/ WorkEnds

\* The goroutine's steps all have timeouts; a launch goes on when it can; a
\* guest that is not released gives up.  Nothing makes a workload end.
MicroVMFairness ==
  /\ \A b \in Boots : /\ WF_vmVars(ResolverSteps(b))
                      /\ WF_vmVars(WaitReturns(b) \/ JoinResolver(b)
                                   \/ RemoveRecord(b))
  /\ WF_vmVars(GuestReleased \/ GuestGivesUp)

MicroVMSpec == MicroVMInit /\ [][MicroVMNext]_vmVars /\ MicroVMFairness

-----------------------------------------------------------------------------
(* Properties *)

\* Nothing of the guest's set-up or workload runs in a namespace that was not
\* restricted first -- with the file of an earlier session in the home, with a
\* launch killed at any point, and with the next launch coming while the VM of
\* the killed one still waits for its file.
WorkloadLocked == vm # NoVM /\ vm.phase = "work" => vm.locked

\* `--replace' never takes a running VM away, although the VM outlives the
\* launch that holds the lock.
KeepsVM == vm # NoVM /\ vm' # NoVM => vm'.id = vm.id
NeverReplaced == [][KeepsVM]_vmVars

\* No session record outlives the launch that wrote it, unless it was killed:
\* the goroutine that registers is joined before the record is removed.
NoRecordLeft == \A b \in Boots : bootAt[b] = "over" => b \notin registered

\* The goroutine beside the launch does its two jobs before what they are for.
GuestHeld == WorkloadLocked /\ NoRecordLeft

\* Neither a launch that is overtaken nor one with --replace takes from a guest what it
\* was promised: a lockdown before its workload, and to run until it ends.  At first
\* there is no guest, and no record.
GuestKept == [][GuestHeld' /\ KeepsVM]_vmVars

\* A launch whose VM is still held at the gate comes to an end by itself, or the
\* workload is released: a failure in the goroutine leaves nobody waiting.
GateOpensOrEnds ==
  \A b \in Boots :
    bootAt[b] = "wait" /\ Own(b) /\ vm.phase = "gated" ~>
      (Own(b) /\ vm.phase = "work") \/ bootAt[b] \in {"over", "killed"}
=============================================================================
