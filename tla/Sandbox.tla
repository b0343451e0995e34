------------------------------ MODULE Sandbox ------------------------------
(* One operation after another in containers: ContainerExecutionProvider      *)
(* with the egress proxy it puts beside a sandbox (ADR 0016), and the cleanup  *)
(* that has to undo whatever part of the setup was reached.                    *)
(*                                                                             *)
(* Each docker command is a step.  A command fails with or without effect (its *)
(* client may be killed after 30 seconds); a client killed for a timeout or an *)
(* abort leaves its container running.  The containers go on by themselves,    *)
(* also when the execution runtime has crashed.  A directory that an install   *)
(* or a Playwright run keeps in the workspace is the operation's scratch.      *)
EXTENDS Absent, Naturals

CONSTANTS
  Operations,   \* operations, each with names of its own (randomUUID)
  Scratching,   \* those that write a scratch directory: installs and browser tests
  Hosts,        \* names that repository code may try to reach
  Granted,      \* grants an operation may have: sets of hosts, {} for network mode NONE
  Options,      \* [proxy, unrestricted]: how the provider may be configured
  MaxFailures, MaxSandboxCrashes   \* bounds of an instance

Outcomes == {"SUCCEEDED", "FAILED", "TIMED_OUT", "DENIED"}
Proxies == [hosts : Granted, joined : BOOLEAN, ready : BOOLEAN, log : SUBSET Hosts]

ASSUME SandboxAssumption ==
  /\ Scratching \subseteq Operations
  /\ Granted \subseteq SUBSET Hosts
  /\ Options \subseteq [proxy : BOOLEAN, unrestricted : BOOLEAN]
  /\ MaxFailures \in Nat /\ MaxSandboxCrashes \in Nat
  /\ None \notin {"none", "internal", "bridge"} \cup Outcomes \cup Proxies

VARIABLES
  options,   \* egressProxyDirectory is set, allowUnrestrictedEgress
  op,        \* what the runtime does for an operation
  sandbox,   \* the network its sandbox container runs in, or None
  proxy,     \* its egress proxy: [hosts, joined, ready, log], or None
  networks,  \* operations whose internal network exists
  scratch,   \* operations whose scratch directory is in the workspace
  reached,   \* <<operation, host, address>>: what sandboxes were connected to
  tried,     \* <<operation, host>>: what they asked for
  mishaps    \* [failures, crashes] so far

sandboxVars == <<options, op, sandbox, proxy, networks, scratch, reached, tried, mishaps>>

Address == {"public", "internal"}   \* internal: isBlockedAddress
Stages == {"network", "proxy", "connect", "ready", "start", "running", "logs",
          "removeSandbox", "removeProxy", "removeNetwork", "removeScratch"}

\* aborted: an abort was signalled.  unclean: a command of the cleanup failed.
\* evidence: the hosts of the egress log, or None.
NewOperation(hosts) == [at |-> "asked", hosts |-> hosts, aborted |-> FALSE, outcome |-> None,
                        evidence |-> None, unclean |-> FALSE]
OperationRecord ==
  [at : {"asked", "ended", "crashed"} \cup Stages, hosts : Granted, aborted : BOOLEAN,
   outcome : Outcomes \cup {None}, evidence : {None} \cup SUBSET Hosts, unclean : BOOLEAN]

SandboxInit ==
  /\ options \in Options
  /\ op \in [Operations -> {NewOperation(hosts) : hosts \in Granted}]
  /\ sandbox = [o \in Operations |-> None]
  /\ proxy = [o \in Operations |-> None]
  /\ networks = {} /\ scratch = {} /\ reached = {} /\ tried = {}
  /\ mishaps = [failures |-> 0, crashes |-> 0]

\* What network() decides.
Proxied(o) == op[o].hosts # {} /\ options.proxy
Network(o) ==
  IF op[o].hosts = {} THEN "none" ELSE IF options.proxy THEN "internal" ELSE "bridge"
Refuses(o) == op[o].hosts # {} /\ ~options.proxy /\ ~options.unrestricted

OpGoes(o, at) == op' = [op EXCEPT ![o].at = at]
OpThrows(o) == op' = [op EXCEPT ![o].at = "removeSandbox", ![o].outcome = "FAILED"]
Fine == UNCHANGED mishaps
Fails == /\ mishaps.failures < MaxFailures
         /\ mishaps' = [mishaps EXCEPT !.failures = @ + 1]

-----------------------------------------------------------------------------
(* Setup                                                                     *)

execute(o) ==
  /\ op[o].at = "asked"
  /\ IF Refuses(o)
     THEN op' = [op EXCEPT ![o].at = "ended", ![o].outcome = "DENIED"]
     ELSE OpGoes(o, IF Proxied(o) THEN "network" ELSE "start")
  /\ UNCHANGED <<options, sandbox, proxy, networks, scratch, reached, tried, mishaps>>

CreateNetwork(o) ==
  /\ op[o].at = "network"
  /\ \/ networks' = networks \cup {o} /\ OpGoes(o, "proxy") /\ Fine
     \/ networks' \in {networks, networks \cup {o}} /\ OpThrows(o) /\ Fails
  /\ UNCHANGED <<options, sandbox, proxy, scratch, reached, tried>>

StartProxy(o) ==
  LET started == [proxy EXCEPT ![o] = [hosts |-> op[o].hosts, joined |-> FALSE,
                                       ready |-> FALSE, log |-> {}]]
  IN  /\ op[o].at = "proxy"
      /\ \/ proxy' = started /\ OpGoes(o, "connect") /\ Fine
         \/ proxy' \in {proxy, started} /\ OpThrows(o) /\ Fails
      /\ UNCHANGED <<options, sandbox, networks, scratch, reached, tried>>

ConnectProxy(o) ==
  LET joined == [proxy EXCEPT ![o].joined = TRUE]
  IN  /\ op[o].at = "connect"
      /\ \/ proxy' = joined /\ OpGoes(o, "ready") /\ Fine
         \/ proxy' \in {proxy, joined} /\ OpThrows(o) /\ Fails
      /\ UNCHANGED <<options, sandbox, networks, scratch, reached, tried>>

ProxyListens(o) ==
  /\ proxy[o] # None /\ ~proxy[o].ready
  /\ proxy' = [proxy EXCEPT ![o].ready = TRUE]
  /\ UNCHANGED <<options, op, sandbox, networks, scratch, reached, tried, mishaps>>

\* Faulty: the proxy is waited for as long as it takes.
AwaitForever(o) ==
  /\ op[o].at = "ready"
  /\ proxy[o].ready /\ OpGoes(o, "start")
  /\ UNCHANGED <<options, sandbox, proxy, networks, scratch, reached, tried, mishaps>>

\* The wait ends with the proxy's `ready`, with an abort or after 20 seconds.
AwaitProxy(o) ==
  /\ op[o].at = "ready"
  /\ \/ proxy[o].ready /\ OpGoes(o, "start")
     \/ OpThrows(o)
  /\ UNCHANGED <<options, sandbox, proxy, networks, scratch, reached, tried, mishaps>>

-----------------------------------------------------------------------------
(* The sandbox                                                               *)

Finished(o, outcome) ==
  op' = [op EXCEPT ![o].at = IF Proxied(o) THEN "logs" ELSE "removeSandbox",
                   ![o].outcome = outcome]

StartSandbox(o) ==
  /\ op[o].at = "start"
  /\ \/ sandbox' = [sandbox EXCEPT ![o] = Network(o)] /\ OpGoes(o, "running") /\ Fine
     \/ UNCHANGED sandbox /\ (Finished(o, "FAILED") \/ OpThrows(o)) /\ Fails
  /\ UNCHANGED <<options, proxy, networks, scratch, reached, tried>>

\* The process in the sandbox ends, and the container with it (--rm).
SandboxExits(o) ==
  /\ sandbox[o] # None
  /\ sandbox' = [sandbox EXCEPT ![o] = None]
  /\ IF op[o].at = "running" THEN \E s \in {"SUCCEEDED", "FAILED"} : Finished(o, s)
     ELSE UNCHANGED op
  /\ UNCHANGED <<options, proxy, networks, scratch, reached, tried, mishaps>>

\* The grant's timeout kills the client of docker run.
TimesOut(o) ==
  /\ op[o].at = "running" /\ Finished(o, "TIMED_OUT")
  /\ UNCHANGED <<options, sandbox, proxy, networks, scratch, reached, tried, mishaps>>

\* An abort kills it too, but only when it comes while the client runs.
Aborts(o) ==
  /\ op[o].at \in Stages /\ ~op[o].aborted
  /\ op' = IF op[o].at = "running"
           THEN [op EXCEPT ![o].aborted = TRUE, ![o].outcome = "FAILED",
                           ![o].at = IF Proxied(o) THEN "logs" ELSE "removeSandbox"]
           ELSE [op EXCEPT ![o].aborted = TRUE]
  /\ UNCHANGED <<options, sandbox, proxy, networks, scratch, reached, tried, mishaps>>

SandboxWrites(o) ==
  /\ sandbox[o] # None /\ o \in Scratching
  /\ scratch' = scratch \cup {o}
  /\ UNCHANGED <<options, op, sandbox, proxy, networks, reached, tried, mishaps>>

\* resolve(): the host is on the list, and of the addresses it has now none is blocked.
ProxyAccepts(p, host, addresses) == host \in p.hosts /\ "internal" \notin addresses

\* A request of the sandbox, by the network it is in: the bridge takes it anywhere, the
\* internal network to its proxy if one listens there.
Request(o, host, addresses) ==
  /\ \/ /\ sandbox[o] = "bridge"
        /\ reached' = reached \cup {<<o, host, a>> : a \in addresses}
        /\ UNCHANGED <<proxy, tried>>
     \/ /\ sandbox[o] = "internal"
        /\ o \in networks /\ proxy[o] # None /\ proxy[o].joined /\ proxy[o].ready
        /\ tried' = tried \cup {<<o, host>>}
        /\ proxy' = [proxy EXCEPT ![o].log = @ \cup {host}]
        /\ \/ /\ ProxyAccepts(proxy[o], host, addresses)
              /\ \E a \in addresses : reached' = reached \cup {<<o, host, a>>}
           \/ /\ ~ProxyAccepts(proxy[o], host, addresses)
              /\ UNCHANGED reached
  /\ UNCHANGED <<options, op, sandbox, networks, scratch, mishaps>>

-----------------------------------------------------------------------------
(* Evidence and cleanup: the commands' results are not looked at             *)

\* decisions(): logs that cannot be read count as none.
ReadLogs(o) ==
  /\ op[o].at = "logs"
  /\ \/ Fine /\ op' = [op EXCEPT ![o].at = "removeSandbox",
                                 ![o].evidence = IF proxy[o] = None THEN {} ELSE proxy[o].log]
     \/ Fails /\ op' = [op EXCEPT ![o].at = "removeSandbox", ![o].evidence = {}]
  /\ UNCHANGED <<options, sandbox, proxy, networks, scratch, reached, tried>>

AfterSandbox(o) ==
  IF Proxied(o) THEN "removeProxy" ELSE "removeScratch"

Cleans(o, at) == OpGoes(o, at) /\ Fine
Leaves(o, at) == op' = [op EXCEPT ![o].at = at, ![o].unclean = TRUE] /\ Fails

\* Faulty: a container whose client was killed is taken for stopped.
RemoveExited(o) ==
  /\ op[o].at = "removeSandbox" /\ Cleans(o, AfterSandbox(o))
  /\ UNCHANGED <<options, sandbox, proxy, networks, scratch, reached, tried>>

RemoveSandbox(o) ==
  /\ op[o].at = "removeSandbox"
  /\ \/ sandbox' = [sandbox EXCEPT ![o] = None] /\ Cleans(o, AfterSandbox(o))
     \/ UNCHANGED sandbox /\ Leaves(o, AfterSandbox(o))
  /\ UNCHANGED <<options, proxy, networks, scratch, reached, tried>>

RemoveProxy(o) ==
  /\ op[o].at = "removeProxy"
  /\ \/ proxy' = [proxy EXCEPT ![o] = None] /\ Cleans(o, "removeNetwork")
     \/ UNCHANGED proxy /\ Leaves(o, "removeNetwork")
  /\ UNCHANGED <<options, sandbox, networks, scratch, reached, tried>>

\* A network with a container in it cannot be removed.
InUse(o) == sandbox[o] = "internal" \/ (proxy[o] # None /\ proxy[o].joined)

RemoveNetwork(o) ==
  /\ op[o].at = "removeNetwork"
  /\ \/ ~InUse(o) /\ networks' = networks \ {o} /\ Cleans(o, "removeScratch")
     \/ InUse(o) /\ UNCHANGED networks /\ Cleans(o, "removeScratch")
     \/ UNCHANGED networks /\ Leaves(o, "removeScratch")
  /\ UNCHANGED <<options, sandbox, proxy, scratch, reached, tried>>

\* The evidence of a browser test was collected from it; then it goes.
RemoveScratch(o) ==
  /\ op[o].at = "removeScratch"
  /\ \/ scratch' = scratch \ {o} /\ Cleans(o, "ended")
     \/ o \in scratch /\ UNCHANGED scratch /\ Leaves(o, "ended")
  /\ UNCHANGED <<options, sandbox, proxy, networks, reached, tried>>

RuntimeCrashes ==
  /\ mishaps.crashes < MaxSandboxCrashes
  /\ \E o \in Operations : op[o].at \in Stages
  /\ op' = [o \in Operations |-> IF op[o].at \in Stages THEN [op[o] EXCEPT !.at = "crashed"] ELSE op[o]]
  /\ mishaps' = [mishaps EXCEPT !.crashes = @ + 1]
  /\ UNCHANGED <<options, sandbox, proxy, networks, scratch, reached, tried>>

RuntimeSteps(o) ==
  \/ CreateNetwork(o) \/ StartProxy(o) \/ ConnectProxy(o) \/ AwaitProxy(o)
  \/ StartSandbox(o) \/ TimesOut(o) \/ ReadLogs(o)
  \/ RemoveSandbox(o) \/ RemoveProxy(o) \/ RemoveNetwork(o) \/ RemoveScratch(o)

SandboxNext ==
  \/ \E o \in Operations :
       \/ execute(o) \/ RuntimeSteps(o)
       \/ ProxyListens(o) \/ SandboxExits(o) \/ Aborts(o) \/ SandboxWrites(o)
       \/ \E host \in Hosts, addresses \in (SUBSET Address) \ {{}} : Request(o, host, addresses)
  \/ RuntimeCrashes

SandboxSpec == SandboxInit /\ [][SandboxNext]_sandboxVars

\* The process goes on with an operation: every docker command has a time limit, and so does the
\* sandbox itself.
SandboxFairness == \A o \in Operations : WF_sandboxVars(RuntimeSteps(o))

-----------------------------------------------------------------------------
(* Properties                                                                *)

SandboxTypeOK ==
  /\ options \in Options
  /\ op \in [Operations -> OperationRecord]
  /\ sandbox \in [Operations -> {None, "none", "internal", "bridge"}]
  /\ \A o \in Operations : proxy[o] # None => proxy[o] \in Proxies
  /\ networks \subseteq Operations /\ scratch \subseteq Scratching
  /\ reached \subseteq Operations \X Hosts \X Address
  /\ tried \subseteq Operations \X Hosts
  /\ mishaps.failures <= MaxFailures /\ mishaps.crashes <= MaxSandboxCrashes

\* Repository code reaches no host but those of its grant and no internal address, from whichever
\* setup, cleanup or crash its container survives, unless the operator accepted that egress is
\* unrestricted where no proxy is installed.
Confined ==
  \A x \in reached :
    \/ x[2] \in op[x[1]].hosts /\ x[3] = "public"
    \/ op[x[1]].hosts # {} /\ ~options.proxy /\ options.unrestricted

\* However far the setup came and however the sandbox ended, an operation that is over leaves no
\* container, network or scratch directory behind, unless a command of the cleanup failed.
NothingLeft ==
  \A o \in Operations : op[o].at = "ended" /\ ~op[o].unclean =>
    sandbox[o] = None /\ proxy[o] = None /\ o \notin networks /\ o \notin scratch

\* What is reported of an operation that succeeded names every host it asked for, or nothing
\* when the log could not be read.
EvidenceComplete ==
  \A o \in Operations : op[o].at = "ended" /\ op[o].outcome = "SUCCEEDED" /\ Proxied(o) =>
    op[o].evidence \in {{}, {h \in Hosts : <<o, h>> \in tried}}

SandboxSound == SandboxTypeOK /\ Confined /\ NothingLeft /\ EvidenceComplete

\* Every operation is answered, unless the runtime crashed under it.
OperationsEnd == \A o \in Operations : op[o].at \in Stages ~> op[o].at \in {"ended", "crashed"}
=============================================================================
