------------------------------ MODULE SandboxHost ------------------------------
(***************************************************************************)
(* One process that uses the sandbox: it selects an adapter, asks it what  *)
(* it can enforce, wraps spawns and hardens itself, while its host has     *)
(* passing faults.  A control's own probe is one step here: that a yes is  *)
(* earned is what the probe modules are about.  A call runs to its end, as *)
(* all but one are synchronous; what one Windows job probe does stands for *)
(* those of memory, process count, CPU time and disk.                      *)
(***************************************************************************)
EXTENDS RlimitScript, KernelHardening

CONSTANTS
  Hosts,      \* hard limits, flags the shell knows, processes of the user
  Requests,   \* what spawns ask for
  MaxFaults

\* A host that starts a shell has room for a process more: a clamp helper that
\* cannot fork takes no answer for no limit.
ASSUME HostsAssumption ==
  \A h \in Hosts : /\ h.hard \in [Limits -> Nat] /\ h.flags \subseteq Limits
                   /\ h.busy \in Nat /\ h.busy < h.hard["proc"]
ASSUME RequestsAssumption ==
  \A r \in Requests : /\ {r.timeoutMs, r.maxProcesses, r.memoryMb} \subseteq Int
                      /\ r.longLived \in BOOLEAN

VARIABLES
  platform, mode,
  host,      \* in Hosts
  works,     \* the controls that act on this host
  faulty,    \* whether a passing fault is on
  faults,    \* how many there were
  verdict,   \* the cache of each probe: "none", "yes" or "no"
  need,      \* the probes the call under way has still to ask
  adapter,   \* "none", "refused", "passthrough" or the platform's own
  report,    \* the last capability report
  request,   \* of the spawn being wrapped
  spec       \* the last wrapped spawn and what became of it

vars == <<op, hardVars, platform, mode, host, works, faulty, faults,
          verdict, need, adapter, report, request, spec>>

hostVars == <<op, verdict, need, adapter, report, request, spec>>

Posix == platform # "windows"

\* What availability is decided by, and what a report and a spawn rest on.
Needed == IF Posix THEN <<"tool">> ELSE <<"addon", "handshake", "killTree">>
Reported == IF Posix THEN <<"rlimit", "killTree", "memory">>
            ELSE <<"killTree", "memory", "fs", "net">>
SpawnNeeds(r) == IF Posix THEN <<"rlimit">>
                 ELSE <<"fs">> \o (IF r.network THEN <<>> ELSE <<"net">>)

Controls == {"tool", "addon", "handshake", "killTree", "memory", "rlimit", "fs", "net"}

NoReport == [by |-> "none"]
NoSpec == [state |-> "none"]
NoRequest == [network |-> TRUE]

Init ==
  /\ HardInit
  /\ platform \in {"linux", "macos", "windows"} /\ mode \in {"off", "auto", "native"}
  /\ host \in Hosts
  /\ works \in {w \in SUBSET (Controls \ {"rlimit"}) :
       IF Posix THEN w \subseteq {"tool", "killTree", "memory"}
       ELSE "tool" \notin w /\ ("addon" \notin w => w = {})}
  /\ platform # "linux" => abi = 0 /\ ~ binding
  /\ faulty = FALSE /\ faults = 0
  /\ verdict = [c \in Controls |-> "none"] /\ need = <<>>
  /\ adapter = "none" /\ report = NoReport
  /\ request = NoRequest /\ spec = NoSpec

-----------------------------------------------------------------------------
(* Probes and their caches.                                                *)

\* What a probe would find now.  The address-space probe runs in the wrapper.
Acts(c) ==
  /\ ~ faulty
  /\ IF c = "rlimit" THEN RlimitProbe(host, platform = "linux") ELSE c \in works
  /\ c = "memory" /\ platform = "linux" => verdict["rlimit"] = "yes"

\* As Ask, had only a yes been cached.
AskAgain ==
  /\ op \in {"detect", "report", "wrap"} /\ need # <<>>
  /\ LET c == Head(need)
         v == IF verdict[c] = "yes" THEN "yes" ELSE IF Acts(c) THEN "yes" ELSE "no"
     IN /\ verdict' = [verdict EXCEPT ![c] = v]
        /\ need' = IF v = "no" /\ op # "report" THEN <<>> ELSE Tail(need)
  /\ UNCHANGED <<op, adapter, report, request, spec>>

\* The next probe, unless its verdict is cached; but for a report, a no ends it.
Ask ==
  /\ op \in {"detect", "report", "wrap"} /\ need # <<>>
  /\ LET c == Head(need)
         v == IF verdict[c] # "none" THEN verdict[c] ELSE IF Acts(c) THEN "yes" ELSE "no"
     IN /\ verdict' = [verdict EXCEPT ![c] = v]
        /\ need' = IF v = "no" /\ op # "report" THEN <<>> ELSE Tail(need)
  /\ UNCHANGED <<op, adapter, report, request, spec>>

Proved(cs) == \A i \in DOMAIN cs : verdict[cs[i]] = "yes"

-----------------------------------------------------------------------------
(* detectAdapter, capabilitiesV2.                                          *)

Detect ==
  /\ op = "idle" /\ op' = "detect"
  /\ need' = IF mode = "off" THEN <<>> ELSE Needed
  /\ UNCHANGED <<verdict, adapter, report, request, spec>>

\* As Detected, had a host in mode "native" fallen back like one in "auto".
DetectedAnyhow ==
  /\ op = "detect" /\ need = <<>> /\ op' = "idle"
  /\ adapter' = IF mode # "off" /\ Proved(Needed) THEN platform ELSE "passthrough"
  /\ UNCHANGED <<verdict, need, report, request, spec>>

Detected ==
  /\ op = "detect" /\ need = <<>> /\ op' = "idle"
  /\ adapter' = IF mode # "off" /\ Proved(Needed) THEN platform
                ELSE IF mode = "native" THEN "refused" ELSE "passthrough"
  /\ UNCHANGED <<verdict, need, report, request, spec>>

Selected == adapter \notin {"none", "refused"}

Capabilities ==
  /\ op = "idle" /\ Selected /\ op' = "report"
  /\ need' = IF adapter = "passthrough" THEN <<>> ELSE Reported
  /\ UNCHANGED <<verdict, adapter, report, request, spec>>

\* On POSIX hosts isolation is not asked for: it goes with the adapter.
ReportDone ==
  /\ op = "report" /\ need = <<>> /\ op' = "idle"
  /\ LET yes(c) == adapter # "passthrough" /\ verdict[c] = "yes"
         isolates(c) == IF Posix THEN adapter # "passthrough" ELSE yes(c)
     IN report' = [by |-> adapter, rlimits |-> yes("rlimit"), killTree |-> yes("killTree"),
                   memory |-> yes("memory"), fs |-> isolates("fs"), net |-> isolates("net")]
  /\ UNCHANGED <<verdict, need, adapter, request, spec>>

-----------------------------------------------------------------------------
(* wrapSpawn and the child.                                                *)

Wrap(r) ==
  /\ op = "idle" /\ Selected
  /\ op' = "wrap" /\ request' = r
  /\ need' = IF adapter = "passthrough" THEN <<>> ELSE SpawnNeeds(r)
  /\ spec' = NoSpec
  /\ UNCHANGED <<verdict, adapter, report>>

Plain == [state |-> "wrapped", confined |-> adapter # "passthrough", wrapped |-> FALSE,
          fd |-> 0, limits |-> host.hard]

WrapPassthrough ==
  /\ op = "wrap" /\ adapter = "passthrough" /\ op' = "idle"
  /\ spec' = Plain
  /\ UNCHANGED <<verdict, need, adapter, report, request, hardVars>>

\* The POSIX adapters wrap the command if the probe passed, and throw at values
\* that cannot be; the Linux one first compiles the filter, and does without
\* one if that fails.
WrapPosix ==
  /\ op = "wrap" /\ need = <<>> /\ adapter \in {"linux", "macos"} /\ op' = "idle"
  /\ LET wanted == Wanted(request, adapter = "linux")
     IN \E c \in IF adapter = "linux" /\ request.filter THEN Compiled ELSE {<<0, table>>} :
          /\ table' = c[2]
          /\ spec' = IF verdict["rlimit"] = "yes" /\ ~ Valid(wanted) THEN [state |-> "refused"]
                     ELSE [Plain EXCEPT !.wrapped = verdict["rlimit"] = "yes", !.fd = c[1]]
  /\ UNCHANGED <<verdict, need, adapter, report, request,
                 abi, binding, kind, rules, passed, ruleset, left, layers, applied>>

\* The Windows adapter refuses what was not proved, and a loopback it cannot
\* give.
WrapWindows ==
  /\ op = "wrap" /\ need = <<>> /\ adapter = "windows" /\ op' = "idle"
  /\ spec' = IF Proved(SpawnNeeds(request)) /\ (request.network \/ ~ request.loopback)
             THEN Plain ELSE [state |-> "refused"]
  /\ UNCHANGED <<verdict, need, adapter, report, request, hardVars>>

\* The caller spawns it.  bwrap has the descriptor if nothing closed it on the
\* way, and gives up if it cannot read it; the script has its last word.
Spawn ==
  /\ op = "idle" /\ spec.state = "wrapped"
  /\ LET limits == IF spec.wrapped THEN RunScript(host, Wanted(request, adapter = "linux"))
                   ELSE host.hard
     IN spec' = [spec EXCEPT
          !.state = IF spec.fd # 0 /\ table[spec.fd] = "memfd" THEN "unread"
                    ELSE IF limits = <<>> THEN "broken" ELSE "running",
          !.limits = limits]
  /\ UNCHANGED <<op, verdict, need, adapter, report, request>>

-----------------------------------------------------------------------------

Fault ==
  /\ ~ faulty /\ faults < MaxFaults
  /\ faulty' = TRUE /\ faults' = faults + 1
  /\ UNCHANGED hostVars
FaultPasses ==
  /\ faulty /\ faulty' = FALSE
  /\ UNCHANGED <<hostVars, faults>>

Lasting == <<platform, mode, host, works>>
Weather == <<faulty, faults>>

Next ==
  \/ /\ Ask \/ Detect \/ Detected \/ Capabilities \/ ReportDone \/ Spawn
     /\ UNCHANGED <<Lasting, Weather, hardVars>>
  \/ (\E r \in Requests : Wrap(r)) /\ UNCHANGED <<Lasting, Weather, hardVars>>
  \/ (WrapPassthrough \/ WrapPosix \/ WrapWindows) /\ UNCHANGED <<Lasting, Weather>>
  \/ HardNext /\ UNCHANGED <<Lasting, Weather, verdict, need, adapter, report, request, spec>>
  \/ (Fault \/ FaultPasses) /\ UNCHANGED <<Lasting, hardVars>>

Spec == Init /\ [][Next]_vars

-----------------------------------------------------------------------------

\* A process asks its adapter at any time, faults come and go, and the verdicts
\* it goes by stay the same: a report that says so has every later and earlier
\* spawn of this process run under the rlimit wrapper, and one that does not has
\* none; and a spawn goes only where its own report would have it confined.
SpawnsAsReported ==
  report # NoReport /\ spec.state \notin {"none", "refused"} =>
    /\ Posix => spec.wrapped = report.rlimits
    /\ spec.confined => report.fs /\ (request.network \/ report.net)
    /\ ~ spec.confined => report \in [by : {"passthrough"}, rlimits : {FALSE}, killTree : {FALSE},
                                      memory : {FALSE}, fs : {FALSE}, net : {FALSE}]

\* A host that asks for "native" gets no spawn without an adapter of its own,
\* and on Windows none whose isolation was not proved, whatever happened in
\* detection or between detection and spawn.
NativeIsConfined ==
  spec.state \notin {"none", "refused"} /\ mode = "native" =>
    /\ spec.confined
    /\ ~ Posix => /\ {"addon", "handshake", "killTree", "fs"} \subseteq works
                  /\ request.network \/ ("net" \in works /\ ~ request.loopback)

\* A wrapped command runs under every limit asked for, or the host's own where
\* that is lower; it is not kept from running by the wrapper that was proved on
\* this host; and the CPU budget outlasts the timeout, up to MAX_CPU_SECONDS.
LimitsBind ==
  /\ spec.state # "broken"
  /\ spec.state = "running" /\ spec.wrapped =>
       LET wanted == Wanted(request, adapter = "linux")
       IN /\ \A l \in DOMAIN wanted : spec.limits[l] = Smaller(wanted[l], host.hard[l])
          /\ "t" \in DOMAIN wanted =>
               spec.limits["t"] >= Smaller(Smaller(Seconds(request.timeoutMs), MaxCpu),
                                           host.hard["t"])

\* applyKernelHardening says what it did: applied, the thread can do no more
\* than before, nothing the ruleset does not give it at the place or above, and
\* all it does give, but by the rules that were passed over or went with their
\* places; in error, whatever rule or call it was that failed, it can do what it
\* could. And the ABI is no reason for an error: a rule is only refused for a
\* file among the places.
HardensAsAsked ==
  [][op = "harden" /\ op' = "idle" =>
       /\ IF applied' = "applied"
          THEN \A p \in Places :
                 LET asks(paths) == Above[p] \cap paths # {}
                     sure(paths) == (Above[p] \cap paths) \ passed # {}
                 IN /\ Allowed'[p] \subseteq Allowed[p]
                    /\ "write" \in Allowed'[p] => asks(ruleset.readWrite)
                    /\ "read" \in Allowed'[p] => asks(ruleset.readOnly \cup ruleset.readWrite)
                    /\ sure(ruleset.readOnly) => Allowed[p] \cap {"read", "execute"} \subseteq Allowed'[p]
                    /\ sure(ruleset.readWrite) => Allowed[p] \ {"refer"} \subseteq Allowed'[p]
          ELSE Allowed' = Allowed
       /\ applied' = "error" /\ left # NoRuleset => \E p \in Places : kind[p] = "file"]_vars

\* "a file descriptor suitable for bubblewrap's --seccomp <fd> argument":
\* every spawn whose arguments name a descriptor has bwrap read it.
DescriptorReachesBwrap == spec.state # "unread"

=============================================================================
