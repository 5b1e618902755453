----------------------------- MODULE SsctlClient ----------------------------
(***************************************************************************)
(* ssctl against the daemon of ConfigRequests: the command line and its    *)
(* defaults, the request it becomes, the connection, the reply and the     *)
(* exit status a script goes by.  Commands run at the same time and queue  *)
(* at the daemon's socket; a reply can be lost, the daemon can die with    *)
(* connections open, standard output can be full or closed, and a script   *)
(* runs a command again that ended with status 1.                          *)
(*                                                                         *)
(* A command is its name and the flags given.  The host is one where every *)
(* BPF object loaded; ConfigRequests has the others.                       *)
(***************************************************************************)
EXTENDS ConfigRequests, Sequences, FiniteSets

CONSTANTS Clients,   \* ssctl invocations
          Lines,     \* Lines[c]: the command lines invocation c may be given
          TryMax,    \* bound on the runs of one command
          CrashMax   \* bound on the daemon's deaths

VARIABLES up,        \* skyline-speederd is running
          queue,     \* connections, in the order it will accept them
          client,    \* each invocation: where it is, its command, its exit status
          accepted,  \* whether the request of the latest run was accepted
          crashes

daemon == <<start, config, flags, ccMap, sides, reply>>
cvars == <<daemon, up, queue, client, accepted, crashes>>

Commands == UNION {Lines[c] : c \in Clients}

-----------------------------------------------------------------------------
(* The flags of `enum Command`, with clap's defaults.                      *)
Flag(cmd, flag, default) == IF flag \in DOMAIN cmd.flags THEN cmd.flags[flag] ELSE default
Given(cmd, flag) == flag \in DOMAIN cmd.flags

RackRtoFlags(cmd) ==
  [enabled |-> ~Given(cmd, "disable"),
   srtt_permille |-> Flag(cmd, "srtt_permille", 1000),
   floor_us |-> Flag(cmd, "floor_us", 5000),
   ceiling_us |-> Flag(cmd, "ceiling_us", 200000),
   rto_max_normal_permille |-> Flag(cmd, "rto_max_normal_permille", 0),
   rto_max_congested_permille |-> Flag(cmd, "rto_max_congested_permille", 0)]

ModuleFlags(cmd) ==
  [max_pacing_mbps |-> Flag(cmd, "max_pacing_mbps", 1200),
   max_cwnd_packets |-> Flag(cmd, "max_cwnd_packets", 50000),
   max_queue_delay_ms |-> Flag(cmd, "max_queue_delay_ms", 70),
   max_queue_delay_ratio |-> Flag(cmd, "max_queue_delay_ratio", 6000),
   initial_cwnd_packets |-> Flag(cmd, "initial_cwnd_packets", 100),
   min_cwnd_packets |-> Flag(cmd, "min_cwnd_packets", 32),
   adaptive_cwnd |->
     [min_rtt_window_s |-> Flag(cmd, "min_rtt_window_s", 30),
      bw_window_rtts |-> Flag(cmd, "bw_window_rtts", 6),
      startup_plateau_rtts |-> Flag(cmd, "startup_plateau_rtts", 5),
      startup_growth_ratio |-> Flag(cmd, "startup_growth_ratio", 2000),
      startup_gain |-> Flag(cmd, "startup_gain", 30000),
      cruise_inflight_gain |-> Flag(cmd, "cruise_inflight_gain", 30000),
      cruise_pacing_gain |-> Flag(cmd, "cruise_pacing_gain", 12500),
      guardrail_gain |-> Flag(cmd, "guardrail_gain", 8000)],
   loss_inflation_max_ratio |-> Flag(cmd, "loss_inflation_max_ratio", 1000),
   prr_pacing_enabled |-> ~Given(cmd, "disable_prr_pacing"),
   auto_pacing_enabled |-> ~Given(cmd, "disable_auto_pacing")]

DscpFlags(cmd) == [enabled |-> ~Given(cmd, "disable"), dscp_value |-> Flag(cmd, "dscp_value", 0)]

RedundancyFlags(cmd) == [enabled |-> ~Given(cmd, "disable"),
                         first_kib |-> Flag(cmd, "first_kib", 64),
                         delay_ms |-> Flag(cmd, "delay_ms", 10)]

(* --all-off is an empty list of modules; no flag is no list.              *)
EnableFlags(cmd) == IF Given(cmd, "all_off") THEN {} ELSE Flag(cmd, "modules", None)

(* clap gives every flag its Rust type.                                    *)
ASSUME LinesAssumption ==
  \A cmd \in Commands :
    /\ EnableFlags(cmd) \in {None} \cup SUBSET Modules
    /\ cmd.name = "disable" => cmd.flags.module \in Modules
    /\ ModuleFlags(cmd) \in ModuleTuning /\ RackRtoFlags(cmd) \in RackRto
    /\ DscpFlags(cmd) \in RetransmitDscp /\ RedundancyFlags(cmd) \in Redundancy

(* What clap refuses: flags that exclude each other, one that is required, *)
(* and, by `finite`, a float that JSON cannot carry.                       *)
FloatFlags == {"max_queue_delay_ratio", "startup_growth_ratio", "startup_gain",
               "cruise_inflight_gain", "cruise_pacing_gain", "guardrail_gain",
               "loss_inflation_max_ratio"}
Finite(cmd) == \A f \in FloatFlags \cap DOMAIN cmd.flags : IsFinite(cmd.flags[f])
Parses(cmd) ==
  /\ ~(Given(cmd, "modules") /\ Given(cmd, "all_off"))
  /\ cmd.name = "set-retransmit-dscp" => (Given(cmd, "disable") <=> ~Given(cmd, "dscp_value"))
  /\ Finite(cmd)

(* The daemon's step for the request the command becomes (request(), and   *)
(* Daemon::handle).                                                        *)
Handle(cmd) ==
  CASE cmd.name = "enable" -> \/ EnableRefused(EnableFlags(cmd))
                              \/ EnableNotDefault(EnableFlags(cmd))
                              \/ Enable(EnableFlags(cmd))
    [] cmd.name = "disable" -> DisableModule(cmd.flags.module)
    [] cmd.name = "drain" -> DrainNotClosed \/ DrainStillCopying \/ DrainStillAttached \/ Drain
    [] cmd.name = "set-rack-rto" -> SetRackRto(RackRtoFlags(cmd))
    [] cmd.name = "reset-rack-rto" -> ResetRackRto
    [] cmd.name = "set-module-config" -> SetModuleConfig(ModuleFlags(cmd))
    [] cmd.name = "reset-module-config" -> ResetModuleConfig
    [] cmd.name = "set-retransmit-dscp" -> SetRetransmitDscp(DscpFlags(cmd))
    [] cmd.name = "reset-retransmit-dscp" -> ResetRetransmitDscp
    [] cmd.name = "set-redundancy" -> SetRedundancy(RedundancyFlags(cmd))
    [] cmd.name = "reset-redundancy" -> ResetRedundancy
    [] OTHER -> /\ reply' = [request |-> "other", ok |-> TRUE]    \* status, flows, ...
                /\ UNCHANGED <<start, config, flags, ccMap, sides>>

-----------------------------------------------------------------------------
Invoked == /\ up = TRUE /\ queue = <<>> /\ crashes = 0
           /\ \E given \in [Clients -> Commands] :
                /\ \A c \in Clients : given[c] \in Lines[c]
                /\ client = [c \in Clients |-> [pc |-> "typed", command |-> given[c],
                                                status |-> 0, ok |-> FALSE, tries |-> 1]]
           /\ accepted = [c \in Clients |-> FALSE]

CInit == Init /\ capable /\ policyLoaded /\ tc = "loaded" /\ Invoked

At(c, pc) == client[c].pc = pc
Goto(c, pc) == client' = [client EXCEPT ![c].pc = pc]
Exit(c, status) == client' = [client EXCEPT ![c].pc = "done", ![c].status = status]

(* main: the arguments, with clap's own exit status on a bad line.         *)
Parse(c) == /\ At(c, "typed")
            /\ \/ Parses(client[c].command) /\ Goto(c, "parsed")
               \/ ~Parses(client[c].command) /\ Exit(c, 2)
            /\ UNCHANGED <<daemon, up, queue, accepted, crashes>>

(* run: connect and write the request.                                     *)
Connect(c) == /\ At(c, "parsed")
              /\ \/ up /\ queue' = Append(queue, c) /\ Goto(c, "waiting")
                 \/ ~up /\ Exit(c, 1) /\ UNCHANGED queue
              /\ UNCHANGED <<daemon, up, accepted, crashes>>

(* The daemon takes the next connection, handles its request and answers;  *)
(* the answer may not arrive.                                              *)
Serve == /\ up /\ queue # <<>>
         /\ Handle(client[Head(queue)].command)
         /\ queue' = Tail(queue)
         /\ accepted' = [accepted EXCEPT ![Head(queue)] = reply'.ok]
         /\ \E arrives \in BOOLEAN :
              client' = [client EXCEPT ![Head(queue)].pc = IF arrives THEN "answered" ELSE "closed",
                                       ![Head(queue)].ok = arrives /\ reply'.ok]
         /\ UNCHANGED <<up, crashes>>

(* The daemon dies with its maps and connections, and is started again.    *)
Die == /\ up /\ crashes < CrashMax /\ crashes' = crashes + 1
       /\ up' = FALSE /\ queue' = <<>>
       /\ client' = [c \in Clients |-> IF At(c, "waiting") THEN [client[c] EXCEPT !.pc = "closed"]
                                                           ELSE client[c]]
       /\ config' = Started(file) /\ ccMap' = [generation |-> 0]
       /\ attached' = FALSE /\ accelerating' = FALSE /\ draining' = FALSE
       /\ rtoMap' = KernelRto(RtoDisabled, 0) /\ dscpMap' = KernelDscp(DscpDisabled)
       /\ redMap' = KernelRedundancy(RedundancyDisabled, FALSE) /\ redActive' = FALSE
       /\ reply' = [request |-> "other", ok |-> TRUE]
       /\ UNCHANGED <<start, accepted>>

Restart == ~up /\ up' = TRUE /\ UNCHANGED <<daemon, queue, client, accepted, crashes>>

(* run, on a connection closed without an answer: nothing to decode.       *)
ReadClosed(c) == /\ At(c, "closed") /\ Exit(c, 1)
                 /\ UNCHANGED <<daemon, up, queue, accepted, crashes>>

(* emit and the end of run: a reader that went away is no error, any other *)
(* failure to print is.                                                    *)
(* slip: the status says whether the reply was printed.                    *)
PrintAlwaysZero(c) == /\ At(c, "answered")
                      /\ \E stdout \in {"fine", "gone", "full"} :
                           Exit(c, IF stdout = "full" THEN 1 ELSE 0)
                      /\ UNCHANGED <<daemon, up, queue, accepted, crashes>>
PrintReply(c) == /\ At(c, "answered")
                 /\ \E stdout \in {"fine", "gone", "full"} :
                      Exit(c, IF stdout # "full" /\ client[c].ok THEN 0 ELSE 1)
                 /\ UNCHANGED <<daemon, up, queue, accepted, crashes>>

(* A script runs a failed command again.                                   *)
Again(c) == /\ At(c, "done") /\ client[c].status = 1 /\ client[c].tries < TryMax
            /\ client' = [client EXCEPT ![c].pc = "typed", ![c].tries = @ + 1]
            /\ accepted' = [accepted EXCEPT ![c] = FALSE]
            /\ UNCHANGED <<daemon, up, queue, crashes>>

Client(c) == Parse(c) \/ Connect(c) \/ ReadClosed(c) \/ PrintReply(c)

CNext == \/ \E c \in Clients : Client(c) \/ Again(c)
         \/ Serve \/ Die \/ Restart

CSpec == CInit /\ [][CNext]_cvars

-----------------------------------------------------------------------------
(* Status 0 is never wrong: the daemon accepted this run's request, and    *)
(* not an earlier run's, whatever was lost, closed or restarted on the way.*)
ZeroMeansAccepted == \A c \in Clients : At(c, "done") /\ client[c].status = 0 => accepted[c]

(* "every field is always sent, so a case can never end up with an         *)
(* ambiguous mix of old and new values": at any time each section is the   *)
(* file's or exactly what one command line says, however the commands,     *)
(* their retries and the restarts interleave.                              *)
OneCommandsValues ==
  LET of(name) == {cmd \in Commands : cmd.name = name /\ Parses(cmd)}
  IN /\ FromConfig(config) \in
          {FromConfig(file)} \cup {ModuleFlags(cmd) : cmd \in of("set-module-config")}
     /\ config.rack_rto \in {file.rack_rto, Started(file).rack_rto}
                              \cup {RackRtoFlags(cmd) : cmd \in of("set-rack-rto")}
     /\ config.retransmit_dscp \in {file.retransmit_dscp, Started(file).retransmit_dscp}
                                     \cup {DscpFlags(cmd) : cmd \in of("set-retransmit-dscp")}
     /\ config.redundancy \in {file.redundancy}
                                \cup {RedundancyFlags(cmd) : cmd \in of("set-redundancy")}
     /\ \/ config.enabled_modules \subseteq file.enabled_modules
        \/ \E cmd \in of("enable"), disabled \in SUBSET Modules :
             EnableFlags(cmd) # None /\ config.enabled_modules = EnableFlags(cmd) \ disabled

(* A command given without flags, and every --disable, is one the daemon   *)
(* accepts at any time: whatever was set before, the defaults of the       *)
(* command line pass validate.                                             *)
Bare(name, fs) == [name |-> name, flags |-> fs]
Off == [disable |-> TRUE]
DefaultsAccepted ==
  LET none == [f \in {} |-> 0]
  IN /\ Valid(ApplyTo(ModuleFlags(Bare("set-module-config", none)), config))
     /\ \A fl \in {none, Off} :
          /\ Valid([config EXCEPT !.rack_rto = RackRtoFlags(Bare("set-rack-rto", fl))])
          /\ Valid([config EXCEPT !.redundancy = RedundancyFlags(Bare("set-redundancy", fl))])
     /\ Valid([config EXCEPT !.retransmit_dscp = DscpFlags(Bare("set-retransmit-dscp", Off))])

(* No request on its way to the daemon holds a number JSON has no word     *)
(* for: such a request would be lost in decoding, with no word about it.   *)
CarriedByJson == \A c \in Clients : At(c, "waiting") =>
                   \A f \in FloatFlags \cap DOMAIN client[c].command.flags :
                     client[c].command.flags[f] \notin {NaN, Inf}

(* A command line reaches the daemon whole, and as one it can take.        *)
CommandsWhole == OneCommandsValues /\ DefaultsAccepted /\ CarriedByJson

(* However requests queue up, a request that fails leaves no trace in      *)
(* memory or in a map, but for an Enable that was published before the     *)
(* sysctl was refused and the switches a Drain has turned off; and a       *)
(* configuration the kernel is given has a new generation.                 *)
EachRequestAtomic == [][up' = up => RequestsAtomic]_<<up, daemon>>
=============================================================================
