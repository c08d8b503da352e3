------------------------------ MODULE MCTools ------------------------------
\* The programs beside the service, for TLC: each behaviour is of one of them, at
\* work alone, while the others are as at first.  The index command's definitions come
\* in by EXTENDS, the others' under their names.
EXTENDS IndexCommand, FiniteSets, TLC

CONSTANTS Arguments, Switches, Calls, Allowed, MaxDepth, MaxSent, MaxRaises,
          MaxSignals, MaxEnds

VARIABLES
  tool,
  backend, config, blocks, raised, last, request, made, astray, sent, raises,
  at, keep, restart, process, child, stopping, reloading, hups, signals, ends

Driver  == INSTANCE HttpDriver
Varnish == INSTANCE VarnishSupervisor

ASSUME ToolsAssumption ==
  Driver!DriverConstants /\ CommandConstants /\ Varnish!SupervisorConstants

driverVars     == <<backend, config, blocks, raised, last, request, made, astray, sent, raises>>
supervisorVars == <<at, keep, restart, process, child, stopping, reloading, hups, signals, ends>>

ToolsInit ==
  /\ tool \in {"driver", "index", "varnish"}
  /\ Driver!Init
  /\ tool = "driver" \/ made = Driver!Configured(CHOOSE a \in Arguments : ~Driver!Refused(a))
  /\ Init
  /\ tool = "index" \/ (index = None /\ options = [c \in Commands |-> CHOOSE o \in Options : TRUE])
  /\ Varnish!Init

ToolsNext ==
  /\ UNCHANGED tool
  /\ \/ tool = "driver"  /\ Driver!Next  /\ UNCHANGED <<commandVars, supervisorVars>>
     \/ tool = "index"   /\ Next         /\ UNCHANGED <<driverVars, supervisorVars>>
     \/ tool = "varnish" /\ Varnish!Next /\ UNCHANGED <<driverVars, commandVars>>

\* That of VarnishSupervisor.
Fairness ==
  /\ WF_supervisorVars(tool = "varnish" /\ Varnish!Loop)
  /\ WF_supervisorVars(tool = "varnish" /\ \E i \in DOMAIN child : Varnish!ChildEnds(i))

FairSpec ==
  ToolsInit /\ [][ToolsNext]_<<tool, driverVars, commandVars, supervisorVars>> /\ Fairness

-----------------------------------------------------------------------------
\* What a test may do with a driver.  A domain is a sequence of its parts.
PageOf(domain) == [scheme |-> "http", address |-> domain, prefix |-> <<>>]

SomeArguments ==
  LET plain == [backend |-> "requests", root_url |-> None, scheme |-> None, domain |-> <<"org">>, prefix |-> None,
                origin |-> None, referer |-> None, address |-> None, headers |-> <<>>,
                verify |-> FALSE, mode |-> None]
      root  == [scheme |-> "https", domain |-> <<"com">>, prefix |-> <<"v1">>]
  IN  {[plain EXCEPT !.headers = "Authorization" :> "all", !.verify = TRUE, !.address = <<"local">>],
       [plain EXCEPT !.domain = None, !.origin = "here"],
       [plain EXCEPT !.backend = "django", !.domain = None, !.verify = TRUE, !.mode = "raise",
                     !.prefix = <<"v2">>, !.headers = "Referer" :> PageOf(<<"top">>)],
       [plain EXCEPT !.root_url = root, !.address = <<"local">>, !.referer = PageOf(<<"there">>),
                     !.mode = "neither", !.verify = TRUE],
       [plain EXCEPT !.root_url = root, !.prefix = <<"v2">>]}

SomeSwitches ==
  {[by |-> "prefix", value |-> None],
   [by |-> "append_prefix", value |-> <<"x">>],
   [by |-> "subdomain", value |-> <<"a">>]}

SomeCalls ==
  LET plain == [referrer |-> FALSE, headers |-> <<>>, badly |-> "no"]
  IN  {plain, [plain EXCEPT !.referrer = TRUE],
       [plain EXCEPT !.headers = "Referer" :> PageOf(<<"mine">>), !.referrer = TRUE],
       [plain EXCEPT !.badly = "body"]}

LocalHost == <<"localhost">>

\* What a command may be called with.
SomeOptions ==
  LET plain == [action |-> None, single |-> FALSE, force |-> FALSE, quiet |-> FALSE,
                ignore_existing |-> FALSE, refresh |-> FALSE]
  IN  {plain, [plain EXCEPT !.action = "delete", !.single = TRUE, !.refresh = TRUE, !.quiet = TRUE],
       [plain EXCEPT !.action = "status"]}
      \cup [action : {"rebuild"}, single : {FALSE}, force : BOOLEAN, quiet : BOOLEAN,
            ignore_existing : {FALSE}, refresh : {FALSE}]
      \cup [action : {"create"}, single : {FALSE}, force : BOOLEAN, quiet : BOOLEAN,
            ignore_existing : BOOLEAN, refresh : {FALSE}]
      \cup [action : {"populate", "delete"}, single : {FALSE}, force : {FALSE}, quiet : {FALSE},
            ignore_existing : {FALSE}, refresh : {TRUE}]

-----------------------------------------------------------------------------
\* HttpDriver: the settings are what the open blocks say, but for those that an
\* exception left astray.
BlocksInForce == Driver!BlocksInForce

\* HttpDriver: a Referer that was not given is the URL of the answered request before.
RefererOfLatest == Driver!RefererOfLatest

\* VarnishSupervisor: each restart goes back to a SIGHUP of its own.
RestartsAreAsked == Varnish!RestartsAreAsked

\* VarnishSupervisor: a stop that comes while it waits ends it, unless a SIGHUP follows.
StopEnds == Varnish!StopEnds

\* VarnishSupervisor: a SIGHUP that comes while it waits starts a new service.
ReloadStarts == Varnish!ReloadStarts
=============================================================================
