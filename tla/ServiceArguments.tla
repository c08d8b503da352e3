-------------------------- MODULE ServiceArguments --------------------------
(***************************************************************************)
(* service-arguments: a container's start (`service-arguments process`) or *)
(* the import of Django's settings (Service.explode), and what one start   *)
(* leaves behind for the next.                                             *)
(*                                                                         *)
(* All services are declared first; then, service after service, every     *)
(* argument is resolved: the environment, the values read from env files,  *)
(* the default, which may refer to another argument, in this order, each   *)
(* result kept; a WaitForPort that is set waits for its host.  Then the    *)
(* initializers run, which may change the environment, and the templates   *)
(* are written one by one.  Any exception ends the process there.  It may  *)
(* be started again, in another environment (varnishreargument).           *)
(*                                                                         *)
(* Abstractions: an output is the service and the values it was rendered   *)
(* with; postprocessors, which add variables, are left out.  Recursion is  *)
(* a stack no deeper than MaxDepth, the interpreter's limit.               *)
(***************************************************************************)
EXTENDS ArgumentTypes

CONSTANTS
  Names,     \* names of arguments
  Setups,    \* sequences of services that may be installed, see Service
  Environs,  \* what a start may find: [environ, files]
  Targets,   \* paths of the written files
  Hosts,     \* addresses that are waited for
  HostIn,    \* the address in a value, for the values that have one
  Patience,  \* tries until the timeout
  MaxDepth,  \* the interpreter's recursion limit
  None,
  MaxStarts, \* bound: starts
  MaxFlips,  \* bound: ports that open or close
  MaxFaults  \* bound: changes by initializers, and templates that do not render

Args(s) == {s.args[i] : i \in DOMAIN s.args}
SchemeOf(s, n) == Normalize(s.specs[n])

\* host: the argument whose host a WaitForPort is for; wait: the flag and the
\* host of the wait that ends main/settings.py.
Service(s) ==
  /\ s.args \in Seq(Names)
  /\ DOMAIN s.specs = Args(s) /\ \A n \in Args(s) : IsSpec(s.specs[n])
  /\ \A n \in Args(s) : SchemeOf(s, n) # Refused /\ SchemeOf(s, n).default.kind = "ref" =>
                         SchemeOf(s, n).default.name \in Names
  /\ DOMAIN s.host = {n \in Args(s) : SchemeOf(s, n).type = "wait"}
  /\ \A n \in DOMAIN s.host : s.host[n] \in Names
  /\ s.targets \in Seq(Targets)
  /\ s.wait \in [flag : Names, host : Names] \cup {None}

Values == [Names -> Text \cup {None}]

ASSUME ConstantsAssumption ==
  /\ IsFiniteSet(Names)
  /\ \A setup \in Setups :
       IsList(setup) /\ Len(setup) > 0 /\ \A i \in DOMAIN setup : Service(setup[i])
  /\ \A e \in Environs : e.environ \in Values /\ e.files \in Values
  /\ \A v \in DOMAIN HostIn : HostIn[v] \in Hosts
  /\ None \notin {Bad, Nothing, <<"bool", TRUE>>} \cup [flag : Names, host : Names]
  /\ {Patience, MaxDepth, MaxStarts, MaxFlips, MaxFaults} \subseteq Nat /\ MaxDepth > 0

VARIABLES
  services,     \* the setup
  pc,
  at, next,     \* the service at hand, and its argument or template
  stack,        \* arguments under resolution, each for the one before
  environ, files,  \* os.environ and _read_values
  memo,         \* _result_context of each service
  left,         \* tries left of a wait
  open,         \* hosts whose port accepts connections
  outputs,      \* the written files
  base,         \* ghost: the environment each service was resolved in
  answered,     \* ghost: hosts that this start connected to
  starts, flips, faults  \* the bounds' counters

counts == <<starts, flips, faults>>
vars == <<services, pc, at, next, stack, environ, files, memo, left, open, outputs,
          base, answered, counts>>

Here == services[at]

Unresolved == [n \in Names |-> None]

TypeOK ==
  /\ services \in Setups
  /\ pc \in {"off", "declare", "resolve", "wait", "initialize", "render", "last wait",
            "ended", "failed"}
  /\ at \in DOMAIN services
  /\ next \in 1 .. Len(Here.args) + Len(Here.targets) + 1
  /\ stack \in Seq(Names) /\ Len(stack) <= MaxDepth
  /\ environ \in Values /\ files \in Values
  /\ DOMAIN memo = DOMAIN services /\ base \in [DOMAIN services -> Values]
  /\ \A i \in DOMAIN memo : DOMAIN memo[i] = Names /\ \A n \in Names : memo[i][n] # Bad
  /\ \A n \in Names \ Args(Here) : memo[at][n] = None
  /\ left \in 0 .. Patience
  /\ open \subseteq Hosts /\ answered \subseteq Hosts
  /\ DOMAIN outputs = Targets
  /\ starts \in 0 .. MaxStarts /\ flips \in 0 .. MaxFlips /\ faults \in 0 .. MaxFaults

-----------------------------------------------------------------------------
\* A process: nothing declared, nothing resolved.
Fresh(setup, e) ==
  /\ pc' = "declare" /\ at' = 1 /\ next' = 1 /\ stack' = <<>>
  /\ environ' = e.environ /\ files' = e.files
  /\ memo' = [i \in DOMAIN setup |-> Unresolved]
  /\ base' = [i \in DOMAIN setup |-> e.environ]
  /\ left' = 0 /\ answered' = {}

Init ==
  /\ services \in Setups
  /\ pc = "off" /\ at = 1 /\ next = 1 /\ stack = <<>>
  /\ environ = Unresolved /\ files = Unresolved
  /\ base = [i \in DOMAIN services |-> Unresolved]
  /\ memo = [i \in DOMAIN services |-> Unresolved]
  /\ left = 0 /\ answered = {}
  /\ open = {}
  /\ outputs = [x \in Targets |-> None]
  /\ starts = 0 /\ flips = 0 /\ faults = 0

\* The process starts, for the first time or again.
Start ==
  /\ pc \in {"off", "ended", "failed"}
  /\ starts < MaxStarts
  /\ starts' = starts + 1
  /\ \E e \in Environs : Fresh(services, e)
  /\ UNCHANGED <<services, open, outputs, flips, faults>>

\* The process ends with an exception.
Fail ==
  /\ pc' = "failed"
  /\ UNCHANGED <<at, next, stack, environ, memo, left, outputs, base, answered, faults>>

-----------------------------------------------------------------------------
(* Declarations                                                            *)

\* append_to_dict refuses a name or a target that is there already.
NamesTwice(s) == \E i, j \in DOMAIN s.args : i # j /\ s.args[i] = s.args[j]

\* Variant: services may share a target.
NoTargetTaken(i) == FALSE

TargetTaken(i) ==
  \E j \in 1 .. i - 1 : \E x \in DOMAIN services[i].targets, y \in DOMAIN services[j].targets :
    services[i].targets[x] = services[j].targets[y]

Declarable(i) ==
  LET s == services[i]
  IN  /\ ~NamesTwice(s)
      /\ \A n \in Args(s) : SchemeOf(s, n) # Refused
      /\ ~TargetTaken(i)

\* Context.__init__, or the import of the settings class.
Declare ==
  /\ pc = "declare"
  /\ IF \A i \in DOMAIN services : Declarable(i)
     THEN /\ pc' = "resolve"
          /\ UNCHANGED <<at, next, stack, environ, memo, left, outputs, base, answered, faults>>
     ELSE Fail

-----------------------------------------------------------------------------
(* Arguments                                                               *)

Resolving == stack[Len(stack)]

Resolved(n) == memo[at][n] # None

\* The result is kept, and handed to whoever asked for it.
Keep(value) ==
  /\ memo' = [memo EXCEPT ![at][Resolving] = value]
  /\ stack' = SubSeq(stack, 1, Len(stack) - 1)
  /\ pc' = "resolve"
  /\ UNCHANGED <<at, next, environ, left, outputs, base, faults>>

\* Variant: an argument that is under resolution is not asked for again.
AskForOnce(n) ==
  /\ stack' = IF \E i \in DOMAIN stack : stack[i] = n THEN stack ELSE Append(stack, n)
  /\ UNCHANGED <<pc, at, next, environ, memo, left, outputs, base, answered, faults>>

\* get_result of another argument, or RecursionError.
AskFor(n) ==
  IF Len(stack) = MaxDepth THEN Fail
  ELSE /\ stack' = Append(stack, n)
       /\ UNCHANGED <<pc, at, next, environ, memo, left, outputs, base, answered, faults>>

\* get_context and explode: the arguments in order.
NextArgument ==
  /\ pc = "resolve" /\ stack = <<>>
  /\ next <= Len(Here.args)
  /\ IF Resolved(Here.args[next])
     THEN next' = next + 1 /\ UNCHANGED stack
     ELSE stack' = <<Here.args[next]>> /\ UNCHANGED next
  /\ UNCHANGED <<pc, at, environ, memo, left, outputs, base, answered, faults>>

ArgumentsDone ==
  /\ pc = "resolve" /\ stack = <<>>
  /\ next > Len(Here.args)
  /\ pc' = IF Here.wait = None THEN "initialize" ELSE "last wait"
  /\ left' = IF Here.wait = None THEN 0 ELSE Patience
  /\ UNCHANGED <<at, next, stack, environ, memo, outputs, base, answered, faults>>

\* Variant: the env files come first.
RawFileFirst(n) == IF files[n] # None THEN files[n] ELSE environ[n]

\* get_raw_value: None when neither has it.
Raw(n) == IF environ[n] # None THEN environ[n] ELSE files[n]

\* The host of a WaitForPort: its argument resolved first, then tried.
AskHost ==
  LET host == Here.host[Resolving]
  IN  IF host \notin Args(Here) \/ ~Resolved(host) THEN AskFor(host)
      ELSE IF memo[at][host] \notin DOMAIN HostIn THEN Fail
      ELSE /\ pc' = "wait"
           /\ left' = Patience
           /\ UNCHANGED <<at, next, stack, environ, memo, outputs, base, answered, faults>>

\* Set in the environment or in a file.
FromText ==
  /\ pc = "resolve" /\ stack # <<>>
  /\ Resolving \in Args(Here) /\ Raw(Resolving) # None
  /\ LET scheme == SchemeOf(Here, Resolving)
         value  == Parse(scheme, Raw(Resolving))
     IN  \/ value = Bad /\ Fail
         \/ value = <<"bool", TRUE>> /\ scheme.type = "wait" /\ AskHost
         \/ value # Bad /\ ~(value = <<"bool", TRUE>> /\ scheme.type = "wait")
            /\ Keep(value) /\ UNCHANGED answered

\* Not set.  A default of a WaitForPort is not waited for: one given as a text
\* finds no provider to ask for the host.
FromDefault ==
  /\ pc = "resolve" /\ stack # <<>>
  /\ Resolving \in Args(Here) /\ Raw(Resolving) = None
  /\ LET scheme == SchemeOf(Here, Resolving)
         value  == OwnDefault(scheme)
     IN  \/ /\ scheme.default.kind = "ref"
            /\ IF scheme.default.name \in Args(Here) /\ Resolved(scheme.default.name)
               THEN Keep(memo[at][scheme.default.name]) /\ UNCHANGED answered
               ELSE AskFor(scheme.default.name)
         \/ /\ scheme.default.kind # "ref"
            /\ \/ value = Bad
               \/ value = <<"bool", TRUE>> /\ scheme.type = "wait" /\ scheme.default.kind = "raw"
            /\ Fail
         \/ /\ scheme.default.kind # "ref" /\ value # Bad
            /\ ~(value = <<"bool", TRUE>> /\ scheme.type = "wait" /\ scheme.default.kind = "raw")
            /\ Keep(value) /\ UNCHANGED answered

\* A ref, or the host of a WaitForPort, names no argument of the service.
Unknown ==
  /\ pc = "resolve" /\ stack # <<>>
  /\ Resolving \notin Args(Here)
  /\ Fail

\* Variant: the wait gives up without an error.
TryGivingUp ==
  /\ pc = "wait"
  /\ LET h == HostIn[memo[at][Here.host[Resolving]]]
     IN  IF left = 0 THEN Keep(<<"bool", TRUE>>) /\ UNCHANGED answered
         ELSE IF h \in open THEN Keep(<<"bool", TRUE>>) /\ answered' = answered \cup {h}
         ELSE /\ left' = left - 1
              /\ UNCHANGED <<pc, at, next, stack, environ, memo, outputs, base, answered, faults>>

\* wait_for_port: one try, while there is time.
Try ==
  /\ pc = "wait"
  /\ LET h == HostIn[memo[at][Here.host[Resolving]]]
     IN  IF left = 0 THEN Fail
         ELSE IF h \in open THEN Keep(<<"bool", TRUE>>) /\ answered' = answered \cup {h}
         ELSE /\ left' = left - 1
              /\ UNCHANGED <<pc, at, next, stack, environ, memo, outputs, base, answered, faults>>

-----------------------------------------------------------------------------
(* After the arguments                                                     *)

\* The end of main/settings.py.
LastWait ==
  /\ pc = "last wait"
  /\ LET h == memo[at][Here.wait.host]
     IN  IF memo[at][Here.wait.flag] # <<"bool", TRUE>>
         THEN /\ pc' = "initialize"
              /\ UNCHANGED <<at, next, stack, environ, memo, left, outputs, base, answered, faults>>
         ELSE IF left = 0 \/ h \notin DOMAIN HostIn THEN Fail
         ELSE IF HostIn[h] \in open
         THEN /\ pc' = "initialize" /\ answered' = answered \cup {HostIn[h]}
              /\ UNCHANGED <<at, next, stack, environ, memo, left, outputs, base, faults>>
         ELSE /\ left' = left - 1
              /\ UNCHANGED <<pc, at, next, stack, environ, memo, outputs, base, answered, faults>>

\* The initializers: most leave the environment alone.
Initialize ==
  /\ pc = "initialize"
  /\ pc' = "render" /\ next' = 1
  /\ \/ UNCHANGED <<environ, faults>>
     \/ /\ faults < MaxFaults
        /\ faults' = faults + 1
        /\ \E e \in Environs : environ' = e.environ
  /\ UNCHANGED <<at, stack, memo, left, outputs, base, answered>>

\* The next template.
Render ==
  /\ pc = "render"
  /\ next <= Len(Here.targets)
  /\ outputs' = [outputs EXCEPT ![Here.targets[next]] =
                   [service |-> at, values |-> memo[at], start |-> starts]]
  /\ next' = next + 1
  /\ UNCHANGED <<pc, at, stack, environ, memo, left, base, answered, faults>>

\* A variable that no one set, a directory that is not writable.
RenderFails ==
  /\ pc = "render"
  /\ faults < MaxFaults
  /\ faults' = faults + 1
  /\ pc' = "failed"
  /\ UNCHANGED <<at, next, stack, environ, memo, left, outputs, base, answered>>

NextService ==
  /\ pc = "render"
  /\ next > Len(Here.targets)
  /\ IF at = Len(services) THEN pc' = "ended" /\ UNCHANGED <<at, next, base>>
     ELSE /\ pc' = "resolve" /\ at' = at + 1 /\ next' = 1
          /\ base' = [base EXCEPT ![at + 1] = environ]
  /\ UNCHANGED <<stack, environ, memo, left, outputs, answered, faults>>

\* A port opens or closes.
Flip(h) ==
  /\ flips < MaxFlips
  /\ flips' = flips + 1
  /\ open' = IF h \in open THEN open \ {h} ELSE open \cup {h}
  /\ UNCHANGED <<services, pc, at, next, stack, environ, files, memo, left, outputs,
                 base, answered, starts, faults>>

-----------------------------------------------------------------------------
Step ==
  /\ \/ Declare \/ NextArgument \/ ArgumentsDone
     \/ FromText \/ FromDefault \/ Unknown \/ Try
     \/ LastWait \/ Initialize \/ Render \/ NextService
  /\ UNCHANGED <<services, files, open, starts, flips>>

Next ==
  \/ Start \/ Step
  \/ RenderFails /\ UNCHANGED <<services, files, open, starts, flips>>
  \/ \E h \in Hosts : Flip(h)

Spec     == Init /\ [][Next]_vars
FairSpec == Spec /\ WF_vars(Step)

-----------------------------------------------------------------------------
(* Properties                                                              *)

\* Set, for service i, in the environment it was resolved in.
Given(i, n) == IF base[i][n] # None THEN base[i][n] ELSE files[n]

AllGiven(i) == [n \in Names |-> Given(i, n)]

\* Argument n of service s is neither set nor has a default of its own.
Refers(s, given, n) ==
  n \in Args(s) /\ given[n] = None /\ SchemeOf(s, n).default.kind = "ref"

\* What an argument is worth by itself.
OwnWorth(s, given, n) ==
  IF n \notin Args(s) \/ Refers(s, given, n) THEN Bad
  ELSE IF given[n] # None THEN Parse(SchemeOf(s, n), given[n])
  ELSE OwnDefault(SchemeOf(s, n))

\* What the arguments are worth, without steps, through at most d references.
Through(s, given) ==
  LET w[d \in 0 .. Cardinality(Names)] ==
        [n \in Names |-> IF d > 0 /\ Refers(s, given, n)
                         THEN w[d - 1][SchemeOf(s, n).default.name]
                         ELSE OwnWorth(s, given, n)]
  IN  w

Worth(i) == Through(services[i], AllGiven(i))[Cardinality(Names)]

\* Whatever is kept is what the argument is worth in the environment of its
\* service: in whatever order references were followed, however often an argument
\* was asked for, and whatever initializers of other services did.
MatchesReference ==
  \A i \in DOMAIN services : \A n \in Names :
    memo[i][n] # None => memo[i][n] = Worth(i)[n]

\* An argument that is set has the type it is declared with.
GivenHasType ==
  \A i \in DOMAIN services : \A n \in Args(services[i]) :
    memo[i][n] # None /\ Given(i, n) # None => HasType(SchemeOf(services[i], n), memo[i][n])

\* A start that ends well leaves nothing of earlier ones: every service has its
\* own targets, rendered with its own values.
EndedIsCurrent ==
  pc = "ended" =>
    \A i \in DOMAIN services : \A k \in DOMAIN services[i].targets :
      outputs[services[i].targets[k]] = [service |-> i, values |-> memo[i], start |-> starts]

\* Whoever sets a WaitForPort, or the flag of the settings, goes on only after a
\* connection.
WaitedForHost ==
  /\ \A n \in DOMAIN Here.host :
       memo[at][n] = <<"bool", TRUE>> /\ Given(at, n) # None =>
         HostIn[memo[at][Here.host[n]]] \in answered
  /\ Here.wait # None /\ pc \in {"initialize", "render", "ended"}
        /\ memo[at][Here.wait.flag] = <<"bool", TRUE>> =>
       HostIn[memo[at][Here.wait.host]] \in answered

\* Every start ends, in success or with an exception: references in a circle and
\* hosts that never answer included.
StartEnds == pc = "declare" ~> pc \in {"ended", "failed"}
=============================================================================
