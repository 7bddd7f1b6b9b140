----------------------------- MODULE CommandLine -----------------------------
(***************************************************************************)
(* vncdotool/command.py: one run of vncdo, from its arguments to its exit  *)
(* status.                                                                 *)
(*                                                                         *)
(* The actions on the command line become callbacks of factory.deferred,   *)
(* which runs them in order once the connection is made; the last two      *)
(* close the connection and report success.  Failures reach the factory    *)
(* from four sides at once: the chain's errback, the client's protocol and *)
(* authentication hooks, the transport, and the --timeout timer.  The      *)
(* first outcome sets reactor.exit_status, and the reactor stops 0.1       *)
(* seconds later; until then everything else goes on.                      *)
(*                                                                         *)
(* All of that is one thread, and two things hold it up: the password      *)
(* prompt, for as long as the user leaves it, and an empty reason in a     *)
(* refusal, which the client reads for ever.                               *)
(***************************************************************************)
EXTENDS Integers, Sequences

CONSTANTS
  Words,           \* actions on the command line, a subset of AllWords
  MaxWords,        \* bound: actions on the command line
  Delays,          \* whether --delay is given, --timeout, and --password:
  Timeouts,        \* subsets of BOOLEAN
  Passwords

\* An action done at once (key), one that waits for the screen (capture, expect),
\* one whose file cannot be used, an unknown one, one with a missing or bad
\* operand.  The pause action is the callback that --delay adds.
AllWords == {"now", "later", "failing", "unknown", "malformed"}

ASSUME CommandAssumption ==
  /\ Words \subseteq AllWords /\ MaxWords \in Nat
  /\ Delays \subseteq BOOLEAN /\ Timeouts \subseteq BOOLEAN /\ Passwords \subseteq BOOLEAN

VARIABLES
  delay,         \* --delay is not 0
  password,      \* factory.password is not None
  args,          \* words not yet parsed
  chain,         \* callbacks of factory.deferred not yet run
  chainState,    \* "unfired", "ready", "waiting", "pausing", "ended"
  completed,     \* actions completed
  wanted,        \* actions asked for
  connection,    \* the client's transport
  exitStatus,    \* reactor.exit_status
  timer,         \* the --timeout timer
  reactor,       \* "free", "prompting" for the password, or "stuck" in a loop
  process,       \* "parsing", "running", "stopping" (0.1 s to go) or "exited"
  status,        \* what the process exited with
  cause          \* what ended the run first

vars == <<delay, args, chain, chainState, completed, wanted, connection, exitStatus,
          timer, process, status, cause, password, reactor>>
commands == <<delay, args, wanted, password, reactor>>

\* docs/usage.rst, Exit Status.  Two more things end a run: an operand that is
\* missing or bad ("malformed"), and a decoder that raises what _pumpBlock does
\* not catch ("escaped").
Documented ==
  [completed |-> "SUCCESS", interrupted |-> "ERROR", usage |-> "USAGE",
   authentication |-> "AUTHENTICATION_FAILED", unreachable |-> "CONNECTION_FAILED",
   closed |-> "CONNECTION_LOST", misunderstood |-> "PROTOCOL_ERROR",
   failed |-> "COMMAND_FAILED", late |-> "TIMEOUT"]

-----------------------------------------------------------------------------
Init ==
  /\ \E n \in 1..MaxWords : args \in [1..n -> Words]
  /\ wanted = Len(args) /\ delay \in Delays /\ password \in Passwords
  /\ chain = <<>> /\ chainState = "unfired" /\ completed = 0
  /\ connection = "none" /\ exitStatus = "None" /\ timer = "off"
  /\ process = "parsing" /\ status = "None" /\ cause = "nothing" /\ reactor = "free"

-----------------------------------------------------------------------------
(* build_command_list and build_tool.                                      *)

\* One round of the loop: the action, and a pause if another one follows.
ParseAction ==
  /\ process = "parsing" /\ args # <<>> /\ Head(args) \in {"now", "later", "failing"}
  /\ chain' = Append(chain, Head(args))
                \o IF delay /\ Tail(args) # <<>> THEN <<"pause">> ELSE <<>>
  /\ args' = Tail(args)
  /\ UNCHANGED <<delay, chainState, completed, wanted, connection, exitStatus, timer,
                 process, status, cause, password, reactor>>

\* CommandParseError is caught; IndexError and ValueError end the process.
ParseError ==
  /\ process = "parsing" /\ args # <<>>
  /\ \/ Head(args) = "unknown" /\ status' = "USAGE" /\ cause' = "usage"
     \/ Head(args) = "malformed" /\ status' = "ERROR" /\ cause' = "malformed"
  /\ process' = "exited"
  /\ UNCHANGED <<commands, chain, chainState, completed, connection, exitStatus, timer>>

\* build_tool connects and completes the chain; vncdo arms the timer.
BuildTool ==
  /\ process = "parsing" /\ args = <<>>
  /\ chain' = chain \o <<"loseConnection", "done">>
  /\ connection' = "connecting" /\ process' = "running"
  /\ \E t \in Timeouts : timer' = IF t THEN "armed" ELSE "off"
  /\ UNCHANGED <<commands, chainState, completed, exitStatus, status, cause>>

-----------------------------------------------------------------------------
(* The outcome.                                                            *)

\* reactor.run has not returned, and the reactor gets to its next event.
Alive == process \in {"running", "stopping"}
Running == Alive /\ reactor = "free"

\* Mutant of Done: the last outcome wins.
DoneLastWins(why, code) ==
  /\ exitStatus' = code /\ process' = "stopping"
  /\ cause' = IF exitStatus = "None" THEN why ELSE cause

\* factory.done(code), through factory.error for a failure: the first outcome
\* wins.  why is what happened, code the status chosen for it.
Done(why, code) ==
  IF exitStatus # "None"
    THEN UNCHANGED <<exitStatus, process, cause>>
    ELSE exitStatus' = code /\ process' = "stopping" /\ cause' = why

\* reactor.stop, then sys.exit.
Stop ==
  /\ Running /\ process = "stopping" /\ process' = "exited" /\ status' = exitStatus
  /\ UNCHANGED <<commands, chain, chainState, completed, connection, exitStatus, timer, cause>>

\* Twisted's SIGINT handler asks the reactor to stop, with no outcome decided.
Interrupt ==
  /\ Running /\ process = "running" /\ process' = "exited" /\ status' = "ERROR"
  /\ cause' = "interrupted"
  /\ UNCHANGED <<commands, chain, chainState, completed, connection, exitStatus, timer>>

\* Mutant of TimerFires: a timeout is only noted while an action waits.
TimerFiresBetweenActions ==
  /\ Running /\ timer = "armed" /\ timer' = "fired"
  /\ IF chainState = "waiting"
       THEN UNCHANGED <<exitStatus, process, cause>> ELSE Done("late", "TIMEOUT")
  /\ UNCHANGED <<commands, chain, chainState, completed, connection, status>>

\* reactor.callLater(options.timeout, factory.error, failure)
TimerFires ==
  /\ Running /\ timer = "armed" /\ timer' = "fired"
  /\ Done("late", "TIMEOUT")
  /\ UNCHANGED <<commands, chain, chainState, completed, connection, status>>

-----------------------------------------------------------------------------
(* The connection.                                                         *)

Connection == UNCHANGED <<commands, chain, completed, timer, status>>

ConnectFails ==
  /\ Running /\ connection = "connecting" /\ connection' = "lost"
  /\ Done("unreachable", "CONNECTION_FAILED")
  /\ UNCHANGED chainState /\ Connection

TransportConnected ==
  /\ Running /\ connection = "connecting" /\ connection' = "handshake"
  /\ UNCHANGED <<chainState, exitStatus, process, cause>> /\ Connection

\* vncConnectionMade: factory.deferred fires.
HandshakeDone ==
  /\ Running /\ connection = "handshake" /\ connection' = "open"
  /\ chainState' = "ready"
  /\ UNCHANGED <<exitStatus, process, cause>> /\ Connection

\* vncAuthFailed, then loseConnection.
AuthenticationFails ==
  /\ Running /\ connection = "handshake" /\ connection' = "closing"
  /\ Done("authentication", "AUTHENTICATION_FAILED")
  /\ UNCHANGED chainState /\ Connection

\* A SecurityResult that _handleVNCAuthResult does not know: it closes, and
\* reports nothing.
UnknownResult ==
  /\ Running /\ connection = "handshake" /\ connection' = "closing"
  /\ UNCHANGED <<chainState, exitStatus, process, cause>> /\ Connection

\* vncRequestPassword: getpass holds the reactor
AskPassword ==
  /\ Running /\ connection = "handshake" /\ ~password /\ reactor' = "prompting"
  /\ UNCHANGED <<delay, args, wanted, password, connection>>
  /\ UNCHANGED <<chain, chainState, completed, exitStatus, timer, process, status, cause>>

\* until the user enters a password, or ends the input: EOFError leaves
\* dataReceived.
PromptEnds ==
  /\ Alive /\ reactor = "prompting" /\ reactor' = "free"
  /\ \/ password' = TRUE /\ UNCHANGED <<connection, exitStatus, process, cause>>
     \/ password' = password /\ connection' = "lost" /\ Done("escaped", "CONNECTION_LOST")
  /\ UNCHANGED <<delay, args, wanted, chain, chainState, completed, timer, status>>

\* A refusal with an empty reason: it is reported, and then read again and
\* again, as _handleExpected waits for no byte.
EmptyReason ==
  /\ Running /\ connection = "handshake" /\ connection' = "closing" /\ reactor' = "stuck"
  /\ \/ Done("misunderstood", "PROTOCOL_ERROR") \/ Done("authentication", "AUTHENTICATION_FAILED")
  /\ UNCHANGED <<delay, args, wanted, password, chain, chainState, completed, timer, status>>

\* vncProtocolError, then loseConnection.
ProtocolFails ==
  /\ Running /\ connection \in {"handshake", "open"} /\ connection' = "closing"
  /\ Done("misunderstood", "PROTOCOL_ERROR")
  /\ UNCHANGED chainState /\ Connection

\* Mutant of ConnectionLost: the factory is not told.
ConnectionLostUnheard ==
  /\ Running /\ connection \in {"handshake", "open", "closing"} /\ connection' = "lost"
  /\ UNCHANGED <<exitStatus, process, cause>>
  /\ UNCHANGED chainState /\ Connection

\* clientConnectionLost: the transport closed, whoever closed it.
ConnectionLost ==
  /\ Running /\ connection \in {"handshake", "open", "closing"} /\ connection' = "lost"
  /\ Done("closed", "CONNECTION_LOST")
  /\ UNCHANGED chainState /\ Connection

\* An exception leaves dataReceived: clientConnectionLost again, with a reason
\* that is in no row of EXIT_STATUS_FOR_ERROR.
DecoderRaises ==
  /\ Running /\ connection \in {"handshake", "open"} /\ connection' = "lost"
  /\ Done("escaped", "CONNECTION_LOST")
  /\ UNCHANGED chainState /\ Connection

-----------------------------------------------------------------------------
(* The chain of factory.deferred.                                          *)

Due(action) == Running /\ chainState = "ready" /\ chain # <<>> /\ Head(chain) \in action

\* An action done at once, or the first half of one that waits.
RunAction ==
  /\ Due({"now", "later", "pause"}) /\ chain' = Tail(chain)
  /\ \/ Head(chain) = "now" /\ completed' = completed + 1 /\ UNCHANGED chainState
     \/ /\ Head(chain) \in {"later", "pause"} /\ UNCHANGED completed
        /\ chainState' = IF Head(chain) = "later" THEN "waiting" ELSE "pausing"
  /\ UNCHANGED <<commands, connection, exitStatus, timer, process, status, cause>>

\* The screen update arrived; a pause is over whether connected or not.
ActionCompletes ==
  /\ Running /\ chainState' = "ready"
  /\ \/ chainState = "waiting" /\ connection = "open" /\ completed' = completed + 1
     \/ chainState = "pausing" /\ UNCHANGED completed
  /\ UNCHANGED <<commands, chain, connection, exitStatus, timer, process, status, cause>>

\* Mutant of ActionFails: the errback swallows the failure and the chain goes on.
ActionFailsGoesOn ==
  /\ Due({"failing"}) /\ chain' = Tail(chain)
  /\ UNCHANGED <<commands, chainState, completed, connection, exitStatus, timer,
                 process, status, cause>>

\* The action raises, at once or with the screen it waited for (_captureSave
\* cannot write): the rest of the chain is passed by, down to its errback.
ActionFails ==
  /\ Due({"failing"}) \/ (Running /\ chainState = "waiting" /\ connection = "open")
  /\ chain' = <<>> /\ chainState' = "ended"
  /\ Done("failed", "COMMAND_FAILED")
  /\ UNCHANGED <<commands, completed, connection, timer, status>>

\* The last two callbacks, run in one go.
Finish ==
  /\ Due({"loseConnection"}) /\ chain' = <<>> /\ chainState' = "ended"
  /\ connection' = IF connection = "open" THEN "closing" ELSE connection
  /\ Done("completed", "SUCCESS")
  /\ UNCHANGED <<commands, completed, timer, status>>

-----------------------------------------------------------------------------
Chain == RunAction \/ ActionCompletes \/ ActionFails \/ Finish

Next ==
  \/ ParseAction \/ ParseError \/ BuildTool
  \/ Stop \/ Interrupt \/ TimerFires
  \/ ConnectFails \/ TransportConnected \/ HandshakeDone
  \/ AuthenticationFails \/ UnknownResult \/ ProtocolFails \/ ConnectionLost \/ DecoderRaises
  \/ AskPassword \/ PromptEnds \/ EmptyReason
  \/ Chain

\* A free reactor gets to its timers and to the actions that are due, a closing
\* transport closes, and pauses end.  Nothing is promised of the server, nor
\* that the user answers the prompt.
Spec ==
  /\ Init /\ [][Next]_vars
  /\ WF_vars(ParseAction \/ ParseError \/ BuildTool)
  /\ WF_vars(Stop) /\ WF_vars(TimerFires)
  /\ WF_vars(ConnectionLost /\ connection = "closing")
  /\ WF_vars(RunAction \/ (ActionFails /\ chainState = "ready") \/ Finish)
  /\ WF_vars(ActionCompletes /\ chainState = "pausing")

-----------------------------------------------------------------------------
Statuses == {"SUCCESS", "ERROR", "USAGE", "AUTHENTICATION_FAILED", "CONNECTION_FAILED",
             "CONNECTION_LOST", "PROTOCOL_ERROR", "COMMAND_FAILED", "TIMEOUT"}

TypeOK ==
  /\ delay \in BOOLEAN /\ args \in Seq(AllWords)
  /\ chain \in Seq(AllWords \cup {"pause", "loseConnection", "done"})
  /\ chainState \in {"unfired", "ready", "waiting", "pausing", "ended"}
  /\ completed \in Nat /\ wanted \in Nat
  /\ connection \in {"none", "connecting", "handshake", "open", "closing", "lost"}
  /\ exitStatus \in Statuses \cup {"None"}
  /\ timer \in {"off", "armed", "fired"}
  /\ process \in {"parsing", "running", "stopping", "exited"}
  /\ status \in Statuses \cup {"None"}
  /\ cause \in {"nothing", "malformed", "escaped"} \cup DOMAIN Documented
  /\ password \in BOOLEAN /\ reactor \in {"free", "prompting", "stuck"}

\* vncdo exits 0 only if every action on the command line completed.
SuccessMeansCompleted == status = "SUCCESS" => completed = wanted

\* The exit status is the documented one of what ended the run first, if that is
\* documented, whatever else failed in the last tenth of a second.
StatusNamesCause ==
  process = "exited" /\ cause \in DOMAIN Documented => status = Documented[cause]

\* With --timeout, vncdo exits whatever the server does or does not do, unless
\* the reactor is held up for good: by a prompt that is never answered, or by
\* an empty reason, which no timer interrupts.
TimeoutEndsRun ==
  <>[](reactor # "free") \/ (timer = "armed" ~> process = "exited")

\* Without it, vncdo still exits once it knows that the connection is gone, even
\* in the middle of an action that will never complete.
LossEndsRun == connection = "lost" ~> process = "exited"
=============================================================================
