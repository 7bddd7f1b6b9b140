---------------------------- MODULE ThreadedProxy ----------------------------
(***************************************************************************)
(* vncdotool/api.py: an application thread drives a client that lives in   *)
(* the reactor thread.                                                     *)
(*                                                                         *)
(* A call crosses twice.  The application hands the reactor, through       *)
(* callFromThread, a pair of callbacks to add to factory.deferred; then it *)
(* blocks in queue.get.  The callbacks run in the reactor once the         *)
(* connection is made and every earlier call is done, and put the result   *)
(* into the queue.  The value a callback returns is the `protocol' of the  *)
(* next one: the Deferred's chain is at once the connection, the lock and  *)
(* the order of the calls.                                                 *)
(***************************************************************************)
EXTENDS Integers, Sequences

CONSTANTS
  Kinds,             \* what the methods called do, a subset of AllKinds
  MaxCalls,          \* bound: calls the application makes, disconnect included
  Timeouts,          \* whether proxy.timeout is not None: the cases to consider
  ConnectionDrops    \* whether the connection may fail or be lost, likewise

\* A method returns self at once, returns None at once, raises, or returns a
\* Deferred that a later update of the screen fires ("async") or a timer, as
\* in pause and mouseDrag ("timed").
AllKinds == {"self", "none", "raises", "async", "timed"}

ASSUME ProxyAssumption == Kinds \subseteq AllKinds /\ MaxCalls \in Nat
ASSUME SettingAssumption == Timeouts \subseteq BOOLEAN /\ ConnectionDrops \subseteq BOOLEAN

VARIABLES
  timeout,       \* proxy.timeout is not None
  drops,         \* the connection may fail or be lost
  app,           \* what the application thread is doing
  calls,         \* kind of each call made so far, "disconnect" for disconnect()
  fromThread,    \* calls handed to callFromThread and not yet run
  chain,         \* calls added to factory.deferred and not yet run
  running,       \* calls whose Deferred has not fired; the chain is paused
  value,         \* current result of factory.deferred
  queue,         \* ThreadedVNCClientProxy.queue
  returned,      \* what each call that returned gave the application
  ran,           \* calls whose method was invoked on the client
  connection,    \* the client's connection to the server
  onLost,        \* calls whose on_disconnected is in factory._disconnect_callbacks
  event          \* calls whose disconnect() has had its event set

appVars     == <<app, calls, returned>>
reactorVars == <<chain, running, value, ran, connection, onLost>>
setting     == <<timeout, drops>>
vars == <<setting, appVars, fromThread, queue, event, reactorVars>>

Calls == 1..MaxCalls
Nothing == [call |-> 0, is |-> "nothing"]
This == Len(calls)          \* the call the application made last

-----------------------------------------------------------------------------
\* connect() has handed factory_connect to the reactor.
Init ==
  /\ timeout \in Timeouts /\ drops \in ConnectionDrops
  /\ app = "idle" /\ calls = <<>> /\ fromThread = <<>>
  /\ chain = <<>> /\ running = {} /\ value = "unfired"
  /\ queue = <<>> /\ returned = [c \in Calls |-> Nothing] /\ ran = {}
  /\ connection = "connecting" /\ onLost = {} /\ event = {}

-----------------------------------------------------------------------------
(* The application thread.                                                 *)

\* callable_threaded_proxy up to queue.get, and disconnect up to event.wait.
Call(kind) ==
  /\ app = "idle" /\ This < MaxCalls
  /\ calls' = Append(calls, kind)
  /\ fromThread' = Append(fromThread, This + 1)
  /\ app' = IF kind = "disconnect" THEN "disconnecting" ELSE "waiting"
  /\ UNCHANGED <<returned, queue, event, reactorVars>>

\* queue.get returns the oldest result; a Failure is raised.
GetResult ==
  /\ app = "waiting" /\ queue # <<>>
  /\ returned' = [returned EXCEPT ![This] = Head(queue)]
  /\ queue' = Tail(queue) /\ app' = "idle"
  /\ UNCHANGED <<calls, fromThread, event, reactorVars>>

\* Mutant of TimeOut: what the reactor has not looked at is withdrawn.
TimeOutWithdraws ==
  /\ timeout /\ app = "waiting" /\ queue = <<>>
  /\ returned' = [returned EXCEPT ![This] = [call |-> This, is |-> "timeout"]]
  /\ app' = "idle" /\ fromThread' = <<>>
  /\ UNCHANGED <<calls, queue, event, reactorVars>>

\* queue.Empty: TimeoutError.  What was handed over stays handed over.
TimeOut ==
  /\ timeout /\ app = "waiting" /\ queue = <<>>
  /\ returned' = [returned EXCEPT ![This] = [call |-> This, is |-> "timeout"]]
  /\ app' = "idle"
  /\ UNCHANGED <<calls, fromThread, queue, event, reactorVars>>

\* event.wait returns when the event is set or the timeout is over; nothing
\* keeps the application from calling again.
Disconnected ==
  /\ app = "disconnecting" /\ (This \in event \/ timeout)
  /\ app' = "idle"
  /\ UNCHANGED <<calls, returned, fromThread, queue, event, reactorVars>>

-----------------------------------------------------------------------------
(* The reactor thread.                                                     *)

\* Every callback that can run has run: the reactor is between two events.
Quiet == chain = <<>> \/ running # {} \/ value = "unfired"

\* Mutant of RunFromThread: the callbacks go in front of those that wait.
RunFromThreadFirst ==
  /\ fromThread # <<>> /\ Quiet
  /\ chain' = <<Head(fromThread)>> \o chain /\ fromThread' = Tail(fromThread)
  /\ UNCHANGED <<appVars, queue, event, running, value, ran, connection, onLost>>

\* callFromThread's function: factory.deferred.addCallbacks(...).
RunFromThread ==
  /\ fromThread # <<>> /\ Quiet
  /\ chain' = Append(chain, Head(fromThread)) /\ fromThread' = Tail(fromThread)
  /\ UNCHANGED <<appVars, queue, event, running, value, ran, connection, onLost>>

\* Mutant of Put: the result is put by the callback and once more by the errback.
PutTwice(c, outcome, next) ==
  /\ queue' = queue \o <<[call |-> c, is |-> outcome], [call |-> c, is |-> outcome]>>
  /\ value' = next

\* Mutant of Put: result_callback returns nothing.
PutReturnsNone(c, outcome, next) ==
  queue' = Append(queue, [call |-> c, is |-> outcome]) /\ value' = "none"

\* result_callback: the result goes to the queue and down the chain.
Put(c, outcome, next) ==
  queue' = Append(queue, [call |-> c, is |-> outcome]) /\ value' = next

\* The chain's next callback is due and belongs to a method call.
Due(c) == ~Quiet /\ c = Head(chain) /\ chain' = Tail(chain)

\* errback_not_connected: the chain holds a Failure.
NotConnected ==
  \E c \in Calls :
    /\ Due(c) /\ calls[c] # "disconnect" /\ value = "failure"
    /\ Put(c, "failure", "failure")
    /\ UNCHANGED <<appVars, fromThread, event, running, ran, connection, onLost>>

\* threaded_call: maybeDeferred(method, protocol), where protocol is what the
\* previous call returned.
ThreadedCall ==
  \E c \in Calls :
    /\ Due(c) /\ calls[c] # "disconnect" /\ value # "failure"
    /\ \/ /\ value = "none"                     \* AttributeError on None
          /\ Put(c, "failure", "failure") /\ UNCHANGED <<running, ran>>
       \/ /\ value = "protocol" /\ ran' = ran \cup {c}
          /\ \/ calls[c] = "self" /\ Put(c, "result", "protocol") /\ UNCHANGED running
             \/ calls[c] = "none" /\ Put(c, "result", "none") /\ UNCHANGED running
             \/ calls[c] = "raises" /\ Put(c, "failure", "failure") /\ UNCHANGED running
             \/ /\ calls[c] \in {"async", "timed"} /\ running' = running \cup {c}
                /\ UNCHANGED <<queue, value>>
    /\ UNCHANGED <<appVars, fromThread, event, connection, onLost>>

\* disconnector, a plain callback: a Failure passes it by, None has no
\* transport; loseConnection on a connection that is gone does nothing.
Disconnector ==
  \E c \in Calls :
    /\ Due(c) /\ calls[c] = "disconnect"
    /\ \/ value = "failure" /\ UNCHANGED <<value, onLost, connection>>
       \/ /\ value = "none" /\ value' = "failure" /\ onLost' = onLost \cup {c}
          /\ UNCHANGED connection
       \/ /\ value = "protocol" /\ value' = "none" /\ onLost' = onLost \cup {c}
          /\ connection' = IF connection = "open" THEN "closing" ELSE connection
    /\ UNCHANGED <<appVars, fromThread, queue, event, running, ran>>

\* Mutant of DeferredFires: result_callback was not added to the method's Deferred.
DeferredFiresUnheard ==
  \E c \in running :
    /\ connection = "open" /\ running' = running \ {c} /\ value' = "protocol"
    /\ UNCHANGED <<appVars, fromThread, queue, event, chain, ran, connection, onLost>>

\* The screen changed (commitUpdate fires client.deferred), or saving it failed;
\* or a timer is over, which asks for no connection.
DeferredFires ==
  \E c \in running :
    /\ connection = "open" \/ calls[c] = "timed"
    /\ running' = running \ {c}
    /\ \/ Put(c, "result", "protocol")
       \/ calls[c] = "async" /\ "raises" \in Kinds /\ Put(c, "failure", "failure")
    /\ UNCHANGED <<appVars, fromThread, event, chain, ran, connection, onLost>>

\* clientConnectionMade, clientConnectionFailed: factory.deferred fires.
ConnectionMade ==
  /\ connection = "connecting" /\ connection' = "open" /\ value' = "protocol"
  /\ UNCHANGED <<appVars, fromThread, queue, event, chain, running, ran, onLost>>

ConnectionFailed ==
  /\ drops
  /\ connection = "connecting" /\ connection' = "lost" /\ value' = "failure"
  /\ UNCHANGED <<appVars, fromThread, queue, event, chain, running, ran, onLost>>

\* connectionLost: only the disconnect callbacks hear of it.  A server that
\* hangs up during the handshake leaves factory.deferred unfired.
ConnectionLost ==
  /\ Quiet
  /\ connection = "closing" \/ (drops /\ connection # "lost")
  /\ connection' = "lost" /\ event' = event \cup onLost /\ onLost' = {}
  /\ UNCHANGED <<appVars, fromThread, queue, chain, running, value, ran>>

-----------------------------------------------------------------------------
App == GetResult \/ TimeOut \/ Disconnected
Reactor == RunFromThread \/ NotConnected \/ ThreadedCall \/ Disconnector

Next ==
  /\ \/ \E kind \in Kinds \cup {"disconnect"} : Call(kind)
     \/ App \/ Reactor
     \/ DeferredFires \/ ConnectionMade \/ ConnectionFailed \/ ConnectionLost
  /\ UNCHANGED setting

\* The threads keep running, a timeout elapses, a closing transport closes, and
\* a live server completes the handshake and sends the updates asked for; a
\* timer is over some day.
Fairness ==
  /\ WF_vars(App /\ UNCHANGED setting) /\ WF_vars(Reactor /\ UNCHANGED setting)
  /\ WF_vars(ConnectionLost /\ connection = "closing" /\ UNCHANGED setting)
  /\ WF_vars(ConnectionMade /\ UNCHANGED setting)
  /\ WF_vars(DeferredFires /\ UNCHANGED setting)

Spec == Init /\ [][Next]_vars /\ Fairness

-----------------------------------------------------------------------------
Results == [call : Calls, is : {"result", "failure", "timeout"}]

TypeOK ==
  /\ timeout \in BOOLEAN /\ drops \in BOOLEAN
  /\ app \in {"idle", "waiting", "disconnecting"}
  /\ calls \in Seq(AllKinds \cup {"disconnect"}) /\ Len(calls) <= MaxCalls
  /\ fromThread \in Seq(Calls) /\ chain \in Seq(Calls)
  /\ running \in SUBSET Calls /\ ran \in SUBSET Calls
  /\ value \in {"unfired", "protocol", "none", "failure"}
  /\ queue \in Seq(Results)
  /\ returned \in [Calls -> Results \cup {Nothing}]
  /\ connection \in {"connecting", "open", "closing", "lost"}
  /\ onLost \in SUBSET Calls /\ event \in SUBSET Calls

\* A call gives the application the result of its own method, never the one of
\* an earlier call.
OwnResult == \A c \in Calls : returned[c] # Nothing => returned[c].call = c

\* Without a timeout that is so: nothing in the queue says whose result it is,
\* but a call that waits to the end leaves none behind.
OwnResultUntimed == ~timeout => OwnResult

\* Methods start in the order of the calls.
CallsInOrder == [][\A c \in ran' \ ran : \A d \in ran : d < c]_vars

\* What the application did not get within its timeout is still done: a call is
\* on its way to the reactor, is being done, or its outcome waits for or reached
\* some caller.
NoCallLost ==
  \A c \in 1..This :
    calls[c] # "disconnect"
      => \/ \E i \in 1..Len(fromThread) : fromThread[i] = c
         \/ \E i \in 1..Len(chain) : chain[i] = c
         \/ c \in running
         \/ \E i \in 1..Len(queue) : queue[i].call = c
         \/ \E d \in Calls : returned[d].call = c /\ returned[d].is # "timeout"

\* While the connection is up, a call fails with its method never invoked only
\* behind a call that failed or returned None: such a call takes the client out
\* of the chain for good, and nothing else does.
Failed(c) == \E d \in Calls : returned[d] = [call |-> c, is |-> "failure"]
CallRunsMethod ==
  \A c \in Calls :
    Failed(c) /\ connection = "open"
      => c \in ran \/ \E e \in 1..(c - 1) : calls[e] = "none" \/ Failed(e)

\* A call returns, with a result, an error or a TimeoutError, and disconnect()
\* returns.  Without a timeout the first needs a connection that holds, and the
\* second also a client in the chain to disconnect: after a call that failed or
\* returned None, or a second time, it waits for ever.
ClientInChain == \A c \in 1..(This - 1) : calls[c] \notin {"none", "disconnect"} /\ ~Failed(c)
CallsReturn ==
  /\ app = "waiting" /\ (timeout \/ ~drops) ~> app # "waiting"
  /\ app = "disconnecting" /\ (timeout \/ (~drops /\ ClientInChain)) ~> app # "disconnecting"
=============================================================================
