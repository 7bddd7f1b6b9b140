------------------------- MODULE ThreadedProxyProofs --------------------------
(***************************************************************************)
(* What holds of the blocking API for any number of calls.                 *)
(***************************************************************************)
EXTENDS ThreadedProxy, TLAPS

\* A callback that is due belongs to a call, and leaves the chain a chain.
LEMMA DueType == ASSUME TypeOK, NEW c \in Calls, Due(c) PROVE chain' \in Seq(Calls)
BY DEF TypeOK, Due, Quiet

\* What is put into the queue is a result.
LEMMA PutType ==
  ASSUME TypeOK, NEW c \in Calls, NEW o \in {"result", "failure"}, NEW next, Put(c, o, next)
  PROVE  queue' \in Seq(Results) /\ value' = next
<1>1. [call |-> c, is |-> o] \in Results
  BY DEF Results
<1> QED
  BY <1>1 DEF TypeOK, Put

\* The state of the two threads keeps its types: what crosses between them are
\* calls one way and results the other.
THEOREM TypeCorrect == Spec => []TypeOK
<1>1. Init => TypeOK
  <2> SUFFICES ASSUME Init PROVE TypeOK
    OBVIOUS
  <2>1. calls \in Seq(AllKinds \cup {"disconnect"}) /\ Len(calls) <= MaxCalls
    BY ProxyAssumption DEF Init
  <2>2. timeout \in BOOLEAN /\ drops \in BOOLEAN
    BY SettingAssumption DEF Init
  <2>3. returned \in [Calls -> Results \cup {Nothing}]
    BY DEF Init
  <2>4. fromThread \in Seq(Calls) /\ chain \in Seq(Calls) /\ queue \in Seq(Results)
    BY DEF Init
  <2>5. running \in SUBSET Calls /\ ran \in SUBSET Calls /\ onLost \in SUBSET Calls
        /\ event \in SUBSET Calls
    BY DEF Init
  <2> QED
    BY <2>1, <2>2, <2>3, <2>4, <2>5 DEF Init, TypeOK
<1>2. TypeOK /\ [Next]_vars => TypeOK'
  <2> SUFFICES ASSUME TypeOK, [Next]_vars PROVE TypeOK'
    OBVIOUS
  <2>0. timeout' = timeout /\ drops' = drops
    BY DEF Next, vars, setting
  <2>1. ASSUME NEW kind \in Kinds \cup {"disconnect"}, Call(kind) PROVE TypeOK'
    <3>1. /\ calls' \in Seq(AllKinds \cup {"disconnect"}) /\ Len(calls') <= MaxCalls
          /\ fromThread' \in Seq(Calls)
      BY <2>1, ProxyAssumption DEF Call, TypeOK, This, Calls
    <3> QED
      BY <2>0, <2>1, <3>1 DEF Call, TypeOK, reactorVars
  <2>2. CASE GetResult
    <3>1. Head(queue) \in Results /\ queue' \in Seq(Results)
      BY <2>2 DEF GetResult, TypeOK
    <3>2. returned' \in [Calls -> Results \cup {Nothing}]
      BY <2>2, <3>1 DEF GetResult, TypeOK
    <3> QED
      BY <2>0, <2>2, <3>1, <3>2 DEF GetResult, TypeOK, reactorVars
  <2>3. CASE TimeOut
    <3>1. CASE This \in Calls
      <4>1. [call |-> This, is |-> "timeout"] \in Results
        BY <3>1 DEF Results
      <4>2. returned' \in [Calls -> Results \cup {Nothing}]
        BY <2>3, <4>1 DEF TimeOut, TypeOK
      <4> QED
        BY <2>0, <2>3, <4>2 DEF TimeOut, TypeOK, reactorVars
    <3>2. CASE This \notin Calls
      <4>1. returned' = returned
        BY <2>3, <3>2 DEF TimeOut, TypeOK
      <4> QED
        BY <2>0, <2>3, <4>1 DEF TimeOut, TypeOK, reactorVars
    <3> QED
      BY <3>1, <3>2
  <2>4. CASE Disconnected
    BY <2>0, <2>4 DEF Disconnected, TypeOK, reactorVars
  <2>5. CASE RunFromThread
    <3>1. chain' \in Seq(Calls) /\ fromThread' \in Seq(Calls)
      BY <2>5 DEF RunFromThread, TypeOK
    <3> QED
      BY <2>0, <2>5, <3>1 DEF RunFromThread, TypeOK, appVars
  <2>6. CASE NotConnected
    <3>1. PICK c \in Calls : Due(c) /\ Put(c, "failure", "failure")
      BY <2>6 DEF NotConnected
    <3> QED
      BY <2>0, <2>6, <3>1, DueType, PutType DEF NotConnected, TypeOK, appVars
  <2>7. CASE ThreadedCall
    <3>1. PICK c \in Calls :
            /\ Due(c) /\ UNCHANGED <<appVars, fromThread, event, connection, onLost>>
            /\ \/ UNCHANGED <<queue, value>>
               \/ \E o \in {"result", "failure"}, next \in {"protocol", "none", "failure"} :
                    Put(c, o, next)
            /\ ran' \subseteq ran \cup {c} /\ running' \subseteq running \cup {c}
      BY <2>7 DEF ThreadedCall
    <3>2. chain' \in Seq(Calls)
      BY <3>1, DueType
    <3>3. queue' \in Seq(Results) /\ value' \in {"unfired", "protocol", "none", "failure"}
      BY <3>1, PutType DEF TypeOK
    <3> QED
      BY <2>0, <3>1, <3>2, <3>3 DEF TypeOK, appVars
  <2>8. CASE Disconnector
    <3>1. chain' \in Seq(Calls)
      BY <2>8, DueType DEF Disconnector
    <3> QED
      BY <2>0, <2>8, <3>1 DEF Disconnector, TypeOK, appVars
  <2>9. CASE DeferredFires
    <3>1. PICK c \in running : \E o \in {"result", "failure"}, next \in {"protocol", "failure"} :
                                 Put(c, o, next)
      BY <2>9 DEF DeferredFires
    <3>2. queue' \in Seq(Results) /\ value' \in {"protocol", "failure"}
      BY <3>1, PutType DEF TypeOK
    <3> QED
      BY <2>0, <2>9, <3>2 DEF DeferredFires, TypeOK, appVars
  <2>10. CASE ConnectionMade \/ ConnectionFailed \/ ConnectionLost \/ UNCHANGED vars
    BY <2>0, <2>10 DEF ConnectionMade, ConnectionFailed, ConnectionLost, vars, appVars,
                       reactorVars, TypeOK
  <2> QED
    BY <2>1, <2>2, <2>3, <2>4, <2>5, <2>6, <2>7, <2>8, <2>9, <2>10 DEF Next, App, Reactor
<1> QED
  BY <1>1, <1>2, PTL DEF Spec

-----------------------------------------------------------------------------
\* The chain runs a callback only while no Deferred pauses it, and none before
\* the connection is made.
AtMostOne ==
  /\ running = {} \/ \E c \in Calls : running = {c}
  /\ connection = "connecting" => running = {} /\ value = "unfired"

\* Nothing else starts or ends a method.
LEMMA Unshared == Spec => []AtMostOne
<1>1. Init => AtMostOne
  BY DEF Init, AtMostOne
<1>2. AtMostOne /\ [Next]_vars => AtMostOne'
  <2> SUFFICES ASSUME AtMostOne, [Next]_vars PROVE AtMostOne'
    OBVIOUS
  <2>1. CASE ThreadedCall
    BY <2>1 DEF ThreadedCall, Due, Quiet, AtMostOne
  <2>2. CASE DeferredFires
    BY <2>2 DEF DeferredFires, AtMostOne
  <2>3. CASE NotConnected \/ Disconnector
    BY <2>3 DEF NotConnected, Disconnector, Due, Quiet, AtMostOne
  <2>4. \/ ThreadedCall \/ DeferredFires \/ NotConnected \/ Disconnector
        \/ running' = running /\ (connection' = "connecting" => UNCHANGED <<connection, value>>)
    BY DEF Next, App, Reactor, vars, reactorVars, Call, GetResult, TimeOut, Disconnected,
           RunFromThread, ConnectionMade, ConnectionFailed, ConnectionLost
  <2> QED
    BY <2>1, <2>2, <2>3, <2>4 DEF AtMostOne
<1> QED
  BY <1>1, <1>2, PTL DEF Spec

-----------------------------------------------------------------------------
\* Nothing is between the two threads.
Empty == fromThread = <<>> /\ chain = <<>> /\ running = {} /\ queue = <<>>

\* Call c, and nothing else, is somewhere on its way to the client and back.
Alone(c) ==
  \/ fromThread = <<c>> /\ chain = <<>> /\ running = {} /\ queue = <<>>
  \/ fromThread = <<>> /\ chain = <<c>> /\ running = {} /\ queue = <<>>
  \/ fromThread = <<>> /\ chain = <<>> /\ running = {c} /\ queue = <<>>
  \/ /\ fromThread = <<>> /\ chain = <<>> /\ running = {}
     /\ \E o \in {"result", "failure"} : queue = <<[call |-> c, is |-> o]>>

\* Without timeouts the application waits for every call it makes, so what is
\* between the threads is its current call.
LockStep ==
  /\ calls \in Seq(AllKinds \cup {"disconnect"})
  /\ returned = [c \in Calls |-> returned[c]]
  /\ app \in {"idle", "waiting", "disconnecting"} /\ onLost \cup event \subseteq 1..This
  /\ app = "idle" => Empty
  /\ app = "waiting" => This \in Calls /\ calls[This] # "disconnect" /\ Alone(This)
  /\ app = "disconnecting"
       => /\ This \in Calls /\ calls[This] = "disconnect"
          /\ (Empty \/ Alone(This)) /\ running = {} /\ queue = <<>>
          /\ This \in onLost \cup event => Empty

\* A call without a timeout returns the result of its own method: the queue,
\* which knows nothing of calls, holds no other.
THEOREM Untimed == Spec => []OwnResultUntimed
<1> DEFINE IInv == timeout \/ (LockStep /\ OwnResult)
<1> USE ProxyAssumption DEF Calls, This
<1>1. Init => IInv
  BY DEF Init, LockStep, Empty, OwnResult, Nothing
<1>2. IInv /\ [Next]_vars => IInv'
  <2> SUFFICES ASSUME ~timeout, LockStep, OwnResult, [Next]_vars PROVE (LockStep /\ OwnResult)'
    BY DEF Next, vars, setting
  <2>1. ASSUME NEW kind \in Kinds \cup {"disconnect"}, Call(kind) PROVE (LockStep /\ OwnResult)'
    <3>1. /\ Empty /\ calls' = Append(calls, kind) /\ Len(calls') = Len(calls) + 1
          /\ calls' \in Seq(AllKinds \cup {"disconnect"}) /\ calls'[Len(calls')] = kind
          /\ Len(calls') \in Calls
      BY <2>1 DEF Call, LockStep, AllKinds
    <3>2. Alone(This)' /\ running' = {} /\ queue' = <<>>
      BY <2>1, <3>1 DEF Call, Empty, Alone, reactorVars
    <3>3. returned' = returned
      BY <2>1 DEF Call
    <3>4. (onLost \cup event)' \subseteq (1..This)' /\ Len(calls') \notin (onLost \cup event)'
      <4>1. onLost' = onLost /\ event' = event /\ onLost \cup event \subseteq 1..Len(calls)
        BY <2>1 DEF Call, LockStep, reactorVars
      <4>2. Len(calls) \in Nat
        BY DEF LockStep
      <4> QED
        BY <3>1, <4>1, <4>2
    <3> QED
      BY <2>1, <3>1, <3>2, <3>3, <3>4 DEF Call, LockStep, OwnResult, AllKinds
  <2>2. CASE GetResult
    <3>1. /\ Len(calls) \in Calls /\ fromThread = <<>> /\ chain = <<>> /\ running = {}
          /\ \E o \in {"result", "failure"} : queue = <<[call |-> This, is |-> o]>>
      BY <2>2 DEF GetResult, LockStep, Alone
    <3>2. Head(queue).call = This /\ Tail(queue) = <<>>
      BY <3>1
    <3>3. Empty'
      BY <2>2, <3>1, <3>2 DEF GetResult, Empty, reactorVars
    <3> QED
      BY <2>2, <3>1, <3>2, <3>3 DEF GetResult, LockStep, OwnResult, reactorVars
  <2>3. CASE TimeOut
    BY <2>3 DEF TimeOut
  <2>4. CASE Disconnected
    BY <2>4 DEF Disconnected, LockStep, OwnResult, Empty, Alone, reactorVars
  <2>5. CASE RunFromThread
    <3>1. Alone(This) /\ fromThread = <<This>> /\ chain = <<>>
      BY <2>5 DEF RunFromThread, LockStep, Empty, Alone
    <3>2. chain' = <<This>> /\ fromThread' = <<>>
      BY <2>5, <3>1 DEF RunFromThread
    <3> QED
      BY <2>5, <3>1, <3>2 DEF RunFromThread, LockStep, Empty, Alone, OwnResult, appVars
  <2>6. ASSUME NEW c \in Calls, Due(c)
        PROVE  /\ c = This /\ chain' = <<>> /\ fromThread = <<>> /\ running = {} /\ queue = <<>>
               /\ app \in {"waiting", "disconnecting"}
    <3>1. chain # <<>> /\ c = Head(chain) /\ chain' = Tail(chain)
      BY <2>6 DEF Due, Quiet
    <3>2. app # "idle" /\ Alone(This)
      BY <3>1 DEF LockStep, Empty
    <3>3. fromThread = <<>> /\ chain = <<This>> /\ running = {} /\ queue = <<>>
      BY <3>1, <3>2 DEF Alone
    <3> QED
      BY <3>1, <3>2, <3>3 DEF LockStep
  <2>7. ASSUME NEW o \in {"result", "failure"}, NEW next, NEW c \in Calls,
               c = This, app = "waiting", Put(c, o, next), UNCHANGED <<appVars, fromThread>>,
               UNCHANGED <<onLost, event>>, chain' = <<>>, fromThread = <<>>, running' = {}, queue = <<>>
        PROVE  (LockStep /\ OwnResult)'
    <3>1. calls' = calls /\ returned' = returned /\ app' = app
      BY <2>7 DEF appVars
    <3>2. queue' = <<[call |-> Len(calls), is |-> o]>> /\ fromThread' = <<>>
      BY <2>7 DEF Put
    <3>3. Alone(This)'
      BY <2>7, <3>1, <3>2 DEF Alone
    <3> QED
      BY <2>7, <3>1, <3>3 DEF LockStep, OwnResult
  <2>8. CASE NotConnected
    BY <2>6, <2>7, <2>8 DEF NotConnected, LockStep
  <2>9. CASE ThreadedCall
    <3>1. PICK c \in Calls :
            /\ Due(c) /\ calls[c] # "disconnect"
            /\ UNCHANGED <<appVars, fromThread, onLost, event>>
            /\ \/ running' = running \cup {c} /\ UNCHANGED queue
               \/ /\ UNCHANGED running
                  /\ \E o \in {"result", "failure"} : \E next : Put(c, o, next)
      BY <2>9 DEF ThreadedCall
    <3>2. c = This /\ app = "waiting"
      BY <2>6, <3>1 DEF LockStep
    <3>3. CASE running' = running \cup {c} /\ UNCHANGED queue
      BY <2>6, <3>1, <3>2, <3>3 DEF LockStep, Alone, OwnResult, appVars
    <3>4. CASE UNCHANGED running /\ \E o \in {"result", "failure"} : \E next : Put(c, o, next)
      BY <2>6, <2>7, <3>1, <3>2, <3>4
    <3> QED
      BY <3>1, <3>3, <3>4
  <2>10. CASE Disconnector
    <3>1. PICK c \in Calls : /\ Due(c) /\ calls[c] = "disconnect" /\ onLost' \subseteq onLost \cup {c}
                             /\ UNCHANGED <<appVars, fromThread, queue, running, event>>
      BY <2>10 DEF Disconnector
    <3>2. c \in 1..This
      BY <2>6, <3>1 DEF LockStep
    <3> QED
      BY <2>6, <3>1, <3>2 DEF LockStep, Empty, OwnResult, appVars
  <2>11. CASE DeferredFires
    <3>1. PICK c \in running : /\ running' = running \ {c}
                               /\ UNCHANGED <<appVars, fromThread, chain, onLost, event>>
                               /\ \E o \in {"result", "failure"} : \E next : Put(c, o, next)
      BY <2>11 DEF DeferredFires
    <3>2. /\ c = This /\ app = "waiting" /\ running' = {} /\ chain = <<>>
          /\ fromThread = <<>> /\ queue = <<>>
      BY <3>1 DEF LockStep, Empty, Alone
    <3> QED
      BY <2>7, <3>1, <3>2 DEF LockStep
  <2>12. CASE ConnectionMade \/ ConnectionFailed \/ ConnectionLost \/ UNCHANGED vars
    BY <2>12 DEF ConnectionMade, ConnectionFailed, ConnectionLost, vars, appVars, reactorVars,
                 LockStep, Empty, Alone, OwnResult
  <2> QED
    BY <2>1, <2>2, <2>3, <2>4, <2>5, <2>8, <2>9, <2>10, <2>11, <2>12 DEF Next, App, Reactor
<1>3. IInv => OwnResultUntimed
  BY DEF OwnResultUntimed
<1> QED
  BY <1>1, <1>2, <1>3, PTL DEF Spec

-----------------------------------------------------------------------------
\* Calls before `ran' before `chain' before `fromThread': a call only moves on
\* behind the ones made before it.
Increasing(s) == \A i, j \in 1..Len(s) : i < j => s[i] < s[j]
Queued ==
  /\ calls \in Seq(AllKinds \cup {"disconnect"})
  /\ fromThread \in Seq(1..This) /\ chain \in Seq(1..This) /\ ran \subseteq 1..This
  /\ Increasing(fromThread) /\ Increasing(chain)
  /\ \A i \in 1..Len(chain), j \in 1..Len(fromThread) : chain[i] < fromThread[j]
  /\ \A d \in ran : /\ \A i \in 1..Len(chain) : d < chain[i]
                    /\ \A j \in 1..Len(fromThread) : d < fromThread[j]

\* The first of an increasing sequence comes before the others.
LEMMA TailIncreasing ==
  ASSUME NEW n \in Nat, NEW s \in Seq(1..n), s # <<>>, Increasing(s)
  PROVE  /\ Head(s) = s[1] /\ Head(s) \in 1..n /\ Tail(s) \in Seq(1..n)
         /\ Len(Tail(s)) = Len(s) - 1 /\ Len(s) \in Nat \ {0}
         /\ \A i \in 1..Len(Tail(s)) : Tail(s)[i] = s[i + 1] /\ Head(s) < Tail(s)[i]
         /\ Increasing(Tail(s))
<1>1. /\ Head(s) = s[1] /\ Head(s) \in 1..n /\ Tail(s) \in Seq(1..n)
      /\ Len(Tail(s)) = Len(s) - 1 /\ Len(s) \in Nat \ {0}
      /\ \A i \in 1..Len(Tail(s)) : Tail(s)[i] = s[i + 1]
  OBVIOUS
<1>2. \A i \in 1..Len(Tail(s)) : Head(s) < Tail(s)[i]
  BY <1>1 DEF Increasing
<1>3. Increasing(Tail(s))
  BY <1>1 DEF Increasing
<1> QED
  BY <1>1, <1>2, <1>3

\* Appending a number above all of an increasing sequence keeps it increasing.
LEMMA AppendIncreasing ==
  ASSUME NEW n \in Nat, NEW s \in Seq(1..n), Increasing(s), NEW m \in Nat,
         \A i \in 1..Len(s) : s[i] < m
  PROVE  Increasing(Append(s, m))
<1> SUFFICES ASSUME NEW i \in 1..Len(Append(s, m)), NEW j \in 1..Len(Append(s, m)), i < j
             PROVE  Append(s, m)[i] < Append(s, m)[j]
  BY DEF Increasing
<1>0. /\ Len(s) \in Nat /\ Len(Append(s, m)) = Len(s) + 1 /\ Append(s, m)[Len(s) + 1] = m
      /\ \A k \in 1..Len(s) : Append(s, m)[k] = s[k]
  OBVIOUS
<1>1. i \in 1..Len(s) /\ Append(s, m)[i] = s[i]
  BY <1>0
<1>2. CASE j \in 1..Len(s)
  BY <1>0, <1>1, <1>2 DEF Increasing
<1>3. CASE j = Len(s) + 1
  <2>1. Append(s, m)[j] = m
    BY <1>0, <1>3
  <2>2. s[i] < m
    BY <1>1
  <2> QED
    BY <1>1, <2>1, <2>2
<1>4. j \in 1..Len(s) \/ j = Len(s) + 1
  BY <1>0
<1> QED
  BY <1>2, <1>3, <1>4

\* A step moves calls along in order, and starts only one behind those that ran.
LEMMA QueueStep ==
  ASSUME Queued, [Next]_vars
  PROVE  Queued' /\ \A c \in ran' \ ran : \A d \in ran : d < c
<1> USE ProxyAssumption DEF This
<1>1. ASSUME NEW kind \in Kinds \cup {"disconnect"}, Call(kind)
      PROVE  Queued' /\ ran' = ran
  <2>1. /\ calls' = Append(calls, kind) /\ Len(calls') = Len(calls) + 1 /\ Len(calls) \in Nat
        /\ calls' \in Seq(AllKinds \cup {"disconnect"})
    BY <1>1 DEF Call, Queued, AllKinds
  <2>2. fromThread' = Append(fromThread, Len(calls) + 1) /\ chain' = chain /\ ran' = ran
    BY <1>1 DEF Call, reactorVars
  <2>3. /\ fromThread' \in Seq(1..(Len(calls) + 1)) /\ chain' \in Seq(1..(Len(calls) + 1))
        /\ ran' \subseteq 1..(Len(calls) + 1)
    BY <2>1, <2>2 DEF Queued
  <2>4. /\ Len(fromThread') = Len(fromThread) + 1 /\ Len(fromThread) \in Nat
        /\ \A i \in 1..Len(fromThread) :
             fromThread'[i] = fromThread[i] /\ fromThread[i] \in 1..Len(calls)
        /\ fromThread'[Len(fromThread')] = Len(calls) + 1
    BY <2>1, <2>2 DEF Queued
  <2>5. \A i \in 1..Len(chain) : chain[i] \in 1..Len(calls)
    BY DEF Queued
  <2>6. Increasing(fromThread')
    <3>1. /\ Increasing(fromThread) /\ Len(calls) \in Nat /\ fromThread \in Seq(1..Len(calls))
          /\ Len(calls) + 1 \in Nat
      BY <2>1 DEF Queued
    <3>2. \A i \in 1..Len(fromThread) : fromThread[i] < Len(calls) + 1
      BY <2>4, <3>1
    <3>3. Increasing(Append(fromThread, Len(calls) + 1))
      BY <3>1, <3>2, AppendIncreasing
    <3> QED
      BY <2>2, <3>3
  <2>7. \A j \in 1..Len(fromThread') : j \in 1..Len(fromThread) \/ j = Len(fromThread')
    BY <2>4
  <2>8. \A i \in 1..Len(chain'), j \in 1..Len(fromThread') : chain'[i] < fromThread'[j]
    <3>1. \A i \in 1..Len(chain), j \in 1..Len(fromThread) : chain[i] < fromThread[j]
      BY DEF Queued
    <3>2. \A i \in 1..Len(chain) : chain[i] < Len(calls) + 1
      BY <2>1, <2>5
    <3> QED
      BY <2>2, <2>4, <2>7, <3>1, <3>2
  <2>9. \A d \in ran' : /\ \A i \in 1..Len(chain') : d < chain'[i]
                         /\ \A j \in 1..Len(fromThread') : d < fromThread'[j]
    <3>1. \A d \in ran : /\ \A i \in 1..Len(chain) : d < chain[i]
                          /\ \A j \in 1..Len(fromThread) : d < fromThread[j]
      BY DEF Queued
    <3>2. \A d \in ran : d < Len(calls) + 1
      BY <2>1 DEF Queued
    <3> QED
      BY <2>2, <2>4, <2>7, <3>1, <3>2
  <2> QED
    BY <2>1, <2>2, <2>3, <2>6, <2>8, <2>9 DEF Queued
<1>2. CASE RunFromThread
  <2> DEFINE h == Head(fromThread)
  <2>1. /\ fromThread # <<>> /\ chain' = Append(chain, h) /\ fromThread' = Tail(fromThread)
        /\ calls' = calls /\ ran' = ran
    BY <1>2 DEF RunFromThread, appVars
  <2>2. Len(calls) \in Nat /\ fromThread \in Seq(1..Len(calls)) /\ chain \in Seq(1..Len(calls))
    BY DEF Queued
  <2>3. /\ h = fromThread[1] /\ h \in 1..Len(calls) /\ fromThread' \in Seq(1..Len(calls))
        /\ Len(fromThread') = Len(fromThread) - 1 /\ Len(fromThread) \in Nat \ {0}
        /\ \A i \in 1..Len(fromThread') : fromThread'[i] = fromThread[i + 1] /\ h < fromThread'[i]
        /\ Increasing(fromThread')
    BY <2>1, <2>2, TailIncreasing DEF Queued
  <2> HIDE DEF h
  <2>4. /\ chain' \in Seq(1..Len(calls)) /\ Len(chain') = Len(chain) + 1 /\ Len(chain) \in Nat
        /\ \A i \in 1..Len(chain) : chain'[i] = chain[i]
        /\ chain'[Len(chain')] = h
    BY <2>1, <2>2, <2>3
  <2>5. \A i \in 1..Len(chain) : chain[i] < h
    BY <2>3 DEF Queued
  <2>6. Increasing(chain')
    <3>1. Increasing(chain) /\ Len(calls) \in Nat /\ chain \in Seq(1..Len(calls)) /\ h \in Nat
      BY <2>2, <2>3 DEF Queued
    <3>2. Increasing(Append(chain, h))
      BY <2>5, <3>1, AppendIncreasing
    <3> QED
      BY <2>1, <3>2
  <2>7. \A i \in 1..Len(chain'), j \in 1..Len(fromThread') : chain'[i] < fromThread'[j]
    <3> TAKE i \in 1..Len(chain'), j \in 1..Len(fromThread')
    <3>1. j + 1 \in 1..Len(fromThread) /\ fromThread'[j] = fromThread[j + 1] /\ h < fromThread'[j]
      BY <2>3
    <3>2. CASE i \in 1..Len(chain)
      BY <2>4, <3>1, <3>2 DEF Queued
    <3>3. CASE i = Len(chain')
      BY <2>4, <3>1, <3>3
    <3> QED
      BY <2>4, <3>2, <3>3
  <2>8. ASSUME NEW d \in ran
        PROVE  /\ \A i \in 1..Len(chain') : d < chain'[i]
               /\ \A j \in 1..Len(fromThread') : d < fromThread'[j]
    <3>1. d < h /\ \A i \in 1..Len(chain) : d < chain[i]
      BY <2>3 DEF Queued
    <3>2. \A i \in 1..Len(chain') : i \in 1..Len(chain) \/ i = Len(chain')
      BY <2>4
    <3>3. \A i \in 1..Len(chain') : d < chain'[i]
      BY <2>4, <3>1, <3>2
    <3>4. \A j \in 1..Len(fromThread') : j + 1 \in 1..Len(fromThread)
      BY <2>3
    <3>5. \A j \in 1..Len(fromThread) : d < fromThread[j]
      BY DEF Queued
    <3> QED
      BY <2>3, <3>3, <3>4, <3>5
  <2> QED
    BY <2>1, <2>3, <2>4, <2>6, <2>7, <2>8 DEF Queued
<1>3. ASSUME NEW c \in Calls, Due(c), UNCHANGED <<appVars, fromThread>>,
             ran' \subseteq ran \cup {c}
      PROVE  Queued' /\ \A e \in ran' \ ran : \A d \in ran : d < e
  <2>1. /\ chain # <<>> /\ c = Head(chain) /\ chain' = Tail(chain) /\ calls' = calls
        /\ fromThread' = fromThread
    BY <1>3 DEF Due, Quiet, appVars
  <2>2. /\ c = chain[1] /\ c \in 1..Len(calls) /\ chain' \in Seq(1..Len(calls))
        /\ Len(chain') = Len(chain) - 1 /\ Len(chain) \in Nat \ {0}
        /\ \A i \in 1..Len(chain') : chain'[i] = chain[i + 1] /\ c < chain'[i]
        /\ Increasing(chain')
    BY <2>1, TailIncreasing DEF Queued
  <2>3. \A d \in ran : d < c
    BY <2>2 DEF Queued
  <2>4. \A i \in 1..Len(chain'), j \in 1..Len(fromThread') : chain'[i] < fromThread'[j]
    BY <2>1, <2>2 DEF Queued
  <2>5. \A d \in ran' : /\ \A i \in 1..Len(chain') : d < chain'[i]
                        /\ \A j \in 1..Len(fromThread') : d < fromThread'[j]
    <3>1. \A i \in 1..Len(chain') : i + 1 \in 1..Len(chain)
      BY <2>2
    <3>2. \A j \in 1..Len(fromThread) : c < fromThread[j]
      <4>1. 1 \in 1..Len(chain)
        BY <2>2
      <4>2. \A j \in 1..Len(fromThread) : chain[1] < fromThread[j]
        BY <4>1 DEF Queued
      <4> QED
        BY <2>2, <4>2
    <3>3. \A d \in ran : /\ \A i \in 1..Len(chain') : d < chain'[i]
                         /\ \A j \in 1..Len(fromThread') : d < fromThread'[j]
      BY <2>1, <2>2, <3>1 DEF Queued
    <3> QED
      BY <1>3, <2>1, <2>2, <3>2, <3>3
  <2> QED
    BY <1>3, <2>1, <2>2, <2>3, <2>4, <2>5 DEF Queued
<1>4. CASE NotConnected \/ ThreadedCall \/ Disconnector
  <2>1. \E c \in Calls : Due(c) /\ UNCHANGED <<appVars, fromThread>> /\ ran' \subseteq ran \cup {c}
    BY <1>4 DEF NotConnected, ThreadedCall, Disconnector
  <2> QED
    BY <1>3, <2>1
<1>5. CASE UNCHANGED <<calls, fromThread, chain, ran>>
  BY <1>5 DEF Queued
<1>6. \/ UNCHANGED <<calls, fromThread, chain, ran>> \/ RunFromThread
      \/ NotConnected \/ ThreadedCall \/ Disconnector
      \/ \E kind \in Kinds \cup {"disconnect"} : Call(kind)
  BY DEF Next, App, Reactor, vars, appVars, reactorVars, GetResult, TimeOut, Disconnected,
         DeferredFires, ConnectionMade, ConnectionFailed, ConnectionLost
<1>7. CASE RunFromThread
  BY <1>2, <1>7 DEF RunFromThread
<1> QED
  BY <1>1, <1>4, <1>5, <1>6, <1>7

\* The calls that wait and those that ran stay in their order.
LEMMA StaysQueued == Spec => []Queued
<1>1. Init => Queued
  BY DEF Init, Queued, Increasing, This
<1>2. Queued /\ [Next]_vars => Queued'
  BY QueueStep
<1> QED
  BY <1>1, <1>2, PTL DEF Spec

\* Methods start in the order in which the application called them, though
\* calls that timed out still wait in front of later ones.
THEOREM InOrder == Spec => CallsInOrder
<1>1. Queued /\ [Next]_vars => [\A c \in ran' \ ran : \A d \in ran : d < c]_vars
  BY QueueStep
<1> QED
  BY <1>1, StaysQueued, PTL DEF Spec, CallsInOrder

-----------------------------------------------------------------------------
In(s, x) == \E i \in 1..Len(s) : s[i] = x

\* What is in a sequence after something was put at its end, or taken from its
\* front.
LEMMA InAppend ==
  ASSUME NEW S, NEW s \in Seq(S), NEW e \in S
  PROVE  \A x : In(Append(s, e), x) <=> (In(s, x) \/ x = e)
<1>1. /\ Len(s) \in Nat /\ Len(Append(s, e)) = Len(s) + 1 /\ Append(s, e)[Len(s) + 1] = e
      /\ \A i \in 1..Len(s) : Append(s, e)[i] = s[i]
  OBVIOUS
<1>2. \A i \in 1..(Len(s) + 1) : i \in 1..Len(s) \/ i = Len(s) + 1
  BY <1>1
<1>3. \A i \in 1..Len(s) : i \in 1..(Len(s) + 1)
  BY <1>1
<1>4. Len(s) + 1 \in 1..(Len(s) + 1)
  BY <1>1
<1> QED
  BY <1>1, <1>2, <1>3, <1>4 DEF In

\* What is in a sequence is its head or in its tail.
LEMMA InTail ==
  ASSUME NEW S, NEW s \in Seq(S), s # <<>>
  PROVE  \A x : In(s, x) <=> (x = Head(s) \/ In(Tail(s), x))
<1>1. /\ Len(s) \in Nat \ {0} /\ Len(Tail(s)) = Len(s) - 1 /\ Head(s) = s[1]
      /\ \A i \in 1..(Len(s) - 1) : Tail(s)[i] = s[i + 1]
  OBVIOUS
<1>2. \A i \in 1..Len(s) : i = 1 \/ (i - 1 \in 1..(Len(s) - 1) /\ (i - 1) + 1 = i)
  BY <1>1
<1>3. \A i \in 1..(Len(s) - 1) : i + 1 \in 1..Len(s)
  BY <1>1
<1>4. 1 \in 1..Len(s)
  BY <1>1
<1>5. ASSUME NEW x, In(s, x), x # Head(s) PROVE In(Tail(s), x)
  <2>1. PICK i \in 1..Len(s) : s[i] = x
    BY <1>5 DEF In
  <2>2. i - 1 \in 1..(Len(s) - 1) /\ (i - 1) + 1 = i
    BY <1>1, <1>2, <1>5, <2>1
  <2>3. Tail(s)[i - 1] = x
    BY <1>1, <2>1, <2>2
  <2> QED
    BY <1>1, <2>2, <2>3 DEF In
<1>6. ASSUME NEW x, x = Head(s) \/ In(Tail(s), x) PROVE In(s, x)
  BY <1>1, <1>3, <1>4, <1>6 DEF In
<1> QED
  BY <1>5, <1>6

-----------------------------------------------------------------------------
\* Where a call may be: on its way to the reactor, in the chain, being done, or
\* answered, the answer in the queue or with the application.
Outcomes == {"result", "failure"}
Answers == [call : Calls, is : Outcomes]
Answer(c, o) == [call |-> c, is |-> o]
Gave(x) == In(queue, x) \/ \E d \in Calls : returned[d] = x
Found(c) ==
  In(fromThread, c) \/ In(chain, c) \/ c \in running \/ \E o \in Outcomes : Gave(Answer(c, o))

\* A call that has not returned has no result that another could overwrite.
Places ==
  /\ queue \in Seq(Answers)
  /\ \A d \in Calls : d > This \/ (d = This /\ app = "waiting") => returned[d] = Nothing
  /\ app = "waiting" => This \in Calls
  /\ \A c \in 1..This : calls[c] # "disconnect" => Found(c)

\* A callback that is due leaves the chain.
LEMMA DueTaken ==
  ASSUME TypeOK, NEW c \in Calls, Due(c)
  PROVE  \A x : In(chain, x) <=> (x = c \/ In(chain', x))
<1>1. chain \in Seq(Calls) /\ chain # <<>> /\ c = Head(chain) /\ chain' = Tail(chain)
  BY DEF TypeOK, Due, Quiet
<1> QED
  BY <1>1, InTail

\* An answer that is put into the queue is there, behind the others.
LEMMA PutGives ==
  ASSUME Places, NEW c \in Calls, NEW o \in Outcomes, NEW next, Put(c, o, next)
  PROVE  queue' \in Seq(Answers) /\ \A x : In(queue', x) <=> (In(queue, x) \/ x = Answer(c, o))
<1>1. Answer(c, o) \in Answers /\ queue \in Seq(Answers) /\ queue' = Append(queue, Answer(c, o))
  BY DEF Places, Put, Answer, Answers
<1> QED
  BY <1>1, InAppend

\* What the reactor does to the calls: one that is due is being done or answered.
LEMMA ReactorMoves ==
  ASSUME TypeOK, Places, Reactor \/ DeferredFires
  PROVE  /\ queue' \in Seq(Answers) /\ UNCHANGED <<app, calls, returned>>
         /\ \A x : In(queue, x) => In(queue', x)
         /\ \A c \in 1..This : calls[c] # "disconnect" /\ Found(c) => Found(c)'
<1>1. CASE RunFromThread
  <2>1. /\ fromThread # <<>> /\ fromThread' = Tail(fromThread)
        /\ chain' = Append(chain, Head(fromThread))
        /\ UNCHANGED <<app, calls, returned, queue, running>>
    BY <1>1 DEF RunFromThread, appVars
  <2>2. fromThread \in Seq(Calls) /\ chain \in Seq(Calls) /\ Head(fromThread) \in Calls
    BY <2>1 DEF TypeOK
  <2>3. \A x : In(fromThread, x) => x = Head(fromThread) \/ In(fromThread', x)
    BY <2>1, <2>2, InTail
  <2>4. \A x : In(chain, x) \/ x = Head(fromThread) => In(chain', x)
    BY <2>1, <2>2, InAppend
  <2> QED
    BY <2>1, <2>3, <2>4 DEF Found, Gave, Places
<1>2. ASSUME NEW c \in Calls, Due(c), NEW o \in Outcomes, NEW next, Put(c, o, next),
             UNCHANGED <<app, calls, returned, fromThread, running>>
      PROVE  /\ queue' \in Seq(Answers)
             /\ \A x : In(queue, x) => In(queue', x)
             /\ \A d \in 1..This : Found(d) => Found(d)'
  <2>1. queue' \in Seq(Answers) /\ \A x : In(queue', x) <=> (In(queue, x) \/ x = Answer(c, o))
    BY <1>2, PutGives
  <2>2. \A x : In(chain, x) => x = c \/ In(chain', x)
    BY <1>2, DueTaken
  <2> QED
    BY <1>2, <2>1, <2>2 DEF Found, Gave
<1>3. CASE NotConnected
  BY <1>2, <1>3 DEF NotConnected, appVars, Outcomes
<1>4. CASE ThreadedCall
  <2>1. PICK c \in Calls :
          /\ Due(c) /\ UNCHANGED <<app, calls, returned, fromThread>>
          /\ \/ UNCHANGED running /\ \E o \in Outcomes : \E next : Put(c, o, next)
             \/ running' = running \cup {c} /\ UNCHANGED queue
    BY <1>4 DEF ThreadedCall, appVars, Outcomes
  <2>2. CASE running' = running \cup {c} /\ UNCHANGED queue
    <3>1. \A x : In(chain, x) => x = c \/ In(chain', x)
      BY <2>1, DueTaken
    <3> QED
      BY <2>1, <2>2, <3>1 DEF Found, Gave, Places
  <2> QED
    BY <1>2, <2>1, <2>2
<1>5. CASE Disconnector
  <2>1. PICK c \in Calls :
          /\ Due(c) /\ calls[c] = "disconnect"
          /\ UNCHANGED <<app, calls, returned, fromThread, queue, running>>
    BY <1>5 DEF Disconnector, appVars
  <2>2. \A x : In(chain, x) => x = c \/ In(chain', x)
    BY <2>1, DueTaken
  <2> QED
    BY <2>1, <2>2 DEF Found, Gave, Places
<1>6. CASE DeferredFires
  <2>1. PICK c \in running :
          /\ running' = running \ {c} /\ UNCHANGED <<app, calls, returned, fromThread, chain>>
          /\ \E o \in Outcomes : \E next : Put(c, o, next)
    BY <1>6 DEF DeferredFires, appVars, Outcomes
  <2>2. c \in Calls
    BY DEF TypeOK
  <2>3. PICK o \in Outcomes : \E next : Put(c, o, next)
    BY <2>1
  <2>4. queue' \in Seq(Answers) /\ \A x : In(queue', x) <=> (In(queue, x) \/ x = Answer(c, o))
    BY <2>2, <2>3, PutGives
  <2> QED
    BY <2>1, <2>4 DEF Found, Gave
<1> QED
  BY <1>1, <1>3, <1>4, <1>5, <1>6 DEF Reactor

\* What the application is given was in the queue, and overwrites nothing.
LEMMA ApplicationHears ==
  ASSUME TypeOK, Places, GetResult
  PROVE  /\ queue' \in Seq(Answers) /\ This \in Calls /\ Head(queue) \in Answers
         /\ \A x : In(queue, x) <=> (x = Head(queue) \/ In(queue', x))
         /\ returned'[This] = Head(queue)
         /\ \A d \in Calls \ {This} : returned'[d] = returned[d]
         /\ \A x \in Answers : Gave(x) <=> Gave(x)'
<1>1. /\ app = "waiting" /\ queue # <<>> /\ queue' = Tail(queue) /\ queue \in Seq(Answers)
      /\ returned' = [returned EXCEPT ![This] = Head(queue)] /\ This \in Calls
      /\ returned[This] = Nothing /\ returned \in [Calls -> Results \cup {Nothing}]
  BY DEF GetResult, Places, TypeOK
<1>2. queue' \in Seq(Answers) /\ Head(queue) \in Answers
  BY <1>1
<1>3. \A x : In(queue, x) <=> (x = Head(queue) \/ In(queue', x))
  BY <1>1, InTail
<1>4. /\ returned'[This] = Head(queue)
      /\ \A d \in Calls \ {This} : returned'[d] = returned[d]
  BY <1>1
<1>5. Nothing \notin Answers
  BY DEF Nothing, Answers, Calls
<1> QED
  BY <1>1, <1>2, <1>3, <1>4, <1>5 DEF Gave

\* Every call is somewhere, whatever times out, fails or drops.
LEMMA CallsPlaced == Spec => []Places
<1>1. Init => Places
  BY DEF Init, Places, This
<1>2. TypeOK /\ Places /\ [Next]_vars => Places'
  <2> SUFFICES ASSUME TypeOK, Places, [Next]_vars PROVE Places'
    OBVIOUS
  <2>0. /\ calls \in Seq(AllKinds \cup {"disconnect"}) /\ Len(calls) \in Nat
        /\ fromThread \in Seq(Calls) /\ MaxCalls \in Nat
        /\ returned \in [Calls -> Results \cup {Nothing}]
    BY ProxyAssumption DEF TypeOK
  <2>1. ASSUME NEW kind \in Kinds \cup {"disconnect"}, Call(kind) PROVE Places'
    <3>1. /\ calls' = Append(calls, kind) /\ Len(calls') = Len(calls) + 1
          /\ fromThread' = Append(fromThread, Len(calls) + 1) /\ Len(calls) + 1 \in Calls
          /\ \A c \in 1..Len(calls) : calls'[c] = calls[c]
          /\ UNCHANGED <<returned, queue, chain, running>>
      BY <2>0, <2>1, ProxyAssumption DEF Call, This, Calls, reactorVars, AllKinds
    <3>2. \A x : In(fromThread', x) <=> (In(fromThread, x) \/ x = Len(calls) + 1)
      BY <2>0, <3>1, InAppend
    <3>3. \A c \in 1..Len(calls') : c \in 1..Len(calls) \/ c = Len(calls) + 1
      BY <2>0, <3>1
    <3>4. \A d \in Calls : d > Len(calls') \/ d = Len(calls') => returned'[d] = Nothing
      BY <2>0, <3>1 DEF Places, This, Calls
    <3>5. \A c \in 1..Len(calls') : calls'[c] # "disconnect" => Found(c)'
      BY <3>1, <3>2, <3>3 DEF Found, Gave, Places, This
    <3> QED
      BY <3>1, <3>4, <3>5 DEF Places, This
  <2>2. CASE GetResult
    <3>1. /\ queue' \in Seq(Answers) /\ \A d \in Calls \ {This} : returned'[d] = returned[d]
          /\ \A x \in Answers : Gave(x) <=> Gave(x)'
      BY <2>2, ApplicationHears
    <3>2. app' = "idle" /\ UNCHANGED <<calls, fromThread, chain, running>>
      BY <2>2 DEF GetResult, reactorVars
    <3>3. \A c \in 1..This : \A o \in Outcomes : Answer(c, o) \in Answers
      BY <2>0, ProxyAssumption DEF TypeOK, Answer, Answers, This, Calls
    <3>4. \A c \in 1..This : Found(c) => Found(c)'
      BY <3>1, <3>2, <3>3 DEF Found
    <3>5. \A d \in Calls : d > This => d # This
      BY <2>0 DEF This, Calls
    <3> QED
      BY <3>1, <3>2, <3>4, <3>5 DEF Places, This
  <2>3. CASE TimeOut
    <3>1. /\ app' = "idle" /\ UNCHANGED <<calls, fromThread, queue, chain, running>>
          /\ returned' = [returned EXCEPT ![This] = [call |-> This, is |-> "timeout"]]
          /\ returned[This] = Nothing /\ This \in Calls
      BY <2>3 DEF TimeOut, reactorVars, Places
    <3>2. /\ \A d \in Calls \ {This} : returned'[d] = returned[d]
          /\ \A d \in Calls : d > This => d # This
      BY <2>0, <3>1 DEF This, Calls
    <3>3. \A c \in 1..This : \A o \in Outcomes : Answer(c, o) # Nothing
      BY <2>0 DEF Answer, Nothing, This
    <3>4. \A c \in 1..This : Found(c) => Found(c)'
      BY <3>1, <3>2, <3>3 DEF Found, Gave
    <3> QED
      BY <3>1, <3>2, <3>4 DEF Places, This
  <2>4. CASE Reactor \/ DeferredFires
    BY <2>4, ReactorMoves DEF Places, This
  <2>5. CASE Disconnected
    BY <2>5 DEF Disconnected, reactorVars, Places, This, Found, Gave
  <2>6. CASE ConnectionMade \/ ConnectionFailed \/ ConnectionLost \/ UNCHANGED vars
    BY <2>6 DEF ConnectionMade, ConnectionFailed, ConnectionLost, vars, appVars, reactorVars,
                Places, This, Found, Gave
  <2> QED
    BY <2>1, <2>2, <2>3, <2>4, <2>5, <2>6 DEF Next, App
<1> QED
  BY <1>1, <1>2, TypeCorrect, PTL DEF Spec

\* No call of any application is lost between the threads: what it gave up
\* waiting for is still done, and its outcome kept for whoever asks next.
THEOREM NothingLost == Spec => []NoCallLost
<1>1. TypeOK /\ Places => NoCallLost
  <2> SUFFICES ASSUME TypeOK, Places, NEW c \in 1..This, calls[c] # "disconnect"
               PROVE  \/ \E i \in 1..Len(fromThread) : fromThread[i] = c
                      \/ \E i \in 1..Len(chain) : chain[i] = c
                      \/ c \in running
                      \/ \E i \in 1..Len(queue) : queue[i].call = c
                      \/ \E d \in Calls : returned[d].call = c /\ returned[d].is # "timeout"
    BY DEF NoCallLost
  <2>1. Found(c)
    BY DEF Places
  <2>2. CASE \E o \in Outcomes : Gave(Answer(c, o))
    BY <2>2 DEF Gave, In, Answer, Outcomes
  <2> QED
    BY <2>1, <2>2 DEF Found, In
<1> QED
  BY <1>1, CallsPlaced, TypeCorrect, PTL

-----------------------------------------------------------------------------
\* Answers come in the order of the calls.
Waits(c) == In(fromThread, c) \/ In(chain, c)
Sorted(q) == \A i, j \in 1..Len(q) : i < j => q[i].call < q[j].call
AnswersFirst ==
  /\ Sorted(queue) /\ running \subseteq ran
  /\ \A x : In(queue, x) => x.call \in 1..This /\ \A c : Waits(c) \/ c \in running => x.call < c

\* What the order of the calls means for those that wait.
LEMMA WaitingOrder ==
  ASSUME Queued
  PROVE  /\ \A c, d : In(chain, c) /\ In(fromThread, d) => c < d
         /\ \A d \in ran : \A c : Waits(c) => d < c
         /\ \A c : Waits(c) => c \in 1..This
         /\ ran \subseteq 1..This
<1>1. fromThread \in Seq(1..This) /\ chain \in Seq(1..This)
  BY DEF Queued
<1>2. \A S : \A s \in Seq(S) : \A i \in 1..Len(s) : s[i] \in S
  OBVIOUS
<1>3. /\ \A i \in 1..Len(fromThread) : fromThread[i] \in 1..This
      /\ \A i \in 1..Len(chain) : chain[i] \in 1..This
  BY <1>1, <1>2
<1> QED
  BY <1>3 DEF Queued, In, Waits

\* A callback that is due is in front of all that waits, and nothing is running.
LEMMA DueFirst ==
  ASSUME TypeOK, Queued, NEW c \in Calls, Due(c), UNCHANGED fromThread
  PROVE  /\ c \in 1..This /\ Waits(c) /\ running = {}
         /\ \A x : Waits(x)' => Waits(x) /\ c < x
<1>1. chain # <<>> /\ c = Head(chain) /\ chain' = Tail(chain) /\ running = {}
  BY DEF Due, Quiet
<1>2. \A x : In(chain, x) <=> (x = c \/ In(chain', x))
  BY DueTaken
<1>3. Len(calls) \in Nat /\ chain \in Seq(1..Len(calls)) /\ Increasing(chain)
  BY DEF Queued, This
<1>4. \A i \in 1..Len(chain') : c < chain'[i]
  BY <1>1, <1>3, TailIncreasing
<1>5. \A x : In(chain', x) => c < x
  BY <1>4 DEF In
<1> QED
  BY <1>1, <1>2, <1>5, WaitingOrder DEF Waits

\* Sorted answers stay sorted.
LEMMA SortedTail ==
  ASSUME NEW q \in Seq(Answers), q # <<>>, Sorted(q)
  PROVE  Sorted(Tail(q)) /\ \A x : In(Tail(q), x) => Head(q).call < x.call
<1>1. /\ Len(q) \in Nat \ {0} /\ Len(Tail(q)) = Len(q) - 1 /\ Head(q) = q[1]
      /\ \A i \in 1..(Len(q) - 1) : Tail(q)[i] = q[i + 1]
  OBVIOUS
<1>2. \A i \in 1..(Len(q) - 1) : i + 1 \in 1..Len(q) /\ 1 < i + 1 /\ 1 \in 1..Len(q)
  BY <1>1
<1>3. \A i, j \in 1..(Len(q) - 1) : i < j => i + 1 < j + 1
  BY <1>1
<1> QED
  BY <1>1, <1>2, <1>3 DEF Sorted, In

\* An answer of a later call goes to the end.
LEMMA SortedAppend ==
  ASSUME NEW q \in Seq(Answers), NEW e \in Answers, Sorted(q),
         \A x : In(q, x) => x.call < e.call
  PROVE  Sorted(Append(q, e))
<1>1. /\ Len(q) \in Nat /\ Len(Append(q, e)) = Len(q) + 1 /\ Append(q, e)[Len(q) + 1] = e
      /\ \A i \in 1..Len(q) : Append(q, e)[i] = q[i]
  OBVIOUS
<1>2. \A i, j \in 1..(Len(q) + 1) : i < j => i \in 1..Len(q) /\ (j \in 1..Len(q) \/ j = Len(q) + 1)
  BY <1>1
<1>3. \A i \in 1..Len(q) : q[i].call < e.call
  BY DEF In
<1> QED
  BY <1>1, <1>2, <1>3 DEF Sorted

\* An answer put behind smaller ones leaves the queue sorted.
LEMMA PutSorted ==
  ASSUME Places, AnswersFirst, NEW c \in Calls, NEW o \in Outcomes, NEW next, Put(c, o, next),
         \A x : In(queue, x) => x.call < c
  PROVE  Sorted(queue')
<1>1. Answer(c, o) \in Answers /\ Answer(c, o).call = c
  BY DEF Answer, Answers
<1>2. queue \in Seq(Answers) /\ queue' = Append(queue, Answer(c, o)) /\ Sorted(queue)
  BY DEF Places, AnswersFirst, Put, Answer
<1> QED
  BY <1>1, <1>2, SortedAppend

\* Answers wait in the order of their calls, before those of calls not yet run.
LEMMA AnswersOrdered == Spec => []AnswersFirst
<1>1. Init => AnswersFirst
  BY DEF Init, AnswersFirst, Sorted, In
<1>2. TypeOK /\ AtMostOne /\ Queued /\ Places /\ AnswersFirst /\ [Next]_vars => AnswersFirst'
  <2> SUFFICES ASSUME TypeOK, AtMostOne, Queued, Places, AnswersFirst, [Next]_vars
               PROVE  AnswersFirst'
    OBVIOUS
  <2>0. /\ calls \in Seq(AllKinds \cup {"disconnect"}) /\ Len(calls) \in Nat
        /\ fromThread \in Seq(Calls) /\ chain \in Seq(Calls)
    BY DEF TypeOK
  <2>1. ASSUME NEW kind \in Kinds \cup {"disconnect"}, Call(kind) PROVE AnswersFirst'
    <3>1. /\ Len(calls') = Len(calls) + 1 /\ Len(calls) + 1 \in Calls
          /\ fromThread' = Append(fromThread, Len(calls) + 1)
          /\ UNCHANGED <<queue, chain, running, ran>>
      BY <2>0, <2>1, ProxyAssumption DEF Call, This, Calls, reactorVars, AllKinds
    <3>2. \A x : In(fromThread', x) <=> (In(fromThread, x) \/ x = Len(calls) + 1)
      BY <2>0, <3>1, InAppend
    <3>3. \A n \in 1..Len(calls) : n \in 1..Len(calls') /\ n < Len(calls) + 1
      BY <2>0, <3>1
    <3> QED
      BY <3>1, <3>2, <3>3 DEF AnswersFirst, Waits, This
  <2>2. CASE GetResult
    <3>1. /\ queue # <<>> /\ queue' = Tail(queue) /\ queue \in Seq(Answers)
          /\ UNCHANGED <<calls, fromThread, chain, running, ran>>
      BY <2>2 DEF GetResult, reactorVars, Places
    <3>2. \A x : In(queue', x) => In(queue, x)
      BY <3>1, InTail
    <3>3. Sorted(queue')
      BY <3>1, SortedTail DEF AnswersFirst
    <3> QED
      BY <3>1, <3>2, <3>3 DEF AnswersFirst, Waits, This
  <2>3. CASE RunFromThread
    <3>1. /\ fromThread # <<>> /\ fromThread' = Tail(fromThread)
          /\ chain' = Append(chain, Head(fromThread)) /\ Head(fromThread) \in Calls
          /\ UNCHANGED <<calls, queue, running, ran>>
      BY <2>0, <2>3 DEF RunFromThread, appVars
    <3>2. \A x : In(fromThread, x) <=> (x = Head(fromThread) \/ In(fromThread', x))
      BY <2>0, <3>1, InTail
    <3>3. \A x : In(chain', x) <=> (In(chain, x) \/ x = Head(fromThread))
      BY <2>0, <3>1, InAppend
    <3> QED
      BY <3>1, <3>2, <3>3 DEF AnswersFirst, Waits, This
  <2>4. ASSUME NEW c \in Calls, Due(c), NEW o \in Outcomes, NEW next, Put(c, o, next),
               UNCHANGED <<calls, fromThread, running>>, ran \subseteq ran'
        PROVE  AnswersFirst'
    <3>1. /\ c \in 1..This /\ Waits(c) /\ running = {}
          /\ \A x : Waits(x)' => Waits(x) /\ c < x
      BY <2>4, DueFirst
    <3>2. \A x : In(queue', x) <=> (In(queue, x) \/ x = Answer(c, o))
      BY <2>4, PutGives
    <3>3. Sorted(queue')
      BY <2>4, <3>1, PutSorted DEF AnswersFirst
    <3>4. Answer(c, o).call = c
      BY DEF Answer
    <3> QED
      BY <2>4, <3>1, <3>2, <3>3, <3>4 DEF AnswersFirst, This
  <2>5. CASE NotConnected
    BY <2>4, <2>5 DEF NotConnected, appVars, Outcomes
  <2>6. CASE ThreadedCall
    <3>1. PICK c \in Calls :
            /\ Due(c) /\ UNCHANGED <<calls, fromThread>> /\ ran \subseteq ran'
            /\ \/ UNCHANGED running /\ \E o \in Outcomes : \E next : Put(c, o, next)
               \/ running' = running \cup {c} /\ c \in ran' /\ UNCHANGED queue
      BY <2>6 DEF ThreadedCall, appVars, Outcomes
    <3>2. CASE running' = running \cup {c} /\ c \in ran' /\ UNCHANGED queue
      <4>1. Waits(c) /\ running = {} /\ \A x : Waits(x)' => Waits(x)
        BY <3>1, DueFirst
      <4> QED
        BY <3>1, <3>2, <4>1 DEF AnswersFirst, This
    <3> QED
      BY <2>4, <3>1, <3>2
  <2>7. CASE Disconnector
    <3>1. PICK c \in Calls : Due(c) /\ UNCHANGED <<calls, fromThread, queue, running, ran>>
      BY <2>7 DEF Disconnector, appVars
    <3>2. \A x : Waits(x)' => Waits(x)
      BY <3>1, DueFirst
    <3> QED
      BY <3>1, <3>2 DEF AnswersFirst, This
  <2>8. CASE DeferredFires
    <3>1. PICK c \in running :
            /\ running' = running \ {c} /\ UNCHANGED <<calls, fromThread, chain, ran>>
            /\ \E o \in Outcomes : \E next : Put(c, o, next)
      BY <2>8 DEF DeferredFires, appVars, Outcomes
    <3>2. PICK o \in Outcomes : \E next : Put(c, o, next)
      BY <3>1
    <3>3. c \in Calls /\ c \in 1..This /\ running' = {} /\ \A x : Waits(x) => c < x
      BY <3>1, WaitingOrder DEF AtMostOne, AnswersFirst, TypeOK
    <3>4. \A x : In(queue', x) <=> (In(queue, x) \/ x = Answer(c, o))
      BY <3>2, <3>3, PutGives
    <3>5. Sorted(queue')
      BY <3>1, <3>2, <3>3, PutSorted DEF AnswersFirst
    <3>6. Answer(c, o).call = c
      BY DEF Answer
    <3> QED
      BY <3>1, <3>3, <3>4, <3>5, <3>6 DEF AnswersFirst, Waits, This
  <2>9. CASE UNCHANGED <<calls, fromThread, chain, running, ran, queue>>
    BY <2>9 DEF AnswersFirst, Waits, This
  <2>10. \/ UNCHANGED <<calls, fromThread, chain, running, ran, queue>>
         \/ GetResult \/ RunFromThread \/ NotConnected \/ ThreadedCall \/ Disconnector
         \/ DeferredFires \/ \E kind \in Kinds \cup {"disconnect"} : Call(kind)
    BY DEF Next, App, Reactor, vars, appVars, reactorVars, TimeOut, Disconnected,
           ConnectionMade, ConnectionFailed, ConnectionLost
  <2> QED
    BY <2>1, <2>2, <2>3, <2>5, <2>6, <2>7, <2>8, <2>9, <2>10
<1> QED
  BY <1>1, <1>2, TypeCorrect, Unshared, StaysQueued, CallsPlaced, PTL DEF Spec

-----------------------------------------------------------------------------
\* A call that takes the client out of the chain: it returned None, or failed,
\* whether the application has heard of that or not.
Failure(c) == Answer(c, "failure")
Culprit(e) == e \in 1..This /\ (calls[e] = "none" \/ Gave(Failure(e)))

HeardPart ==
  connection = "open" =>
    \A c \in Calls : Failed(c) /\ c \notin ran
                      => \E e \in 1..This : e < c /\ (calls[e] = "none" \/ Failed(e))

\* Behind every failure of a call that never ran there is such a call, and
\* there is one in front of all that waits once the chain has lost the client.
Explained ==
  /\ connection = "connecting" => value = "unfired" /\ \A c \in Calls : ~Gave(Failure(c))
  /\ connection = "open" =>
       /\ \A c \in Calls : Gave(Failure(c)) /\ c \notin ran => \E e : e < c /\ Culprit(e)
       /\ value \in {"none", "failure"} => \E e : Culprit(e) /\ \A c : Waits(c) => e < c
  /\ HeardPart

\* Failed and Gave say the same of an answer the application has.
LEMMA FailedGave == \A c \in Calls : Failed(c) => Gave(Failure(c))
BY DEF Failed, Gave, Failure, Answer

\* A step after which the application has what it had changes nothing of what it
\* knows, on a connection that was open.
LEMMA UnheardKept ==
  ASSUME HeardPart, UNCHANGED <<calls, returned>>, ran \subseteq ran',
         connection' = "open" => connection = "open"
  PROVE  HeardPart'
BY DEF HeardPart, Failed, This

\* A culprit stays one.
LEMMA CulpritStays ==
  ASSUME UNCHANGED <<calls, returned>>, \A x : In(queue, x) => In(queue', x)
  PROVE  \A e : Culprit(e) => Culprit(e)'
BY DEF Culprit, Gave, This

\* The call that is due leaves the chain with an answer: a failure that an earlier
\* call explains, or one of its own.
LEMMA DueExplained ==
  ASSUME TypeOK, Queued, Places, Explained, HeardPart',
         NEW c \in Calls, Due(c), NEW o \in Outcomes, NEW next, Put(c, o, next),
         UNCHANGED <<calls, returned, fromThread, connection>>, value # "unfired",
         \/ value \in {"none", "failure"} /\ next = "failure" /\ ran' = ran
         \/ /\ ran' = ran \cup {c}
            /\ next \in {"none", "failure"} => calls[c] = "none" \/ o = "failure"
  PROVE  Explained'
<1>1. /\ c \in 1..This /\ Waits(c) /\ \A x : Waits(x)' => Waits(x) /\ c < x
  BY DueFirst
<1>2. \A x : In(queue', x) <=> (In(queue, x) \/ x = Answer(c, o))
  BY PutGives
<1>3. \A e : Culprit(e) => Culprit(e)'
  BY <1>2, CulpritStays
<1>4. \A d \in Calls : Gave(Failure(d))' => Gave(Failure(d)) \/ (d = c /\ o = "failure")
  <2>1. \A d \in Calls : Failure(d) = Answer(c, o) => d = c /\ o = "failure"
    BY DEF Failure, Answer
  <2> QED
    BY <1>2, <2>1 DEF Gave
<1>5. o = "failure" => Gave(Failure(c))'
  BY <1>2 DEF Gave, Failure
<1>6. value' = next
  BY DEF Put
<1>7. connection' # "connecting"
  BY DEF Explained
<1>8. CASE value \in {"none", "failure"} /\ next = "failure" /\ ran' = ran
  <2>1. SUFFICES ASSUME connection = "open"
                 PROVE  /\ \A d \in Calls : Gave(Failure(d))' /\ d \notin ran'
                                              => \E e : e < d /\ Culprit(e)'
                        /\ \E e : Culprit(e)' /\ \A d : Waits(d)' => e < d
    BY <1>7 DEF Explained
  <2>2. PICK e : Culprit(e) /\ \A d : Waits(d) => e < d
    BY <1>8, <2>1 DEF Explained
  <2>3. e < c /\ Culprit(e)' /\ \A d : Waits(d)' => e < d
    BY <1>1, <1>3, <2>2
  <2> QED
    BY <1>3, <1>4, <1>8, <2>1, <2>3 DEF Explained
<1>9. CASE /\ ran' = ran \cup {c}
           /\ next \in {"none", "failure"} => calls[c] = "none" \/ o = "failure"
  <2>1. SUFFICES ASSUME connection = "open"
                 PROVE  /\ \A d \in Calls : Gave(Failure(d))' /\ d \notin ran'
                                              => \E e : e < d /\ Culprit(e)'
                        /\ value' \in {"none", "failure"}
                             => \E e : Culprit(e)' /\ \A d : Waits(d)' => e < d
    BY <1>7 DEF Explained
  <2>2. next \in {"none", "failure"} => Culprit(c)'
    BY <1>1, <1>5, <1>9 DEF Culprit, This
  <2> QED
    BY <1>1, <1>3, <1>4, <1>6, <1>9, <2>1, <2>2 DEF Explained
<1> QED
  BY <1>8, <1>9

\* While the connection is up, a call fails without its method being invoked only
\* behind a call that failed or returned None, however many calls there are and
\* whatever the application gave up waiting for.
THEOREM FailuresExplained == Spec => []CallRunsMethod
<1>1. Init => Explained
  <2> SUFFICES ASSUME Init PROVE Explained
    OBVIOUS
  <2>1. connection = "connecting" /\ value = "unfired" /\ queue = <<>>
        /\ \A d \in Calls : returned[d] = Nothing
    BY DEF Init
  <2>2. \A c \in Calls : Failure(c) # Nothing
    BY DEF Failure, Answer, Nothing
  <2>3. \A x : ~In(queue, x)
    BY <2>1 DEF In
  <2> QED
    BY <2>1, <2>2, <2>3 DEF Explained, Gave, HeardPart
<1>2. TypeOK /\ AtMostOne /\ Queued /\ Places /\ AnswersFirst /\ Explained /\ [Next]_vars
        => Explained'
  <2> SUFFICES ASSUME TypeOK, AtMostOne, Queued, Places, AnswersFirst, Explained, [Next]_vars
               PROVE  Explained'
    OBVIOUS
  <2>0. /\ calls \in Seq(AllKinds \cup {"disconnect"}) /\ Len(calls) \in Nat
        /\ fromThread \in Seq(Calls) /\ chain \in Seq(Calls)
        /\ returned \in [Calls -> Results \cup {Nothing}] /\ HeardPart
    BY DEF TypeOK, Explained
  <2>1. ASSUME NEW kind \in Kinds \cup {"disconnect"}, Call(kind) PROVE Explained'
    <3>1. /\ Len(calls') = Len(calls) + 1 /\ Len(calls) + 1 \in Calls
          /\ \A c \in 1..Len(calls) : calls'[c] = calls[c] /\ c \in 1..Len(calls') /\ c < Len(calls) + 1
          /\ fromThread' = Append(fromThread, Len(calls) + 1)
          /\ UNCHANGED <<queue, returned, chain, ran, value, connection>>
      BY <2>0, <2>1, ProxyAssumption DEF Call, This, Calls, reactorVars, AllKinds
    <3>2. \A x : In(fromThread', x) <=> (In(fromThread, x) \/ x = Len(calls) + 1)
      BY <2>0, <3>1, InAppend
    <3>3. \A e : Culprit(e) => Culprit(e)' /\ e < Len(calls) + 1
      BY <3>1 DEF Culprit, Gave, This
    <3>4. \A x : Gave(x)' <=> Gave(x)
      BY <3>1 DEF Gave
    <3>5. HeardPart'
      BY <2>0, <3>1 DEF HeardPart, Failed, This
    <3> QED
      BY <3>1, <3>2, <3>3, <3>4, <3>5 DEF Explained, Waits
  <2>2. CASE GetResult
    <3>1. /\ \A x : In(queue, x) <=> (x = Head(queue) \/ In(queue', x))
          /\ returned'[This] = Head(queue) /\ This \in Calls /\ Head(queue) \in Answers
          /\ \A d \in Calls \ {This} : returned'[d] = returned[d]
          /\ \A x \in Answers : Gave(x) <=> Gave(x)'
      BY <2>2, ApplicationHears
    <3>2. /\ UNCHANGED <<calls, fromThread, chain, ran, value, connection>>
          /\ queue \in Seq(Answers) /\ queue # <<>> /\ queue' = Tail(queue)
          /\ returned[This] = Nothing
      BY <2>2 DEF GetResult, reactorVars, Places
    <3>3. \A c \in Calls : Failure(c) \in Answers /\ Failure(c) # Nothing
      BY DEF Failure, Answer, Answers, Outcomes, Nothing
    <3>4. \A c \in Calls : (Gave(Failure(c))' <=> Gave(Failure(c))) /\ (Failed(c) => Failed(c)')
      <4>1. \A c \in Calls : Failed(c) => Failed(c)'
        BY <3>1, <3>2, <3>3 DEF Failed, Failure, Answer
      <4> QED
        BY <3>1, <3>3, <4>1
    <3>5. \A e : e \in 1..This => e \in Calls
      BY <2>0, ProxyAssumption DEF TypeOK, This, Calls
    <3>6. \A e : Culprit(e) <=> Culprit(e)'
      BY <3>2, <3>4, <3>5 DEF Culprit, This
    <3>7. HeardPart'
      <4> SUFFICES ASSUME NEW c \in Calls, Failed(c)', connection' = "open", c \notin ran'
                   PROVE  \E e \in 1..This : e < c /\ (calls[e] = "none" \/ Failed(e)')
        BY <3>2 DEF HeardPart, This
      <4>1. CASE Failed(c)
        BY <2>0, <3>2, <3>4, <3>5, <4>1 DEF HeardPart
      <4>2. CASE ~Failed(c)
        <5>1. Head(queue) = Failure(c) /\ Gave(Failure(c))
          BY <3>1, <4>2 DEF Failed, Failure, Answer, Gave
        <5>2. PICK e : e < c /\ Culprit(e)
          BY <3>2, <5>1 DEF Explained
        <5>3. e \in 1..This /\ e \in Calls
          BY <3>5, <5>2 DEF Culprit
        <5>4. Head(queue).call = c /\ Failure(e).call = e
          BY <5>1 DEF Failure, Answer
        <5>5. ~In(queue', Failure(e))
          <6>1. In(queue', Failure(e)) => c < e
            BY <3>2, <5>4, SortedTail DEF AnswersFirst
          <6> QED
            BY <5>2, <5>3, <6>1 DEF Calls
        <5>6. calls[e] = "none" \/ Failed(e)'
          <6>1. Culprit(e)'
            BY <3>6, <5>2
          <6>2. calls[e] = "none" \/ \E d \in Calls : returned'[d] = Failure(e)
            BY <3>2, <5>5, <6>1 DEF Culprit, Gave
          <6> QED
            BY <6>2 DEF Failed, Failure, Answer
        <5> QED
          BY <5>2, <5>3, <5>6
      <4> QED
        BY <4>1, <4>2
    <3> QED
      BY <3>2, <3>4, <3>6, <3>7 DEF Explained, Waits
  <2>3. CASE TimeOut
    <3>1. /\ UNCHANGED <<calls, fromThread, queue, chain, ran, value, connection>>
          /\ returned' = [returned EXCEPT ![This] = [call |-> This, is |-> "timeout"]]
          /\ returned[This] = Nothing /\ This \in Calls
      BY <2>3 DEF TimeOut, reactorVars, Places
    <3>2. /\ \A d \in Calls \ {This} : returned'[d] = returned[d]
          /\ returned'[This] = [call |-> This, is |-> "timeout"]
      BY <2>0, <3>1
    <3>3. \A c \in Calls : Failure(c) # Nothing /\ Failure(c) # [call |-> This, is |-> "timeout"]
      BY DEF Failure, Answer, Nothing
    <3>4. \A c \in Calls : \A d \in Calls : returned'[d] = Failure(c) <=> returned[d] = Failure(c)
      BY <3>1, <3>2, <3>3
    <3>5. \A c \in Calls : (Gave(Failure(c))' <=> Gave(Failure(c))) /\ (Failed(c)' <=> Failed(c))
      BY <3>1, <3>4 DEF Gave, Failed, Failure, Answer
    <3>6. \A e : e \in 1..This => e \in Calls
      BY <2>0, ProxyAssumption DEF TypeOK, This, Calls
    <3>7. \A e : Culprit(e) <=> Culprit(e)'
      BY <3>1, <3>5, <3>6 DEF Culprit, This
    <3>8. HeardPart'
      BY <2>0, <3>1, <3>5, <3>6 DEF HeardPart, This
    <3> QED
      BY <3>1, <3>5, <3>7, <3>8 DEF Explained, Waits
  <2>4. CASE RunFromThread
    <3>1. /\ fromThread # <<>> /\ fromThread' = Tail(fromThread)
          /\ chain' = Append(chain, Head(fromThread)) /\ Head(fromThread) \in Calls
          /\ UNCHANGED <<calls, returned, queue, ran, value, connection>>
      BY <2>0, <2>4 DEF RunFromThread, appVars
    <3>2. \A x : In(fromThread, x) <=> (x = Head(fromThread) \/ In(fromThread', x))
      BY <2>0, <3>1, InTail
    <3>3. \A x : In(chain', x) <=> (In(chain, x) \/ x = Head(fromThread))
      BY <2>0, <3>1, InAppend
    <3>4. HeardPart'
      BY <2>0, <3>1, UnheardKept
    <3>5. (\A x : Waits(x)' <=> Waits(x)) /\ (\A x : Gave(x)' <=> Gave(x))
      BY <3>1, <3>2, <3>3 DEF Waits, Gave
    <3>6. \A e : Culprit(e) <=> Culprit(e)'
      BY <3>1, <3>5 DEF Culprit, This
    <3> QED
      BY <3>1, <3>4, <3>5, <3>6 DEF Explained
  <2>5. CASE NotConnected
    <3>1. PICK c \in Calls :
            /\ Due(c) /\ value = "failure" /\ Put(c, "failure", "failure")
            /\ UNCHANGED <<calls, returned, fromThread, connection, ran>>
      BY <2>5 DEF NotConnected, appVars
    <3>2. HeardPart'
      BY <2>0, <3>1, UnheardKept
    <3> QED
      BY <3>1, <3>2, DueExplained DEF Outcomes
  <2>6. CASE ThreadedCall
    <3>1. PICK c \in Calls :
            /\ Due(c) /\ UNCHANGED <<calls, returned, fromThread, connection>>
            /\ ran \subseteq ran' /\ value \in {"none", "protocol"}
            /\ \/ /\ value = "none" /\ ran' = ran /\ Put(c, "failure", "failure")
               \/ /\ ran' = ran \cup {c} /\ calls[c] = "self" /\ Put(c, "result", "protocol")
               \/ /\ ran' = ran \cup {c} /\ calls[c] = "none" /\ Put(c, "result", "none")
               \/ /\ ran' = ran \cup {c} /\ Put(c, "failure", "failure")
               \/ /\ value = "protocol" /\ UNCHANGED <<queue, value>>
      BY <2>6 DEF ThreadedCall, appVars
    <3>2. HeardPart'
      BY <2>0, <3>1, UnheardKept
    <3>3. CASE value = "protocol" /\ UNCHANGED <<queue, value>>
      <4>1. \A e : Culprit(e) => Culprit(e)'
        BY <3>1, <3>3, CulpritStays
      <4>2. \A x : Gave(x)' <=> Gave(x)
        BY <3>1, <3>3 DEF Gave
      <4> QED
        BY <3>1, <3>2, <3>3, <4>1, <4>2 DEF Explained
    <3>4. CASE value = "none" /\ ran' = ran /\ Put(c, "failure", "failure")
      BY <3>1, <3>2, <3>4, DueExplained DEF Outcomes
    <3>5. CASE ran' = ran \cup {c} /\ Put(c, "result", "protocol")
      BY <3>1, <3>2, <3>5, DueExplained DEF Outcomes
    <3>6. CASE ran' = ran \cup {c} /\ calls[c] = "none" /\ Put(c, "result", "none")
      BY <3>1, <3>2, <3>6, DueExplained DEF Outcomes
    <3>7. CASE ran' = ran \cup {c} /\ Put(c, "failure", "failure")
      BY <3>1, <3>2, <3>7, DueExplained DEF Outcomes
    <3> QED
      BY <3>1, <3>3, <3>4, <3>5, <3>6, <3>7
  <2>7. CASE Disconnector
    <3>1. PICK c \in Calls :
            /\ Due(c) /\ UNCHANGED <<calls, returned, fromThread, queue, ran>>
            /\ connection' = "connecting" => connection = "connecting"
            /\ connection' = "open" => /\ connection = "open"
                                       /\ value' \in {"none", "failure"} => value \in {"none", "failure"}
      BY <2>7 DEF Disconnector, appVars
    <3>2. (\A x : Waits(x)' => Waits(x)) /\ value # "unfired"
      BY <3>1, DueFirst DEF Due, Quiet
    <3>3. HeardPart'
      BY <2>0, <3>1, UnheardKept
    <3>4. \A x : Gave(x)' <=> Gave(x)
      BY <3>1 DEF Gave
    <3>5. \A e : Culprit(e) => Culprit(e)'
      BY <3>1, CulpritStays
    <3> QED
      BY <3>1, <3>2, <3>3, <3>4, <3>5 DEF Explained
  <2>8. CASE DeferredFires
    <3>1. PICK c \in running :
            /\ UNCHANGED <<calls, returned, fromThread, chain, ran, connection>>
            /\ \/ Put(c, "result", "protocol") \/ Put(c, "failure", "failure")
      BY <2>8 DEF DeferredFires, appVars
    <3>0. connection # "connecting"
      BY <3>1 DEF AtMostOne
    <3>2. c \in Calls /\ c \in ran /\ c \in 1..This /\ \A x : Waits(x) => c < x
      BY <3>1, WaitingOrder DEF AnswersFirst, TypeOK
    <3>3. HeardPart'
      BY <2>0, <3>1, UnheardKept
    <3>4. PICK o \in Outcomes : /\ \A x : In(queue', x) <=> (In(queue, x) \/ x = Answer(c, o))
                                /\ value' \in {"none", "failure"} => o = "failure"
      <4>1. CASE Put(c, "result", "protocol")
        <5>1. "result" \in Outcomes /\ value' = "protocol"
          BY <4>1 DEF Outcomes, Put
        <5>2. \A x : In(queue', x) <=> (In(queue, x) \/ x = Answer(c, "result"))
          BY <3>2, <4>1, <5>1, PutGives
        <5> QED
          BY <5>1, <5>2
      <4>2. CASE Put(c, "failure", "failure")
        <5>1. "failure" \in Outcomes
          BY DEF Outcomes
        <5>2. \A x : In(queue', x) <=> (In(queue, x) \/ x = Answer(c, "failure"))
          BY <3>2, <4>2, <5>1, PutGives
        <5> QED
          BY <5>1, <5>2
      <4> QED
        BY <3>1, <4>1, <4>2
    <3>5. \A e : Culprit(e) => Culprit(e)'
      BY <3>1, <3>4, CulpritStays
    <3>6. \A d \in Calls : Gave(Failure(d))' => Gave(Failure(d)) \/ d = c
      <4>1. \A d \in Calls : Failure(d) = Answer(c, o) => d = c
        BY DEF Failure, Answer
      <4> QED
        BY <3>1, <3>4, <4>1 DEF Gave
    <3>7. value' \in {"none", "failure"} => Culprit(c)'
      BY <3>1, <3>2, <3>4 DEF Culprit, Gave, Failure, This
    <3>8. \A x : Waits(x)' <=> Waits(x)
      BY <3>1 DEF Waits
    <3> QED
      BY <3>0, <3>1, <3>2, <3>3, <3>5, <3>6, <3>7, <3>8 DEF Explained
  <2>9. CASE ConnectionMade
    <3>1. /\ connection = "connecting" /\ connection' = "open" /\ value' = "protocol"
          /\ UNCHANGED <<calls, returned, queue>>
      BY <2>9 DEF ConnectionMade, appVars
    <3>2. \A c \in Calls : ~Gave(Failure(c))'
      BY <3>1 DEF Explained, Gave
    <3>3. \A c \in Calls : ~Failed(c)'
      BY <3>1, <3>2, FailedGave DEF Failed, Explained
    <3> QED
      BY <3>1, <3>2, <3>3 DEF Explained, HeardPart
  <2>10. CASE ConnectionFailed \/ ConnectionLost
    BY <2>10 DEF ConnectionFailed, ConnectionLost, Explained, HeardPart
  <2>11. CASE Disconnected \/ UNCHANGED vars
    BY <2>11 DEF Disconnected, vars, appVars, reactorVars, Explained, HeardPart, Failed,
                 Gave, Culprit, Waits, This
  <2> QED
    BY <2>1, <2>2, <2>3, <2>4, <2>5, <2>6, <2>7, <2>8, <2>9, <2>10, <2>11 DEF Next, App, Reactor
<1>3. TypeOK /\ Explained => CallRunsMethod
  <2> SUFFICES ASSUME TypeOK, HeardPart PROVE CallRunsMethod
    BY DEF Explained
  <2>1. \A c \in Calls : \A e \in 1..This : e < c => e \in 1..(c - 1)
    BY DEF TypeOK, This, Calls
  <2> QED
    BY <2>1 DEF HeardPart, CallRunsMethod
<1> QED
  BY <1>1, <1>2, <1>3, TypeCorrect, Unshared, StaysQueued, CallsPlaced, AnswersOrdered, PTL DEF Spec
=============================================================================
