-------------------------- MODULE CommandLineProofs ---------------------------
(***************************************************************************)
(* What holds of every vncdo run, however many actions it has.             *)
(***************************************************************************)
EXTENDS CommandLine, TLAPS

\* Whatever the command line and however the run goes, its state keeps its
\* types: in particular the exit status is one of the table in command.py.
THEOREM TypeCorrect == Spec => []TypeOK
<1>1. Init => TypeOK
  <2> SUFFICES ASSUME Init PROVE TypeOK
    OBVIOUS
  <2>1. PICK n \in 1..MaxWords : args \in [1..n -> Words]
    BY DEF Init
  <2>2. args \in Seq(AllWords)
    BY <2>1, CommandAssumption
  <2>3. wanted \in Nat
    BY <2>2 DEF Init
  <2>4. delay \in BOOLEAN /\ password \in BOOLEAN
    BY CommandAssumption DEF Init
  <2> QED
    BY <2>2, <2>3, <2>4 DEF Init, TypeOK, Statuses, Documented
<1>2. TypeOK /\ [Next]_vars => TypeOK'
  <2> SUFFICES ASSUME TypeOK, [Next]_vars PROVE TypeOK'
    OBVIOUS
  <2> USE DEF TypeOK, Statuses, commands
  <2>1. CASE ParseAction
    <3> DEFINE S == AllWords \cup {"pause", "loseConnection", "done"}
               pause == IF delay /\ Tail(args) # <<>> THEN <<"pause">> ELSE <<>>
    <3>1. Head(args) \in AllWords /\ Tail(args) \in Seq(AllWords)
      BY <2>1 DEF ParseAction
    <3>2. "pause" \in S /\ Head(args) \in S
      BY <3>1
    <3>3. chain \in Seq(S) /\ chain' = Append(chain, Head(args)) \o pause
      BY <2>1 DEF ParseAction
    <3> HIDE DEF S
    <3>4. <<"pause">> \in Seq(S) /\ <<>> \in Seq(S)
      BY <3>2
    <3>5. pause \in Seq(S)
      BY <3>4
    <3> HIDE DEF pause
    <3>6. chain' \in Seq(S)
      BY <3>2, <3>3, <3>5
    <3> QED
      BY <2>1, <3>1, <3>6 DEF ParseAction, S
  <2>2. CASE ParseError
    BY <2>2 DEF ParseError, Documented
  <2>3. CASE BuildTool
    BY <2>3 DEF BuildTool
  <2>4. CASE Stop
    BY <2>4 DEF Stop
  <2>5. CASE Interrupt
    BY <2>5 DEF Interrupt, Documented
  <2>6. CASE TimerFires
    BY <2>6 DEF TimerFires, Done, Documented
  <2>7. CASE ConnectFails
    BY <2>7 DEF ConnectFails, Done, Connection, Documented
  <2>8. CASE TransportConnected
    BY <2>8 DEF TransportConnected, Connection
  <2>9. CASE HandshakeDone
    BY <2>9 DEF HandshakeDone, Connection
  <2>10. CASE AuthenticationFails
    BY <2>10 DEF AuthenticationFails, Done, Connection, Documented
  <2>11. CASE ProtocolFails
    BY <2>11 DEF ProtocolFails, Done, Connection, Documented
  <2>12. CASE ConnectionLost
    BY <2>12 DEF ConnectionLost, Done, Connection, Documented
  <2>13. CASE DecoderRaises
    BY <2>13 DEF DecoderRaises, Done, Connection, Documented
  <2>14. CASE RunAction
    BY <2>14 DEF RunAction, Due
  <2>15. CASE ActionCompletes
    BY <2>15 DEF ActionCompletes
  <2>16. CASE ActionFails
    BY <2>16 DEF ActionFails, Due, Done, Documented
  <2>17. CASE Finish
    BY <2>17 DEF Finish, Due, Done, Documented
  <2>18. CASE UNCHANGED vars
    BY <2>18 DEF vars
  <2>19. CASE UnknownResult \/ AskPassword
    BY <2>19 DEF UnknownResult, AskPassword, Connection
  <2>20. CASE PromptEnds
    BY <2>20 DEF PromptEnds, Done, Documented
  <2>21. CASE EmptyReason
    BY <2>21 DEF EmptyReason, Done, Documented
  <2> QED
    BY <2>1, <2>2, <2>3, <2>4, <2>5, <2>6, <2>7, <2>8, <2>9, <2>10, <2>11, <2>12,
       <2>13, <2>14, <2>15, <2>16, <2>17, <2>18, <2>19, <2>20, <2>21 DEF Next, Chain
<1> QED
  BY <1>1, <1>2, PTL DEF Spec

-----------------------------------------------------------------------------
\* Before an outcome is decided the process parses or runs, and a process about
\* to stop has the status documented for its cause.
OutcomeInv ==
  /\ process \in {"parsing", "running"} => exitStatus = "None"
  /\ process = "stopping" /\ cause \in DOMAIN Documented => exitStatus = Documented[cause]
  /\ StatusNamesCause

\* A step that calls done keeps the outcome and its cause together.
LEMMA DoneKeepsOutcome ==
  ASSUME NEW why, NEW code, why \in DOMAIN Documented => code = Documented[why],
         OutcomeInv, Alive, Done(why, code), UNCHANGED status
  PROVE  OutcomeInv'
BY DEF OutcomeInv, StatusNamesCause, Alive, Done, Documented

\* vncdo exits with the documented status of what happened first, whatever
\* happened afterwards.
THEOREM StatusCorrect == Spec => []StatusNamesCause
<1>1. Init => OutcomeInv
  BY DEF Init, OutcomeInv, StatusNamesCause
<1>2. OutcomeInv /\ [Next]_vars => OutcomeInv'
  <2> SUFFICES ASSUME OutcomeInv, [Next]_vars PROVE OutcomeInv'
    OBVIOUS
  <2> USE DEF commands, Connection, Running
  <2>1. CASE ParseError
    BY <2>1 DEF ParseError, OutcomeInv, StatusNamesCause, Documented
  <2>2. CASE ParseAction \/ BuildTool \/ TransportConnected \/ HandshakeDone
             \/ UnknownResult \/ AskPassword \/ RunAction \/ ActionCompletes
    BY <2>2 DEF ParseAction, BuildTool, TransportConnected, HandshakeDone, RunAction,
                UnknownResult, AskPassword, ActionCompletes, Due, Alive, OutcomeInv,
                StatusNamesCause
  <2>3. CASE Stop \/ Interrupt
    BY <2>3 DEF Stop, Interrupt, OutcomeInv, StatusNamesCause, Documented
  <2>4. CASE TimerFires
    BY <2>4, DoneKeepsOutcome DEF TimerFires, Documented
  <2>5. CASE ConnectFails
    BY <2>5, DoneKeepsOutcome DEF ConnectFails, Documented
  <2>6. CASE AuthenticationFails
    BY <2>6, DoneKeepsOutcome DEF AuthenticationFails, Documented
  <2>7. CASE ProtocolFails
    BY <2>7, DoneKeepsOutcome DEF ProtocolFails, Documented
  <2>8. CASE ConnectionLost
    BY <2>8, DoneKeepsOutcome DEF ConnectionLost, Documented
  <2>9. CASE ActionFails
    BY <2>9, DoneKeepsOutcome DEF ActionFails, Due, Documented
  <2>10. CASE Finish
    BY <2>10, DoneKeepsOutcome DEF Finish, Due, Documented
  <2>11. CASE DecoderRaises
    BY <2>11, DoneKeepsOutcome DEF DecoderRaises, Documented
  <2>12. CASE UNCHANGED vars
    BY <2>12 DEF vars, OutcomeInv, StatusNamesCause
  <2>13. CASE PromptEnds
    <3>1. Alive /\ UNCHANGED status
      BY <2>13 DEF PromptEnds
    <3>2. UNCHANGED <<exitStatus, process, cause>> \/ Done("escaped", "CONNECTION_LOST")
      BY <2>13 DEF PromptEnds
    <3>3. CASE UNCHANGED <<exitStatus, process, cause>>
      BY <3>1, <3>3 DEF OutcomeInv, StatusNamesCause
    <3>4. CASE Done("escaped", "CONNECTION_LOST")
      BY <3>1, <3>4, DoneKeepsOutcome DEF Documented
    <3> QED
      BY <3>2, <3>3, <3>4
  <2>14. CASE EmptyReason
    BY <2>14, DoneKeepsOutcome DEF EmptyReason, Documented
  <2> QED
    BY <2>1, <2>2, <2>3, <2>4, <2>5, <2>6, <2>7, <2>8, <2>9, <2>10, <2>11, <2>12, <2>13,
       <2>14 DEF Next, Chain
<1>3. OutcomeInv => StatusNamesCause
  BY DEF OutcomeInv
<1> QED
  BY <1>1, <1>2, <1>3, PTL DEF Spec

-----------------------------------------------------------------------------
\* What build_command_list made of the words parsed so far, and what is left of
\* it: actions, with a pause between two of them if there is a --delay.
Work == {"now", "later", "failing"}
Alternates(n) ==
  \A i \in 1..n :
    /\ chain[i] \in Work \cup {"pause"}
    /\ ~delay => chain[i] # "pause"
    /\ delay /\ i < n => (chain[i] = "pause" <=> chain[i + 1] # "pause")

\* Actions in the chain: those asked for that are not completed, not on their way
\* and not still to be parsed.
Waiting == IF chainState = "waiting" THEN 1 ELSE 0
Owed == wanted - completed - Waiting - Len(args)

ParsedPart ==
  process = "parsing" =>
    /\ chainState = "unfired" /\ Alternates(Len(chain))
    /\ ~delay => Len(chain) = Owed
    /\ delay => /\ Len(chain) = 2 * Owed - (IF args = <<>> THEN 1 ELSE 0)
                /\ chain # <<>> => /\ chain[1] # "pause"
                                   /\ chain[Len(chain)] = "pause" <=> args # <<>>

RemainingPart ==
  process \in {"running", "stopping"} /\ chainState # "ended" =>
    /\ Len(chain) >= 2 /\ args = <<>>
    /\ chain[Len(chain) - 1] = "loseConnection" /\ chain[Len(chain)] = "done"
    /\ Alternates(Len(chain) - 2)
    /\ ~delay => Owed = Len(chain) - 2
    /\ delay => IF Len(chain) = 2 THEN Owed = 0
                ELSE /\ chain[Len(chain) - 2] # "pause"
                     /\ 2 * Owed = Len(chain) - (IF chain[1] = "pause" THEN 2 ELSE 1)

SuccessPart ==
  /\ exitStatus = "SUCCESS" => chainState = "ended" /\ completed = wanted
  /\ status = "SUCCESS" => exitStatus = "SUCCESS"

\* factory.deferred does not fire before the handshake is done.
Early == {"none", "connecting", "handshake"}
UnfiredPart == connection \in Early => chainState = "unfired"

Accounted == ParsedPart /\ RemainingPart /\ SuccessPart /\ UnfiredPart

\* A step that leaves the chain and the actions alone leaves the account alone,
\* unless it reports success.
LEMMA AccountKept ==
  ASSUME Accounted, UNCHANGED <<delay, args, wanted, chain, completed, status>>,
         UNCHANGED chainState \/ (chainState = "unfired" /\ chainState' = "ready"),
         process \in {"running", "stopping"}, process' \in {"running", "stopping"},
         exitStatus' = exitStatus \/ exitStatus' # "SUCCESS",
         exitStatus = "SUCCESS" => exitStatus' = exitStatus,
         connection' \in Early => connection \in Early /\ chainState' = chainState
  PROVE  Accounted'
<1>1. ParsedPart'
  BY DEF ParsedPart
<1>2. RemainingPart'
  BY DEF Accounted, RemainingPart, Alternates, Owed, Waiting
<1>3. SuccessPart'
  BY DEF Accounted, SuccessPart
<1>4. UnfiredPart'
  BY DEF Accounted, UnfiredPart
<1> QED
  BY <1>1, <1>2, <1>3, <1>4 DEF Accounted

\* vncdo exits with 0 only when every action on the command line, however many
\* there are and whatever --delay put between them, completed.
THEOREM SuccessEarned == Spec => []SuccessMeansCompleted
<1>1. Init => Accounted
  <2> SUFFICES ASSUME Init PROVE Accounted
    OBVIOUS
  <2>1. PICK n \in 1..MaxWords : args \in [1..n -> Words]
    BY DEF Init
  <2>2. Len(args) = n /\ n \in Nat \ {0} /\ args # <<>>
    BY <2>1, CommandAssumption
  <2>3. chain = <<>> /\ Owed = 0
    BY <2>2 DEF Init, Owed, Waiting
  <2>4. Len(chain) = 0 /\ Alternates(Len(chain))
    BY <2>3 DEF Alternates
  <2>5. ParsedPart
    <3>1. chainState = "unfired" /\ chain = <<>>
      BY DEF Init
    <3>2. Len(chain) = Owed /\ Len(chain) = 2 * Owed - 0
      BY <2>3, <2>4
    <3> QED
      BY <2>2, <2>4, <3>1, <3>2 DEF ParsedPart
  <2> QED
    BY <2>5 DEF Init, Accounted, RemainingPart, SuccessPart, UnfiredPart
<1>2. TypeOK /\ Accounted /\ [Next]_vars => Accounted'
  <2> SUFFICES ASSUME TypeOK, Accounted, [Next]_vars PROVE Accounted'
    OBVIOUS
  <2> USE DEF commands
  <2>0. /\ chain \in Seq(AllWords \cup {"pause", "loseConnection", "done"})
        /\ Len(chain) \in Nat /\ args \in Seq(AllWords) /\ Len(args) \in Nat
        /\ wanted \in Nat /\ completed \in Nat /\ delay \in BOOLEAN
    BY DEF TypeOK
  <2>1. CASE ParseAction
    <3> DEFINE S == AllWords \cup {"pause", "loseConnection", "done"}
    <3>0. /\ args # <<>> /\ args' = Tail(args) /\ process = "parsing" /\ process' = "parsing"
          /\ UNCHANGED <<delay, wanted, completed, chainState, connection, exitStatus,
                          status>>
      BY <2>1 DEF ParseAction
    <3>1. /\ args # <<>> /\ Len(args') = Len(args) - 1 /\ process = "parsing"
          /\ process' = "parsing" /\ args' \in Seq(AllWords)
          /\ UNCHANGED <<delay, wanted, completed, chainState, connection, exitStatus,
                          status>>
      BY <2>0, <3>0
    <3>2. Head(args) \in Work /\ Head(args) # "pause" /\ Head(args) \in S
      BY <2>1 DEF ParseAction, Work, AllWords
    <3>3. Owed' = Owed + 1 /\ Owed \in Int
      BY <2>0, <3>1 DEF Owed, Waiting
    <3>4. CASE delay /\ args' # <<>>
      <4>1. chain' = Append(chain, Head(args)) \o <<"pause">>
        BY <2>1, <3>0, <3>4 DEF ParseAction
      <4>2. /\ Len(chain') = Len(chain) + 2
            /\ \A i \in 1..Len(chain) : chain'[i] = chain[i]
            /\ chain'[Len(chain) + 1] = Head(args) /\ chain'[Len(chain) + 2] = "pause"
        BY <2>0, <3>2, <4>1
      <4>3. \A i \in 1..Len(chain') : i \in 1..Len(chain) \/ i = Len(chain) + 1 \/ i = Len(chain) + 2
        BY <2>0, <4>2
      <4>4. /\ Alternates(Len(chain)) /\ Len(chain) = 2 * Owed
            /\ chain # <<>> => chain[1] # "pause" /\ chain[Len(chain)] = "pause"
        BY <3>1, <3>3, <3>4 DEF Accounted, ParsedPart
      <4>5. Alternates(Len(chain))'
        <5> SUFFICES ASSUME NEW i \in 1..Len(chain')
                     PROVE  /\ chain'[i] \in Work \cup {"pause"}
                            /\ i < Len(chain') => (chain'[i] = "pause" <=> chain'[i + 1] # "pause")
          BY <3>1, <3>4 DEF Alternates
        <5>1. CASE i \in 1..(Len(chain) - 1)
          BY <2>0, <3>4, <4>2, <4>4, <5>1 DEF Alternates
        <5>2. CASE i = Len(chain) /\ i # 0
          <6>1. chain # <<>> /\ i \in 1..Len(chain)
            BY <2>0, <5>2
          <6> QED
            BY <2>0, <3>2, <4>2, <4>4, <5>2, <6>1 DEF Alternates
        <5>3. CASE i = Len(chain) + 1
          BY <2>0, <3>2, <4>2, <5>3
        <5>4. CASE i = Len(chain) + 2
          BY <2>0, <3>2, <4>2, <5>4
        <5> QED
          BY <2>0, <4>3, <5>1, <5>2, <5>3, <5>4
      <4>6. chain'[1] # "pause"
        <5>1. CASE chain = <<>>
          BY <3>2, <4>2, <5>1
        <5>2. CASE chain # <<>>
          BY <2>0, <4>2, <4>4, <5>2
        <5> QED
          BY <5>1, <5>2
      <4>7. ParsedPart'
        BY <2>0, <3>1, <3>3, <3>4, <4>2, <4>4, <4>5, <4>6 DEF ParsedPart, Accounted
      <4> QED
        BY <3>1, <4>7 DEF Accounted, RemainingPart, SuccessPart, UnfiredPart
    <3>5. CASE ~(delay /\ args' # <<>>)
      <4>1. chain' = Append(chain, Head(args))
        BY <2>0, <2>1, <3>0, <3>2, <3>5 DEF ParseAction
      <4>2. /\ Len(chain') = Len(chain) + 1
            /\ \A i \in 1..Len(chain) : chain'[i] = chain[i]
            /\ chain'[Len(chain) + 1] = Head(args)
        BY <2>0, <3>2, <4>1
      <4>3. \A i \in 1..Len(chain') : i \in 1..Len(chain) \/ i = Len(chain) + 1
        BY <2>0, <4>2
      <4>4. /\ Alternates(Len(chain))
            /\ ~delay => Len(chain) = Owed
            /\ delay => Len(chain) = 2 * Owed
            /\ delay /\ chain # <<>> => chain[1] # "pause" /\ chain[Len(chain)] = "pause"
        BY <3>1, <3>3 DEF Accounted, ParsedPart
      <4>5. Alternates(Len(chain))'
        <5> SUFFICES ASSUME NEW i \in 1..Len(chain')
                     PROVE  /\ chain'[i] \in Work \cup {"pause"}
                            /\ ~delay => chain'[i] # "pause"
                            /\ delay /\ i < Len(chain')
                                 => (chain'[i] = "pause" <=> chain'[i + 1] # "pause")
          BY <3>1 DEF Alternates
        <5>1. CASE i \in 1..(Len(chain) - 1)
          <6>1. /\ i \in 1..Len(chain) /\ i + 1 \in 1..Len(chain) /\ i < Len(chain)
                /\ chain'[i] = chain[i] /\ chain'[i + 1] = chain[i + 1]
            BY <2>0, <4>2, <5>1
          <6> QED
            BY <4>4, <6>1 DEF Alternates
        <5>2. CASE i = Len(chain) /\ i # 0
          <6>1. chain # <<>> /\ i \in 1..Len(chain)
            BY <2>0, <5>2
          <6> QED
            <7>1. /\ chain'[i] = chain[i] /\ chain'[i + 1] = Head(args)
                  /\ delay => chain[i] = "pause"
              BY <2>0, <4>2, <4>4, <5>2, <6>1
            <7>2. chain[i] \in Work \cup {"pause"} /\ (~delay => chain[i] # "pause")
              BY <4>4, <6>1 DEF Alternates
            <7> QED
              BY <3>2, <7>1, <7>2
        <5>3. CASE i = Len(chain) + 1
          BY <2>0, <3>2, <4>2, <5>3
        <5> QED
          BY <2>0, <4>3, <5>1, <5>2, <5>3
      <4>6. delay => chain'[1] # "pause"
        <5>1. CASE chain = <<>>
          BY <3>2, <4>2, <5>1
        <5>2. CASE chain # <<>>
          BY <2>0, <4>2, <4>4, <5>2
        <5> QED
          BY <5>1, <5>2
      <4>7. ParsedPart'
        BY <2>0, <3>1, <3>2, <3>3, <3>5, <4>2, <4>4, <4>5, <4>6 DEF ParsedPart, Accounted
      <4> QED
        BY <3>1, <4>7 DEF Accounted, RemainingPart, SuccessPart, UnfiredPart
    <3> QED
      BY <3>4, <3>5
  <2>2. CASE ParseError
    BY <2>2 DEF ParseError, Accounted, ParsedPart, RemainingPart, SuccessPart,
      UnfiredPart, Early
  <2>3. CASE BuildTool
    <3>1. /\ process = "parsing" /\ process' = "running" /\ args = <<>>
          /\ chain' = chain \o <<"loseConnection", "done">>
          /\ UNCHANGED <<delay, args, wanted, completed, chainState, exitStatus, status>>
      BY <2>3 DEF BuildTool
    <3>2. /\ Len(chain') = Len(chain) + 2
          /\ \A i \in 1..Len(chain) : chain'[i] = chain[i]
          /\ chain'[Len(chain) + 1] = "loseConnection" /\ chain'[Len(chain) + 2] = "done"
      BY <2>0, <3>1
    <3>3. /\ Alternates(Len(chain))
          /\ ~delay => Len(chain) = Owed
          /\ delay => /\ Len(chain) = 2 * Owed - 1
                      /\ chain # <<>> => chain[1] # "pause" /\ chain[Len(chain)] # "pause"
      BY <3>1 DEF Accounted, ParsedPart
    <3>4. Owed' = Owed /\ Owed \in Int
      BY <2>0, <3>1 DEF Owed, Waiting
    <3>5. Alternates(Len(chain) - 2)'
      <4> SUFFICES ASSUME NEW i \in 1..Len(chain)
                   PROVE  /\ chain'[i] \in Work \cup {"pause"}
                          /\ ~delay => chain'[i] # "pause"
                          /\ delay /\ i < Len(chain)
                               => (chain'[i] = "pause" <=> chain'[i + 1] # "pause")
        BY <2>0, <3>1, <3>2 DEF Alternates
      <4>1. chain'[i] = chain[i] /\ (i < Len(chain) => chain'[i + 1] = chain[i + 1])
        BY <2>0, <3>2
      <4> QED
        BY <3>3, <4>1 DEF Alternates
    <3>6. delay => /\ Len(chain) # 0 /\ chain'[1] # "pause" /\ chain'[Len(chain)] # "pause"
      <4>1. delay => Len(chain) # 0
        BY <2>0, <3>3, <3>4
      <4> QED
        BY <2>0, <3>2, <3>3, <4>1
    <3>7. RemainingPart'
      BY <2>0, <3>1, <3>2, <3>3, <3>4, <3>5, <3>6 DEF RemainingPart
    <3> QED
      BY <3>1, <3>7 DEF Accounted, ParsedPart, SuccessPart, UnfiredPart, Early
  <2>4. CASE Stop \/ Interrupt
    BY <2>4 DEF Stop, Interrupt, Accounted, ParsedPart, RemainingPart, SuccessPart,
      UnfiredPart, Early
  <2>5. CASE TimerFires \/ ConnectFails \/ TransportConnected \/ HandshakeDone
             \/ AuthenticationFails \/ ProtocolFails \/ ConnectionLost \/ DecoderRaises
             \/ UnknownResult \/ AskPassword \/ PromptEnds \/ EmptyReason
    <3>1. /\ UNCHANGED <<delay, args, wanted, chain, completed, status>>
          /\ process \in {"running", "stopping"} /\ process' \in {"running", "stopping"}
          /\ exitStatus' = exitStatus \/ (exitStatus = "None" /\ exitStatus' # "SUCCESS")
      BY <2>5 DEF TimerFires, ConnectFails, TransportConnected, HandshakeDone,
                  AuthenticationFails, ProtocolFails, ConnectionLost, DecoderRaises,
                  UnknownResult, AskPassword, PromptEnds, EmptyReason, Done,
                  Connection, Running, Alive
    <3>2. \/ UNCHANGED chainState /\ (connection' \in Early => connection \in Early)
          \/ chainState' = "ready" /\ connection = "handshake" /\ connection' = "open"
      BY <2>5 DEF TimerFires, ConnectFails, TransportConnected, HandshakeDone, Early,
                  AuthenticationFails, ProtocolFails, ConnectionLost, DecoderRaises,
                  UnknownResult, AskPassword, PromptEnds, EmptyReason
    <3>3. connection = "handshake" => chainState = "unfired"
      BY DEF Accounted, UnfiredPart, Early
    <3>4. connection' = "open" => connection' \notin Early
      BY DEF Early
    <3>5. UNCHANGED chainState \/ (chainState = "unfired" /\ chainState' = "ready")
      BY <3>2, <3>3
    <3>6. connection' \in Early => connection \in Early /\ chainState' = chainState
      BY <3>2, <3>4
    <3> QED
      BY <3>1, <3>5, <3>6, AccountKept
  <2>6. CASE RunAction
    <3>1. /\ process \in {"running", "stopping"} /\ process' = process /\ chain # <<>>
          /\ chainState = "ready" /\ chain' = Tail(chain)
          /\ UNCHANGED <<delay, args, wanted, connection, exitStatus, status>>
          /\ Head(chain) \in {"now", "later", "pause"}
          /\ chainState' = IF Head(chain) = "now" THEN "ready"
                           ELSE IF Head(chain) = "later" THEN "waiting" ELSE "pausing"
          /\ completed' = IF Head(chain) = "now" THEN completed + 1 ELSE completed
      BY <2>6 DEF RunAction, Due, Running, Alive
    <3>2. /\ Len(chain) >= 2 /\ args = <<>> /\ Alternates(Len(chain) - 2)
          /\ chain[Len(chain) - 1] = "loseConnection" /\ chain[Len(chain)] = "done"
          /\ ~delay => Owed = Len(chain) - 2
          /\ delay => IF Len(chain) = 2 THEN Owed = 0
                      ELSE /\ chain[Len(chain) - 2] # "pause"
                           /\ 2 * Owed = Len(chain) - (IF chain[1] = "pause" THEN 2 ELSE 1)
      BY <3>1 DEF Accounted, RemainingPart
    <3>3. /\ Len(chain') = Len(chain) - 1 /\ Head(chain) = chain[1]
          /\ \A i \in 1..(Len(chain) - 1) : chain'[i] = chain[i + 1]
      BY <2>0, <3>1
    <3>4. Len(chain) >= 3
      BY <2>0, <3>1, <3>2, <3>3
    <3>5. Owed' = (IF chain[1] = "pause" THEN Owed ELSE Owed - 1) /\ Owed \in Int
      BY <2>0, <3>1, <3>3 DEF Owed, Waiting
    <3>6. chain'[Len(chain') - 1] = "loseConnection" /\ chain'[Len(chain')] = "done"
      BY <2>0, <3>2, <3>3, <3>4
    <3>7. Alternates(Len(chain) - 2)'
      <4> SUFFICES ASSUME NEW i \in 1..(Len(chain') - 2)
                   PROVE  /\ chain'[i] \in Work \cup {"pause"}
                          /\ ~delay => chain'[i] # "pause"
                          /\ delay /\ i < Len(chain') - 2
                               => (chain'[i] = "pause" <=> chain'[i + 1] # "pause")
        BY <3>1 DEF Alternates
      <4>1. /\ i + 1 \in 1..(Len(chain) - 2) /\ chain'[i] = chain[i + 1]
        BY <2>0, <3>3, <3>4
      <4>2. i < Len(chain') - 2 => chain'[i + 1] = chain[(i + 1) + 1] /\ i + 1 < Len(chain) - 2
        <5> SUFFICES ASSUME i < Len(chain') - 2
                     PROVE  chain'[i + 1] = chain[(i + 1) + 1] /\ i + 1 < Len(chain) - 2
          OBVIOUS
        <5>1. i + 1 \in 1..(Len(chain) - 1) /\ i + 1 < Len(chain) - 2
          BY <2>0, <3>3, <3>4
        <5> QED
          BY <3>3, <5>1
      <4> QED
        BY <3>2, <4>1, <4>2 DEF Alternates
    <3>8. ~delay => Owed' = Len(chain') - 2
      <4>1. 1 \in 1..(Len(chain) - 2)
        BY <2>0, <3>4
      <4>2. ~delay => chain[1] # "pause"
        BY <3>2, <4>1 DEF Alternates
      <4> QED
        BY <2>0, <3>2, <3>3, <3>5, <4>2
    <3>9. CASE delay /\ Len(chain) = 3
      <4>1. chain[1] # "pause" /\ Owed = 1
        BY <2>0, <3>2, <3>5, <3>9
      <4>2. Len(chain') = 2 /\ Owed' = 0
        BY <3>3, <3>5, <3>9, <4>1
      <4>3. RemainingPart'
        <5>1. Len(chain') >= 2 /\ args' = <<>> /\ delay' = delay
          BY <3>1, <3>2, <4>2
        <5> QED
          BY <3>6, <3>7, <3>9, <4>2, <5>1 DEF RemainingPart
      <4> QED
        BY <3>1, <4>3 DEF Accounted, ParsedPart, SuccessPart, UnfiredPart, Early
    <3>10. CASE delay /\ Len(chain) # 3
      <4>1. /\ 1 \in 1..(Len(chain) - 2) /\ 1 < Len(chain) - 2 /\ chain'[1] = chain[2]
            /\ chain'[Len(chain') - 2] = chain[Len(chain) - 2] /\ Len(chain') # 2
        <5>1. Len(chain) \in Nat /\ Len(chain) >= 4 /\ Len(chain') = Len(chain) - 1
          BY <2>0, <3>3, <3>4, <3>10
        <5>2. /\ 1 \in 1..(Len(chain) - 1) /\ Len(chain) - 3 \in 1..(Len(chain) - 1)
              /\ Len(chain') - 2 = Len(chain) - 3 /\ (Len(chain) - 3) + 1 = Len(chain) - 2
          BY <5>1
        <5>3. chain'[1] = chain[1 + 1] /\ chain'[Len(chain) - 3] = chain[(Len(chain) - 3) + 1]
          BY <3>3, <5>2
        <5> QED
          BY <5>1, <5>2, <5>3
      <4>2. chain[1] = "pause" <=> chain[2] # "pause"
        BY <3>2, <3>10, <4>1 DEF Alternates
      <4>3. 2 * Owed' = Len(chain') - (IF chain'[1] = "pause" THEN 2 ELSE 1)
        <5>1. CASE chain[1] = "pause"
          BY <2>0, <3>2, <3>3, <3>4, <3>5, <3>10, <4>1, <4>2, <5>1
        <5>2. CASE chain[1] # "pause"
          BY <2>0, <3>2, <3>3, <3>4, <3>5, <3>10, <4>1, <4>2, <5>2
        <5> QED
          BY <5>1, <5>2
      <4>4. RemainingPart'
        BY <2>0, <3>1, <3>2, <3>3, <3>4, <3>6, <3>7, <3>10, <4>1, <4>3 DEF RemainingPart
      <4> QED
        BY <3>1, <4>4 DEF Accounted, ParsedPart, SuccessPart, UnfiredPart, Early
    <3>11. CASE ~delay
      <4>1. RemainingPart'
        <5>1. Len(chain') >= 2 /\ args' = <<>> /\ delay' = delay
          BY <2>0, <3>1, <3>2, <3>3, <3>4
        <5> QED
          BY <3>6, <3>7, <3>8, <3>11, <5>1 DEF RemainingPart
      <4> QED
        BY <3>1, <4>1 DEF Accounted, ParsedPart, SuccessPart, UnfiredPart, Early
    <3> QED
      BY <3>9, <3>10, <3>11
  <2>7. CASE ActionCompletes
    <3>1. /\ process \in {"running", "stopping"} /\ process' = process /\ chainState' = "ready"
          /\ UNCHANGED <<delay, args, wanted, chain, connection, exitStatus, status>>
          /\ \/ chainState = "waiting" /\ completed' = completed + 1
             \/ chainState = "pausing" /\ completed' = completed
      BY <2>7 DEF ActionCompletes, Running, Alive
    <3>2. Owed' = Owed
      BY <2>0, <3>1 DEF Owed, Waiting
    <3>3. RemainingPart'
      BY <3>1, <3>2 DEF Accounted, RemainingPart, Alternates
    <3> QED
      BY <3>1, <3>3 DEF Accounted, ParsedPart, SuccessPart, UnfiredPart, Early
  <2>8. CASE ActionFails
    BY <2>8 DEF ActionFails, Due, Running, Alive, Done, Accounted, ParsedPart, RemainingPart, SuccessPart,
      UnfiredPart, Early
  <2>9. CASE Finish
    <3>1. /\ process \in {"running", "stopping"} /\ process' \in {"running", "stopping"}
          /\ chainState = "ready" /\ chain # <<>> /\ Head(chain) = "loseConnection"
          /\ chainState' = "ended" /\ UNCHANGED <<delay, args, wanted, completed, status>>
          /\ exitStatus' \in {exitStatus, "SUCCESS"} /\ connection' \in {connection, "closing"}
      BY <2>9 DEF Finish, Due, Running, Alive, Done
    <3>2. Len(chain) >= 2 /\ args = <<>> /\ Alternates(Len(chain) - 2) /\ chain[1] = "loseConnection"
      BY <2>0, <3>1 DEF Accounted, RemainingPart
    <3>3. Len(chain) = 2
      <4>0. \A n \in Nat : n >= 2 => n = 2 \/ n >= 3
        OBVIOUS
      <4>1. Len(chain) \in Nat /\ (Len(chain) = 2 \/ Len(chain) >= 3)
        <5>1. Len(chain) \in Nat
          BY <2>0
        <5>2. Len(chain) >= 2
          BY <3>2
        <5> QED
          BY <4>0, <5>1, <5>2
      <4> SUFFICES ASSUME Len(chain) >= 3 PROVE FALSE
        BY <4>1
      <4>2. 1 \in 1..(Len(chain) - 2)
        BY <4>1
      <4>3. chain[1] \in Work \cup {"pause"}
        BY <3>2, <4>2 DEF Alternates
      <4> QED
        BY <3>2, <4>3 DEF Work
    <3>4. completed = wanted
      BY <2>0, <3>1, <3>2, <3>3 DEF Accounted, RemainingPart, Owed, Waiting
    <3> QED
      BY <3>1, <3>4 DEF Accounted, ParsedPart, RemainingPart, SuccessPart,
      UnfiredPart, Early
  <2>10. CASE UNCHANGED vars
    BY <2>10 DEF vars, Accounted, ParsedPart, RemainingPart, SuccessPart, UnfiredPart,
                 Alternates, Owed, Waiting
  <2> QED
    BY <2>1, <2>2, <2>3, <2>4, <2>5, <2>6, <2>7, <2>8, <2>9, <2>10 DEF Next, Chain
<1>3. Accounted => SuccessMeansCompleted
  BY DEF Accounted, SuccessPart, SuccessMeansCompleted
<1> QED
  BY <1>1, <1>2, <1>3, TypeCorrect, PTL DEF Spec
=============================================================================
