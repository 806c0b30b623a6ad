----------------------------- MODULE ServiceProofs -----------------------------
(***************************************************************************)
(* The proof that every process of the service is orderly, for every set   *)
(* of frontends' calls.                                                    *)
(*                                                                         *)
(* OrderlyService is not inductive: that success is honest depends on what *)
(* each phase of the process has already decided.  IInv says it phase by   *)
(* phase: what is published until which phase (Publicity), how far the     *)
(* teardown is (Teardown), and what became of the initialization and of    *)
(* every error on the way to the exit code (Outcome).                      *)
(***************************************************************************)
EXTENDS ServiceProcess, TLAPS

\* The phases in which the name is held, and those after the fence.
Named == {"signals", "fence", "join", "teardown", "uninstall", "release"} \cup ServingPhases
Fenced == {"join", "teardown", "uninstall", "release", "disconnect",
           "undoUninstall", "undoDisconnect", "tasks", "threads", "gone"}

Publicity ==
    /\ pc \in Named => bus.name
    /\ pc \in {"request", "signals"} \cup ServingPhases => bus.exported /\ bus.ingress
    /\ pc \in {"connect", "install"} \cup Fenced => ~bus.ingress

Teardown ==
    /\ controller # "open" =>
           pc \in {"teardown", "uninstall", "release", "disconnect", "tasks", "threads", "gone"}
    /\ initialized /\ pc \in Fenced \ {"join", "teardown"} => controller \in {"closed", "failed"}
    /\ initialized => pc \notin SetupPhases \cup {"starting", "undo", "undoUninstall", "undoDisconnect"}
    /\ pc = "teardown" => initialized
    /\ controller = "closed" => calls = {}
    /\ controller = "failed" \/ left # {} => error

Outcome ==
    /\ start = "running" => pc = "starting"
    /\ start = "cancelling" => pc \in ShutdownPhases \cup {"tasks", "threads", "gone"}
    /\ start = "cancelling" /\ pc \notin {"fence", "join"} => error
    /\ start \in {"cancelling", "cancelled"} => stopped # "no"
    /\ start = "ready" => pc = "starting" \/ initialized
    /\ start = "failed" /\ pending /\ pc # "starting" => code = 1
    /\ stopped = "idle" => start = "ready" \/ ~pending
    /\ pc \in SetupPhases => start = "none"
    /\ pc \in {"tasks", "threads", "gone"} /\ error => code = 1
    /\ exit = "success" => pc = "gone" /\ code = 0 /\ ~threads

\* TypeOK, its Boolean variables apart from the others.
Flags ==
    /\ bus \in [connected : BOOLEAN, exported : BOOLEAN, ingress : BOOLEAN, name : BOOLEAN]
    /\ initialized \in BOOLEAN /\ pending \in BOOLEAN /\ threads \in BOOLEAN
    /\ expired \in BOOLEAN /\ error \in BOOLEAN

Values ==
    /\ pc \in Phases
    /\ start \in {"none", "running", "cancelling", "ready", "failed", "cancelled"}
    /\ stopped \in {"no", "signal", "idle"}
    /\ calls \subseteq Callers /\ controller \in {"open", "closing", "closed", "failed"}
    /\ left \subseteq ShutdownPhases \cup {"undoUninstall"}
    /\ code \in {0, 1} /\ exit \in {"none", "success", "failure", "forced"}

IInv == TypeOK /\ Publicity /\ Teardown /\ Outcome

LEMMA InitHolds == Init => IInv
<1> SUFFICES ASSUME Init PROVE IInv
  OBVIOUS
<1>1. TypeOK
  BY DEF Init, TypeOK, Phases, SetupPhases
<1>2. Publicity
  BY DEF Init, Publicity, Named, Fenced, ServingPhases
<1>3. Teardown
  BY DEF Init, Teardown, SetupPhases
<1>4. Outcome
  BY DEF Init, Outcome
<1> QED
  BY <1>1, <1>2, <1>3, <1>4 DEF IInv

LEMMA FlagsHold == Flags /\ [Next]_vars => Flags'
<1> SUFFICES ASSUME Flags, [Next]_vars PROVE Flags'
  OBVIOUS
<1> USE DEF Flags, Goto, vars, setupVars, workVars, endVars
<1>1. CASE Connect
  BY <1>1 DEF Connect
<1>2. CASE Install
  BY <1>2 DEF Install
<1>3. CASE RequestName
  BY <1>3 DEF RequestName
<1>4. CASE StartService
  BY <1>4 DEF StartService
<1>5. CASE UninstallAnswers
  BY <1>5 DEF UninstallAnswers
<1>6. CASE ControllerCloses
  BY <1>6 DEF ControllerCloses
<1>7. CASE ReleaseAnswers
  BY <1>7 DEF ReleaseAnswers
<1>8. CASE InitializationEnds
  BY <1>8 DEF InitializationEnds, LoopRuns
<1>9. CASE ThreadEnds
  BY <1>9 DEF ThreadEnds
<1>10. CASE Undo
  BY <1>10 DEF Undo, Fence
<1>11. CASE Disconnect
  BY <1>11 DEF Disconnect
<1>12. CASE Started
  BY <1>12 DEF Started
<1>13. CASE StoppedWhileStarting
  BY <1>13 DEF StoppedWhileStarting
<1>14. CASE StoppedWhileServing
  BY <1>14 DEF StoppedWhileServing
<1>15. CASE CloseIngress
  BY <1>15 DEF CloseIngress, Fence
<1>16. CASE JoinInitialization
  BY <1>16 DEF JoinInitialization
<1>17. CASE CloseController
  BY <1>17 DEF CloseController
<1>18. CASE CutOff
  BY <1>18 DEF CutOff, AfterCleanup
<1>19. CASE RetireTasks
  BY <1>19 DEF RetireTasks
<1>20. CASE RetireThreads
  BY <1>20 DEF RetireThreads, ExitStatus
<1>21. CASE Stop
  BY <1>21 DEF Stop
<1>22. CASE DeadlinePasses
  BY <1>22 DEF DeadlinePasses
<1>23. CASE \E c \in Callers : Accept(c)
  BY <1>23 DEF Accept
<1>24. CASE \E c \in Callers : CallEnds(c)
  BY <1>24 DEF CallEnds, LoopRuns
<1>25. CASE \E t \in left : LeftTaskEnds(t)
  BY <1>25 DEF LeftTaskEnds, LoopRuns
<1>26. CASE UNCHANGED vars
  BY <1>26
<1> HIDE DEF Flags
<1> QED
  BY <1>1, <1>2, <1>3, <1>4, <1>5, <1>6, <1>7, <1>8, <1>9, <1>10, <1>11, <1>12, <1>13, <1>14, <1>15, <1>16, <1>17, <1>18, <1>19, <1>20, <1>21, <1>22, <1>23, <1>24, <1>25, <1>26
     DEF Next, Publication, Answers, Steps

LEMMA ValuesHold == Values /\ [Next]_vars => Values'
<1> SUFFICES ASSUME Values, [Next]_vars PROVE Values'
  OBVIOUS
<1> USE DEF Values, Phases, SetupPhases, ServingPhases, ShutdownPhases, Goto, vars, setupVars, workVars, endVars
<1>1. CASE Connect
  BY <1>1 DEF Connect
<1>2. CASE Install
  BY <1>2 DEF Install
<1>3. CASE RequestName
  BY <1>3 DEF RequestName
<1>4. CASE StartService
  BY <1>4 DEF StartService
<1>5. CASE UninstallAnswers
  BY <1>5 DEF UninstallAnswers
<1>6. CASE ControllerCloses
  BY <1>6 DEF ControllerCloses
<1>7. CASE ReleaseAnswers
  BY <1>7 DEF ReleaseAnswers
<1>8. CASE InitializationEnds
  BY <1>8 DEF InitializationEnds, LoopRuns
<1>9. CASE ThreadEnds
  BY <1>9 DEF ThreadEnds
<1>10. CASE Undo
  BY <1>10 DEF Undo, Fence
<1>11. CASE Disconnect
  BY <1>11 DEF Disconnect
<1>12. CASE Started
  BY <1>12 DEF Started
<1>13. CASE StoppedWhileStarting
  BY <1>13 DEF StoppedWhileStarting
<1>14. CASE StoppedWhileServing
  BY <1>14 DEF StoppedWhileServing
<1>15. CASE CloseIngress
  BY <1>15 DEF CloseIngress, Fence
<1>16. CASE JoinInitialization
  BY <1>16 DEF JoinInitialization
<1>17. CASE CloseController
  BY <1>17 DEF CloseController
<1>18. CASE CutOff
  BY <1>18 DEF CutOff, AfterCleanup
<1>19. CASE RetireTasks
  BY <1>19 DEF RetireTasks
<1>20. CASE RetireThreads
  BY <1>20 DEF RetireThreads, ExitStatus
<1>21. CASE Stop
  BY <1>21 DEF Stop
<1>22. CASE DeadlinePasses
  BY <1>22 DEF DeadlinePasses
<1>23. CASE \E c \in Callers : Accept(c)
  BY <1>23 DEF Accept
<1>24. CASE \E c \in Callers : CallEnds(c)
  BY <1>24 DEF CallEnds, LoopRuns
<1>25. CASE \E t \in left : LeftTaskEnds(t)
  BY <1>25 DEF LeftTaskEnds, LoopRuns
<1>26. CASE UNCHANGED vars
  BY <1>26
<1> HIDE DEF Values
<1> QED
  BY <1>1, <1>2, <1>3, <1>4, <1>5, <1>6, <1>7, <1>8, <1>9, <1>10, <1>11, <1>12, <1>13, <1>14, <1>15, <1>16, <1>17, <1>18, <1>19, <1>20, <1>21, <1>22, <1>23, <1>24, <1>25, <1>26
     DEF Next, Publication, Answers, Steps

LEMMA PublicityHolds == IInv /\ [Next]_vars => Publicity'
<1> SUFFICES ASSUME IInv, [Next]_vars PROVE Publicity'
  OBVIOUS
<1> USE DEF IInv, Publicity, TypeOK, Phases, Named, Fenced, SetupPhases, ServingPhases, ShutdownPhases, Goto, vars, setupVars, workVars, endVars
<1>1. CASE Connect
  BY <1>1 DEF Connect
<1>2. CASE Install
  BY <1>2 DEF Install
<1>3. CASE RequestName
  BY <1>3 DEF RequestName
<1>4. CASE StartService
  BY <1>4 DEF StartService
<1>5. CASE UninstallAnswers
  BY <1>5 DEF UninstallAnswers
<1>6. CASE ControllerCloses
  BY <1>6 DEF ControllerCloses
<1>7. CASE ReleaseAnswers
  BY <1>7 DEF ReleaseAnswers
<1>8. CASE InitializationEnds
  BY <1>8 DEF InitializationEnds, LoopRuns
<1>9. CASE ThreadEnds
  BY <1>9 DEF ThreadEnds
<1>10. CASE Undo
  BY <1>10 DEF Undo, Fence
<1>11. CASE Disconnect
  BY <1>11 DEF Disconnect
<1>12. CASE Started
  BY <1>12 DEF Started
<1>13. CASE StoppedWhileStarting
  BY <1>13 DEF StoppedWhileStarting
<1>14. CASE StoppedWhileServing
  BY <1>14 DEF StoppedWhileServing
<1>15. CASE CloseIngress
  BY <1>15 DEF CloseIngress, Fence
<1>16. CASE JoinInitialization
  BY <1>16 DEF JoinInitialization
<1>17. CASE CloseController
  BY <1>17 DEF CloseController
<1>18. CASE CutOff
  BY <1>18 DEF CutOff, AfterCleanup
<1>19. CASE RetireTasks
  BY <1>19 DEF RetireTasks
<1>20. CASE RetireThreads
  BY <1>20 DEF RetireThreads, ExitStatus
<1>21. CASE Stop
  BY <1>21 DEF Stop
<1>22. CASE DeadlinePasses
  BY <1>22 DEF DeadlinePasses
<1>23. CASE \E c \in Callers : Accept(c)
  BY <1>23 DEF Accept
<1>24. CASE \E c \in Callers : CallEnds(c)
  BY <1>24 DEF CallEnds, LoopRuns
<1>25. CASE \E t \in left : LeftTaskEnds(t)
  BY <1>25 DEF LeftTaskEnds, LoopRuns
<1>26. CASE UNCHANGED vars
  BY <1>26
<1> HIDE DEF IInv
<1> QED
  BY <1>1, <1>2, <1>3, <1>4, <1>5, <1>6, <1>7, <1>8, <1>9, <1>10, <1>11, <1>12, <1>13, <1>14, <1>15, <1>16, <1>17, <1>18, <1>19, <1>20, <1>21, <1>22, <1>23, <1>24, <1>25, <1>26
     DEF Next, Publication, Answers, Steps

LEMMA TeardownHolds == IInv /\ [Next]_vars => Teardown'
<1> SUFFICES ASSUME IInv, [Next]_vars PROVE Teardown'
  OBVIOUS
<1> USE DEF IInv, Publicity, Teardown, TypeOK, Phases, Named, Fenced, SetupPhases, ServingPhases, ShutdownPhases, Goto, vars, setupVars, workVars, endVars
<1>1. CASE Connect
  BY <1>1 DEF Connect
<1>2. CASE Install
  BY <1>2 DEF Install
<1>3. CASE RequestName
  BY <1>3 DEF RequestName
<1>4. CASE StartService
  BY <1>4 DEF StartService
<1>5. CASE UninstallAnswers
  BY <1>5 DEF UninstallAnswers
<1>6. CASE ControllerCloses
  BY <1>6 DEF ControllerCloses
<1>7. CASE ReleaseAnswers
  BY <1>7 DEF ReleaseAnswers
<1>8. CASE InitializationEnds
  BY <1>8 DEF InitializationEnds, LoopRuns
<1>9. CASE ThreadEnds
  BY <1>9 DEF ThreadEnds
<1>10. CASE Undo
  BY <1>10 DEF Undo, Fence
<1>11. CASE Disconnect
  BY <1>11 DEF Disconnect
<1>12. CASE Started
  BY <1>12 DEF Started
<1>13. CASE StoppedWhileStarting
  BY <1>13 DEF StoppedWhileStarting
<1>14. CASE StoppedWhileServing
  BY <1>14 DEF StoppedWhileServing
<1>15. CASE CloseIngress
  BY <1>15 DEF CloseIngress, Fence
<1>16. CASE JoinInitialization
  BY <1>16 DEF JoinInitialization
<1>17. CASE CloseController
  BY <1>17 DEF CloseController
<1>18. CASE CutOff
  BY <1>18 DEF CutOff, AfterCleanup
<1>19. CASE RetireTasks
  BY <1>19 DEF RetireTasks
<1>20. CASE RetireThreads
  BY <1>20 DEF RetireThreads, ExitStatus
<1>21. CASE Stop
  BY <1>21 DEF Stop
<1>22. CASE DeadlinePasses
  BY <1>22 DEF DeadlinePasses
<1>23. CASE \E c \in Callers : Accept(c)
  BY <1>23 DEF Accept
<1>24. CASE \E c \in Callers : CallEnds(c)
  BY <1>24 DEF CallEnds, LoopRuns
<1>25. CASE \E t \in left : LeftTaskEnds(t)
  BY <1>25 DEF LeftTaskEnds, LoopRuns
<1>26. CASE UNCHANGED vars
  BY <1>26
<1> HIDE DEF IInv
<1> QED
  BY <1>1, <1>2, <1>3, <1>4, <1>5, <1>6, <1>7, <1>8, <1>9, <1>10, <1>11, <1>12, <1>13, <1>14, <1>15, <1>16, <1>17, <1>18, <1>19, <1>20, <1>21, <1>22, <1>23, <1>24, <1>25, <1>26
     DEF Next, Publication, Answers, Steps

LEMMA OutcomeHolds == IInv /\ [Next]_vars => Outcome'
<1> SUFFICES ASSUME IInv, [Next]_vars PROVE Outcome'
  OBVIOUS
<1> USE DEF IInv, Teardown, Outcome, TypeOK, Phases, Named, Fenced, SetupPhases, ServingPhases, ShutdownPhases, Goto, vars, setupVars, workVars, endVars
<1>1. CASE Connect
  BY <1>1 DEF Connect
<1>2. CASE Install
  BY <1>2 DEF Install
<1>3. CASE RequestName
  BY <1>3 DEF RequestName
<1>4. CASE StartService
  BY <1>4 DEF StartService
<1>5. CASE UninstallAnswers
  BY <1>5 DEF UninstallAnswers
<1>6. CASE ControllerCloses
  BY <1>6 DEF ControllerCloses
<1>7. CASE ReleaseAnswers
  BY <1>7 DEF ReleaseAnswers
<1>8. CASE InitializationEnds
  <2>1. /\ UNCHANGED <<pc, initialized, stopped, error, code, exit>>
        /\ pc \notin {"threads", "gone"}
    BY <1>8 DEF InitializationEnds, LoopRuns
  <2>2. \/ start = "running" /\ start' \in {"ready", "failed"}
        \/ start = "cancelling" /\ start' = "cancelled"
    BY <1>8 DEF InitializationEnds
  <2>3. pending' => pending
    BY ONLY <1>8, Zenon DEF InitializationEnds
  <2> QED
    BY <2>1, <2>2, <2>3
<1>9. CASE ThreadEnds
  BY <1>9 DEF ThreadEnds
<1>10. CASE Undo
  BY <1>10 DEF Undo, Fence
<1>11. CASE Disconnect
  BY <1>11 DEF Disconnect
<1>12. CASE Started
  BY <1>12 DEF Started
<1>13. CASE StoppedWhileStarting
  BY <1>13 DEF StoppedWhileStarting
<1>14. CASE StoppedWhileServing
  BY <1>14 DEF StoppedWhileServing
<1>15. CASE CloseIngress
  BY <1>15 DEF CloseIngress, Fence
<1>16. CASE JoinInitialization
  BY <1>16 DEF JoinInitialization
<1>17. CASE CloseController
  BY <1>17 DEF CloseController
<1>18. CASE CutOff
  BY <1>18 DEF CutOff, AfterCleanup
<1>19. CASE RetireTasks
  BY <1>19 DEF RetireTasks
<1>20. CASE RetireThreads
  BY <1>20 DEF RetireThreads, ExitStatus
<1>21. CASE Stop
  BY <1>21 DEF Stop
<1>22. CASE DeadlinePasses
  BY <1>22 DEF DeadlinePasses
<1>23. CASE \E c \in Callers : Accept(c)
  BY <1>23 DEF Accept
<1>24. CASE \E c \in Callers : CallEnds(c)
  BY <1>24 DEF CallEnds, LoopRuns
<1>25. CASE \E t \in left : LeftTaskEnds(t)
  BY <1>25 DEF LeftTaskEnds, LoopRuns
<1>26. CASE UNCHANGED vars
  BY <1>26
<1> HIDE DEF IInv
<1> QED
  BY <1>1, <1>2, <1>3, <1>4, <1>5, <1>6, <1>7, <1>8, <1>9, <1>10, <1>11, <1>12, <1>13, <1>14, <1>15, <1>16, <1>17, <1>18, <1>19, <1>20, <1>21, <1>22, <1>23, <1>24, <1>25, <1>26
     DEF Next, Publication, Answers, Steps

LEMMA InvariantIsOrderly == IInv => OrderlyService
BY DEF IInv, TypeOK, Publicity, Teardown, Outcome, Phases, Named, Fenced,
       SetupPhases, ServingPhases, ShutdownPhases,
       OrderlyService, NeverHalfPublished, NameCoversWork, HonestExit

THEOREM ServiceInvariant == Spec => []IInv
<1>1. IInv /\ [Next]_vars => IInv'
  BY FlagsHold, ValuesHold, PublicityHolds, TeardownHolds, OutcomeHolds
     DEF IInv, TypeOK, Flags, Values
<1> QED
  BY InitHolds, <1>1, PTL DEF Spec

\* Whatever a frontend calls and whenever the process is told to stop: who sees
\* the name finds a complete service, the name outlasts the accepted work, and
\* an exit status of zero is honest (_run_service, _shutdown_published_service).
THEOREM ServiceIsOrderly == Spec => []OrderlyService
BY ServiceInvariant, InvariantIsOrderly, PTL

================================================================================
