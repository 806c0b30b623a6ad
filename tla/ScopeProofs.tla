------------------------------ MODULE ScopeProofs ------------------------------
(***************************************************************************)
(* The proof about AuthenticationScope, for any number of prompts: that    *)
(* security keys, notices, reads, sign-out and shutdown leave nothing      *)
(* behind (NothingLeftBehind).                                             *)
(*                                                                         *)
(* The property speaks of ends: of a key that is gone, a session signed    *)
(* out, an adapter closed.  The invariant says for every task what it      *)
(* holds while it runs: the scope belongs to the task whose steps say so   *)
(* (Owners), the key, its thread and what it posted live inside their      *)
(* operation (Key), a notice has a worker until the relay is closed        *)
(* (Relay), shutdown goes on over what has ended (Closing), and a sign-out *)
(* that is inside has left every notice and every failed read in an        *)
(* earlier epoch (Leaving).                                                *)
(***************************************************************************)
EXTENDS AuthenticationScope, TLAPS

USE PromptsAssumption

\* The scope belongs to the one task whose steps say so.
Owners ==
    /\ scope = "fido" <=> op.kind = "fido" /\ op.at = "inside"
    /\ scope = "signOut" <=> op.kind = "signOut" /\ op.at = "inside"
    /\ scope = "notice" <=> relay.worker = "inside"
    /\ scope = "read" <=> read.at = "inside"
    /\ scope = "close" <=> closing = "inside"
    /\ op.kind = "none" <=> op.at = "none"
    /\ op.kind = "none" => op = NoOp
    /\ read.at = "none" => read = NoRead

\* The key, its thread and its prompts exist while their operation is inside.
Key ==
    /\ key.live <=> scope = "fido"
    /\ child # "none" <=> scope = "fido"
    /\ ~key.live => key = NoInteraction
    /\ key.event # "none" <=> key.thread = "waiting"
    /\ key.thread \in {"working", "asking", "waiting"} => child = "assertion"
    /\ posts # <<>> => child = "assertion"
    /\ auth \in Prompts =>
         child \in {"starting", "assertion", "submitting"} \/ (session.started /\ ~session.on)

\* A notice has a worker, and a closed relay keeps none.
Relay ==
    /\ relay.closed => relay.pending = NoNotice
    /\ relay.pending # NoNotice => relay.worker # "none"

\* Shutdown goes on over what has ended.
Closing ==
    /\ closing \notin {"no", "drain"} => op = NoOp /\ read = NoRead /\ relay.closed
    /\ closing \in {"scope", "inside", "done"} => relay.worker \in {"none", "ended"}

\* A sign-out is inside, or has ended.
Departed == scope = "signOut" \/ signedOut

\* Once a sign-out is inside, no notice and no failed read is of its epoch.
Leaving ==
    /\ read.epoch <= session.epoch
    /\ Departed => session.leaving /\ scope \notin {"notice", "read"}
    /\ Departed /\ read.at = "failed" => read.epoch < session.epoch
    /\ signedOut => session.leaving /\ op = NoOp /\ auth = "signed_out" /\ ~session.on

Safe == Owners /\ Key /\ Relay /\ Closing /\ Leaving
IInv == TypeOK /\ Safe

-----------------------------------------------------------------------------
(* Type correctness. *)

\* The empty records are what they are asked for.
LEMMA NoneTypes ==
    /\ NoOp \in Operations /\ NoInteraction \in Interactions
    /\ NoNotice \in Notices /\ NoRead \in Reads
BY DEF NoOp, Operations, NoInteraction, Interactions, NoNotice, Notices, NoRead, Reads

\* A step of the operation keeps its type.
LEMMA OperationTypes ==
    ASSUME NEW o \in Operations
    PROVE  /\ [o EXCEPT !.at = "inside"] \in Operations
           /\ [o EXCEPT !.cancelled = TRUE] \in Operations
           /\ [o EXCEPT !.kind = "fido", !.at = "queued"] \in Operations
           /\ [o EXCEPT !.kind = "signOut", !.at = "queued"] \in Operations
BY DEF Operations

\* So does a step of the key,
LEMMA KeyTypes ==
    ASSUME NEW k \in Interactions
    PROVE  /\ [k EXCEPT !.live = TRUE] \in Interactions
           /\ [k EXCEPT !.cancelled = TRUE] \in Interactions
           /\ [k EXCEPT !.woken = TRUE, !.event = IF @ = "none" THEN @ ELSE "set"] \in Interactions
           /\ [k EXCEPT !.event = "set"] \in Interactions
           /\ [k EXCEPT !.thread = "working"] \in Interactions
           /\ [k EXCEPT !.thread = "waiting", !.event = "unset"] \in Interactions
           /\ [k EXCEPT !.thread = "working", !.event = "none"] \in Interactions
           /\ \A r \in {"assertion", "error"} :
                  [k EXCEPT !.thread = "returned", !.result = r] \in Interactions
BY DEF Interactions

\* a prompt below the bound,
LEMMA PromptTypes ==
    ASSUME NEW k \in Interactions, k.prompts < MaxPrompts
    PROVE  /\ [k EXCEPT !.prompts = @ + 1] \in Interactions
           /\ [k EXCEPT !.prompts = @ + 1, !.thread = "asking"] \in Interactions
<1>1. k.prompts + 1 \in 0 .. MaxPrompts
  BY DEF Interactions
<1> QED
  BY <1>1 DEF Interactions

\* a step of the session,
LEMMA SessionTypes ==
    ASSUME NEW s \in Sessions
    PROVE  /\ s.epoch \in Nat
           /\ [s EXCEPT !.on = FALSE, !.epoch = @ + 1] \in Sessions
           /\ [s EXCEPT !.leaving = TRUE, !.epoch = @ + 1] \in Sessions
           /\ [s EXCEPT !.degraded = TRUE] \in Sessions
           /\ [s EXCEPT !.on = FALSE] \in Sessions
           /\ [s EXCEPT !.bound = 0] \in Sessions
<1>1. s.epoch \in Nat /\ s.epoch + 1 \in Nat
  BY DEF Sessions
<1>2. /\ [s EXCEPT !.on = FALSE, !.epoch = @ + 1] \in Sessions
      /\ [s EXCEPT !.leaving = TRUE, !.epoch = @ + 1] \in Sessions
  BY <1>1 DEF Sessions
<1>3. /\ [s EXCEPT !.degraded = TRUE] \in Sessions
      /\ [s EXCEPT !.on = FALSE] \in Sessions
      /\ [s EXCEPT !.bound = 0] \in Sessions
  BY DEF Sessions
<1> QED
  BY <1>1, <1>2, <1>3

\* a step of the relay, and a notice it keeps.
LEMMA RelayTypes ==
    ASSUME NEW r \in Relays, NEW w \in {"none", "ready", "handling", "inside", "ended"},
           NEW n \in Notices
    PROVE  /\ r.generation \in Nat /\ r.pending \in Notices
           /\ Invalidated(r) \in Relays
           /\ [r EXCEPT !.closed = TRUE] \in Relays
           /\ [r EXCEPT !.worker = w] \in Relays
           /\ [r EXCEPT !.worker = w, !.taken = n] \in Relays
           /\ [r EXCEPT !.pending = n, !.worker = w] \in Relays
           /\ [r EXCEPT !.pending = NoNotice, !.taken = n, !.worker = w] \in Relays
<1>1. r.generation \in Nat /\ r.generation + 1 \in Nat /\ r.pending \in Notices
  BY DEF Relays
<1>2. Invalidated(r) \in Relays
  BY <1>1, NoneTypes DEF Relays, Invalidated
<1>3. /\ [r EXCEPT !.closed = TRUE] \in Relays
      /\ [r EXCEPT !.worker = w] \in Relays
  BY DEF Relays
<1>4. /\ [r EXCEPT !.worker = w, !.taken = n] \in Relays
      /\ [r EXCEPT !.pending = n, !.worker = w] \in Relays
      /\ [r EXCEPT !.pending = NoNotice, !.taken = n, !.worker = w] \in Relays
  BY NoneTypes DEF Relays
<1> QED
  BY <1>1, <1>2, <1>3, <1>4

\* What the thread hands to the loop.
LEMMA PostTypes ==
    ASSUME NEW p \in Seq(Prompts)
    PROVE  /\ Append(p, "fido_touch") \in Seq(Prompts)
           /\ Append(p, "fido_pin") \in Seq(Prompts)
           /\ p # <<>> => Head(p) \in Prompts /\ Tail(p) \in Seq(Prompts)
BY DEF Prompts

\* The start of the services and its failure keep the types, the epoch, the worker
\* and the fence of the relay.
LEMMA ServicesStartFacts ==
    ASSUME session \in Sessions, relay \in Relays, ServicesStart
    PROVE  /\ session' \in Sessions /\ relay' \in Relays
           /\ relay'.worker = relay.worker /\ relay'.closed = relay.closed
           /\ relay'.pending = NoNotice /\ session'.epoch = session.epoch
           /\ session'.leaving = session.leaving
<1>1. relay' = Invalidated(relay)
  BY DEF ServicesStart
<1>2. relay' \in Relays /\ relay'.generation \in Nat
  BY <1>1, NoneTypes, RelayTypes
<1>3. relay'.worker = relay.worker /\ relay'.closed = relay.closed /\ relay'.pending = NoNotice
  BY <1>1 DEF Relays, Invalidated
<1>4. session' \in Sessions
  BY <1>2 DEF ServicesStart, Sessions
<1>5. session'.epoch = session.epoch /\ session'.leaving = session.leaving
  BY DEF ServicesStart, Sessions
<1> QED
  BY <1>2, <1>3, <1>4, <1>5

LEMMA ServicesFailFacts ==
    ASSUME session \in Sessions, relay \in Relays, NEW on \in BOOLEAN, NEW leaving \in BOOLEAN,
           ServicesFail(on, leaving)
    PROVE  /\ session' \in Sessions /\ relay' \in Relays
           /\ relay'.worker = relay.worker /\ relay'.closed = relay.closed
           /\ relay'.pending = NoNotice /\ session'.epoch = session.epoch
           /\ session'.started /\ session'.on = on
<1>1. relay' = Invalidated(Invalidated(relay))
  BY DEF ServicesFail
<1>2. Invalidated(relay) \in Relays
  BY NoneTypes, RelayTypes
<1>3. relay' \in Relays /\ relay.generation + 1 \in Nat
  <2>1. relay.generation \in Nat
    BY DEF Relays
  <2>2. Invalidated(Invalidated(relay)) \in Relays
    BY <1>2, NoneTypes, RelayTypes
  <2> QED
    BY <1>1, <2>1, <2>2
<1>4. relay'.worker = relay.worker /\ relay'.closed = relay.closed /\ relay'.pending = NoNotice
  BY <1>1 DEF Relays, Invalidated
<1>5. session' \in Sessions
  BY <1>3 DEF ServicesFail, Sessions
<1>6. session'.epoch = session.epoch /\ session'.started /\ session'.on = on
  BY DEF ServicesFail, Sessions
<1> QED
  BY <1>3, <1>4, <1>5, <1>6

\* So does the answer of Core to an assertion.
LEMMA SubmitAssertionTypes ==
    ASSUME session \in Sessions, relay \in Relays, SubmitAssertion
    PROVE  session' \in Sessions /\ relay' \in Relays
BY ServicesStartFacts, ServicesFailFacts DEF SubmitAssertion

\* Every step keeps the types.
LEMMA TypeStep == TypeOK /\ [Next]_vars => TypeOK'
<1> SUFFICES ASSUME TypeOK, [Next]_vars PROVE TypeOK'
  OBVIOUS
<1> USE DEF TypeOK, fidoVars
<1>1. CASE WakePrompt
  BY <1>1, KeyTypes DEF WakePrompt
<1>2. CASE RequestPin
  BY <1>2, KeyTypes, PostTypes DEF RequestPin
<1>3. CASE PinArrives
  BY <1>3, KeyTypes DEF PinArrives
<1>4. CASE DeliverStatus
  BY <1>4, PostTypes DEF DeliverStatus
<1>5. CASE ChildStarts
  BY <1>5, KeyTypes DEF ChildStarts
<1>6. CASE AssertionArrives
  BY <1>6 DEF AssertionArrives
<1>7. CASE SubmitAssertion
  BY <1>7, SubmitAssertionTypes DEF SubmitAssertion, Prompts
<1>8. CASE FidoLeaves
  BY <1>8, NoneTypes DEF FidoLeaves
<1>9. CASE Withdraw
  BY <1>9, NoneTypes DEF Withdraw
<1>10. CASE WorkerTakes
  BY <1>10, NoneTypes, RelayTypes DEF WorkerTakes
<1>11. CASE Finished
  BY <1>11, NoneTypes, RelayTypes DEF Finished
<1>12. CASE NoticeExpires
  BY <1>12, SessionTypes DEF NoticeExpires, Expired
<1>13. CASE NoticeEnds
  BY <1>13, NoneTypes, RelayTypes, SessionTypes DEF NoticeEnds
<1>14. CASE CloseFence
  BY <1>14, NoneTypes, RelayTypes DEF CloseFence
<1>15. CASE CloseJoinsWorker
  BY <1>15 DEF CloseJoinsWorker
<1>16. CASE CloseEnds
  BY <1>16, NoneTypes, RelayTypes, SessionTypes DEF CloseEnds
<1>17. CASE BeginFido
  BY <1>17, NoneTypes, OperationTypes DEF BeginFido
<1>18. CASE FidoEnters
  BY <1>18, NoneTypes, OperationTypes, KeyTypes DEF FidoEnters, Prompts
<1>19. CASE CancelOperation
  BY <1>19, OperationTypes DEF CancelOperation
<1>20. CASE CancelKey
  BY <1>20, KeyTypes DEF CancelKey
<1>21. CASE SubmitPin
  BY <1>21, KeyTypes DEF SubmitPin, Prompts
<1>22. CASE Prompt
  <2>1. key' \in Interactions
    BY <1>22, PromptTypes DEF Prompt
  <2>2. posts' \in Seq(Prompts)
    BY <1>22, PostTypes DEF Prompt
  <2> QED
    BY <1>22, <2>1, <2>2 DEF Prompt
<1>23. CASE AssertionEnds
  <2>1. PICK result \in {"assertion", "error"} :
            key' = [key EXCEPT !.thread = "returned", !.result = result]
    BY <1>23 DEF AssertionEnds
  <2>2. key' \in Interactions
    BY <2>1, KeyTypes
  <2> QED
    BY <1>23, <2>2 DEF AssertionEnds
<1>24. ASSUME NEW kind \in Kinds, Report(kind) PROVE TypeOK'
  <2> DEFINE notice == [kind |-> kind, epoch |-> session.boundEpoch,
                         generation |-> session.bound]
             kept == IF relay.pending = NoNotice \/ kind = "authentication"
                     THEN notice ELSE relay.pending
             worker == IF relay.worker = "none" THEN "ready" ELSE relay.worker
  <2>1. notice \in Notices
    BY DEF Notices, Sessions
  <2>2. kept \in Notices /\ worker \in {"none", "ready", "handling", "inside", "ended"}
    BY <2>1 DEF Relays
  <2>3. relay' = [relay EXCEPT !.pending = kept, !.worker = worker]
    BY <1>24 DEF Report
  <2> HIDE DEF kept, worker
  <2>4. relay' \in Relays
    BY <2>2, <2>3, RelayTypes
  <2> QED
    BY <1>24, <2>4 DEF Report
<1>25. CASE NoticeEnters
  BY <1>25, NoneTypes, RelayTypes DEF NoticeEnters
<1>26. CASE NoticeFails
  BY <1>26, NoneTypes, RelayTypes, SessionTypes DEF NoticeFails
<1>27. CASE ReadFails
  BY <1>27, SessionTypes DEF ReadFails, Reads
<1>28. CASE ReadEnters
  <2>1. [read EXCEPT !.at = "inside"] \in Reads
    BY DEF Reads
  <2> QED
    BY <1>28, <2>1, NoneTypes, SessionTypes DEF ReadEnters, Expired
<1>29. CASE ReadLeaves
  BY <1>29, NoneTypes, RelayTypes DEF ReadLeaves
<1>30. CASE SignOut
  BY <1>30, NoneTypes, OperationTypes DEF SignOut
<1>31. CASE SignOutEnters
  BY <1>31, OperationTypes, SessionTypes DEF SignOutEnters
<1>32. CASE SignOutLeaves
  BY <1>32, NoneTypes, RelayTypes, SessionTypes DEF SignOutLeaves
<1>33. CASE BeginClose
  BY <1>33 DEF BeginClose
<1>34. CASE CloseEnters
  BY <1>34 DEF CloseEnters
<1>35. CASE UNCHANGED vars
  BY <1>35 DEF vars
<1> HIDE DEF TypeOK
<1> QED
  BY <1>1, <1>2, <1>3, <1>4, <1>5, <1>6, <1>7, <1>8, <1>9, <1>10, <1>11, <1>12, <1>13,
     <1>14, <1>15, <1>16, <1>17, <1>18, <1>19, <1>20, <1>21, <1>22, <1>23, <1>24, <1>25,
     <1>26, <1>27, <1>28, <1>29, <1>30, <1>31, <1>32, <1>33, <1>34, <1>35 DEF Next,
     KeySteps, NoticeSteps, CloseSteps

-----------------------------------------------------------------------------
(* The invariant. *)

\* How the answer of Core to an assertion leaves the relay and the session.
LEMMA SubmitAssertionFacts ==
    ASSUME TypeOK, SubmitAssertion
    PROVE  /\ relay'.worker = relay.worker /\ relay'.closed = relay.closed
           /\ relay'.pending \in {NoNotice, relay.pending}
           /\ session'.epoch = session.epoch
           /\ auth' \notin Prompts \/ (auth' = auth /\ session'.started /\ ~session'.on)
<1>1. session \in Sessions /\ relay \in Relays
  BY DEF TypeOK
<1>2. CASE auth' = "signed_in" /\ ServicesStart
  BY <1>1, <1>2, ServicesStartFacts DEF Prompts
<1>3. CASE auth' \in {"fido_error", "authentication_unknown"} /\ UNCHANGED <<relay, session>>
  BY <1>3 DEF Prompts
<1>4. ASSUME NEW on \in BOOLEAN, NEW leaving \in BOOLEAN, ServicesFail(on, leaving),
             on => auth' = "signed_in_degraded",
             auth' = auth \/ auth' \notin Prompts
      PROVE  /\ relay'.worker = relay.worker /\ relay'.closed = relay.closed
             /\ relay'.pending = NoNotice /\ session'.epoch = session.epoch
             /\ auth' \notin Prompts \/ (auth' = auth /\ session'.started /\ ~session'.on)
  BY <1>1, <1>4, ServicesFailFacts DEF Prompts
<1> QED
  BY <1>2, <1>3, <1>4 DEF SubmitAssertion, Prompts

\* How the end of a notice leaves the relay.
LEMMA NoticeEndsFacts ==
    ASSUME TypeOK, NoticeEnds
    PROVE  /\ relay.worker = "inside" /\ relay'.worker = "ready"
           /\ relay'.closed = relay.closed /\ relay'.pending \in {NoNotice, relay.pending}
<1>1. relay \in Relays
  BY DEF TypeOK
<1>2. relay.worker = "inside" /\ \/ relay' = [Invalidated(relay) EXCEPT !.worker = "ready"]
                                 \/ relay' = [relay EXCEPT !.worker = "ready"]
  BY DEF NoticeEnds
<1> QED
  BY <1>1, <1>2 DEF Relays, Invalidated

\* Every step keeps the invariant.
LEMMA SafeStep == IInv /\ [Next]_vars => Safe'
<1> SUFFICES ASSUME IInv, [Next]_vars PROVE Safe'
  OBVIOUS
<1> USE DEF TypeOK, Notices, Operations, Interactions, Sessions, Relays, Reads, fidoVars,
        NoOp, NoRead, NoNotice, NoInteraction, Prompts, IInv, Safe, Owners, Key, Relay,
        Closing, Leaving, Departed
<1>1. CASE WakePrompt
  BY <1>1 DEF WakePrompt
<1>2. CASE RequestPin
  <2>1. Owners'
    BY <1>2 DEF RequestPin
  <2>2. Key'
    BY <1>2 DEF RequestPin
  <2>3. Relay'
    BY <1>2 DEF RequestPin
  <2>4. Closing'
    BY <1>2 DEF RequestPin
  <2>5. Leaving'
    BY <1>2 DEF RequestPin
  <2> QED
    BY <2>1, <2>2, <2>3, <2>4, <2>5
<1>3. CASE PinArrives
  BY <1>3 DEF PinArrives
<1>4. CASE DeliverStatus
  BY <1>4 DEF DeliverStatus
<1>5. CASE ChildStarts
  BY <1>5 DEF ChildStarts
<1>6. CASE AssertionArrives
  BY <1>6 DEF AssertionArrives
<1>7. CASE SubmitAssertion
  <2>1. Owners'
    <3>1. UNCHANGED <<scope, op, read, closing>> /\ relay'.worker = relay.worker
      BY <1>7, SubmitAssertionFacts DEF SubmitAssertion
    <3> QED
      BY <3>1
  <2>2. Key'
    <3>1. /\ child = "submitting" /\ child' = "done" /\ UNCHANGED <<scope, key, posts>>
          /\ auth' \notin Prompts \/ (session'.started /\ ~session'.on)
      BY <1>7, SubmitAssertionFacts DEF SubmitAssertion
    <3> QED
      BY <3>1
  <2>3. Relay'
    BY <1>7, SubmitAssertionFacts
  <2>4. Closing'
    <3>1. UNCHANGED <<op, read, closing>>
      BY <1>7 DEF SubmitAssertion
    <3> QED
      BY <1>7, <3>1, SubmitAssertionFacts
  <2>5. Leaving'
    <3>1. scope = "fido" /\ ~signedOut /\ UNCHANGED <<scope, read, signedOut>>
      BY <1>7 DEF SubmitAssertion
    <3>2. session'.epoch = session.epoch
      BY <1>7, SubmitAssertionFacts
    <3> QED
      BY <3>1, <3>2
  <2> QED
    BY <2>1, <2>2, <2>3, <2>4, <2>5
<1>8. CASE FidoLeaves
  BY <1>8 DEF FidoLeaves
<1>9. CASE Withdraw
  BY <1>9 DEF Withdraw
<1>10. CASE WorkerTakes
  BY <1>10 DEF WorkerTakes
<1>11. CASE Finished
  BY <1>11 DEF Finished
<1>12. CASE NoticeExpires
  BY <1>12 DEF NoticeExpires, Expired
<1>13. CASE NoticeEnds
  <2>1. Owners'
    BY <1>13 DEF NoticeEnds, Invalidated
  <2>2. Key'
    BY <1>13 DEF NoticeEnds, Invalidated
  <2>3. Relay'
    BY <1>13, NoticeEndsFacts
  <2>4. Closing'
    <3>1. UNCHANGED <<op, read, closing>>
      BY <1>13 DEF NoticeEnds
    <3> QED
      BY <1>13, <3>1, NoticeEndsFacts
  <2>5. Leaving'
    BY <1>13 DEF NoticeEnds, Invalidated
  <2> QED
    BY <2>1, <2>2, <2>3, <2>4, <2>5
<1>14. CASE CloseFence
  BY <1>14 DEF CloseFence, Invalidated
<1>15. CASE CloseJoinsWorker
  BY <1>15 DEF CloseJoinsWorker
<1>16. CASE CloseEnds
  BY <1>16 DEF CloseEnds, Invalidated
<1>17. CASE BeginFido
  BY <1>17 DEF BeginFido, Ready
<1>18. CASE FidoEnters
  BY <1>18 DEF FidoEnters
<1>19. CASE CancelOperation
  BY <1>19 DEF CancelOperation
<1>20. CASE CancelKey
  BY <1>20 DEF CancelKey
<1>21. CASE SubmitPin
  BY <1>21 DEF SubmitPin
<1>22. CASE Prompt
  <2>1. Owners'
    BY <1>22 DEF Prompt
  <2>2. Key'
    BY <1>22 DEF Prompt
  <2>3. Relay'
    BY <1>22 DEF Prompt
  <2>4. Closing'
    BY <1>22 DEF Prompt
  <2>5. Leaving'
    BY <1>22 DEF Prompt
  <2> QED
    BY <2>1, <2>2, <2>3, <2>4, <2>5
<1>23. CASE AssertionEnds
  BY <1>23 DEF AssertionEnds
<1>24. ASSUME NEW kind \in Kinds, Report(kind) PROVE Safe'
  BY <1>24 DEF Report, CallbackLeads, Kinds
<1>25. CASE NoticeEnters
  BY <1>25 DEF NoticeEnters, Current
<1>26. CASE NoticeFails
  BY <1>26 DEF NoticeFails, Current
<1>27. CASE ReadFails
  BY <1>27 DEF ReadFails
<1>28. CASE ReadEnters
  <2>1. Owners'
    BY <1>28 DEF ReadEnters, Expired
  <2>2. Key'
    BY <1>28 DEF ReadEnters, Expired
  <2>3. Relay'
    BY <1>28 DEF ReadEnters, Expired
  <2>4. Closing'
    BY <1>28 DEF ReadEnters, Expired
  <2>5. Leaving'
    <3>1. CASE read.epoch # session.epoch
      BY <1>28, <3>1 DEF ReadEnters
    <3>2. CASE read.epoch = session.epoch
      <4>1. ~Departed
        BY <1>28, <3>2 DEF ReadEnters
      <4>2. session'.epoch = session.epoch + 1
        BY <1>28, <3>2 DEF ReadEnters, Expired
      <4>3. read'.epoch = read.epoch /\ scope' = "read" /\ signedOut' = signedOut
        BY <1>28, <3>2 DEF ReadEnters
      <4> QED
        BY <3>2, <4>1, <4>2, <4>3
    <3> QED
      BY <3>1, <3>2
  <2> QED
    BY <2>1, <2>2, <2>3, <2>4, <2>5
<1>29. CASE ReadLeaves
  BY <1>29 DEF ReadLeaves, Invalidated
<1>30. CASE SignOut
  BY <1>30 DEF SignOut
<1>31. CASE SignOutEnters
  BY <1>31 DEF SignOutEnters
<1>32. CASE SignOutLeaves
  BY <1>32 DEF SignOutLeaves, Invalidated
<1>33. CASE BeginClose
  BY <1>33 DEF BeginClose
<1>34. CASE CloseEnters
  BY <1>34 DEF CloseEnters
<1>35. CASE UNCHANGED vars
  BY <1>35 DEF vars
<1> HIDE DEF TypeOK, Notices, Operations, Interactions, Sessions, Relays, Reads, fidoVars,
         NoOp, NoRead, NoNotice, NoInteraction, Prompts, IInv, Safe, Owners, Key, Relay,
         Closing, Leaving, Departed
<1> QED
  BY <1>1, <1>2, <1>3, <1>4, <1>5, <1>6, <1>7, <1>8, <1>9, <1>10, <1>11, <1>12, <1>13,
     <1>14, <1>15, <1>16, <1>17, <1>18, <1>19, <1>20, <1>21, <1>22, <1>23, <1>24, <1>25,
     <1>26, <1>27, <1>28, <1>29, <1>30, <1>31, <1>32, <1>33, <1>34, <1>35 DEF Next,
     KeySteps, NoticeSteps, CloseSteps

-----------------------------------------------------------------------------
(* The theorems. *)

LEMMA IInvHolds == Spec => []IInv
<1>1. Init => IInv
  <2> SUFFICES ASSUME Init PROVE IInv
    OBVIOUS
  <2>1. TypeOK
    <3>1. session \in Sessions /\ session.bound \in Nat
      <4>1. PICK on \in BOOLEAN, n \in {0, 1} :
                session = [on |-> on, leaving |-> FALSE, started |-> on, degraded |-> FALSE,
                           epoch |-> 1, bound |-> n, boundEpoch |-> n]
        BY DEF Init
      <4> QED
        BY <4>1 DEF Sessions
    <3>2. relay \in Relays
      BY <3>1, NoneTypes DEF Init, Relays
    <3>3. posts \in Seq(Prompts)
      BY DEF Init
    <3> QED
      BY <3>1, <3>2, <3>3, NoneTypes DEF Init, TypeOK, Prompts
  <2>2. Owners /\ Key
    BY DEF Init, Owners, Key, NoOp, NoRead, NoInteraction, Prompts
  <2>3. Relay /\ Closing /\ Leaving
    BY DEF Init, Relay, Closing, Leaving, Departed, NoRead
  <2> QED
    BY <2>1, <2>2, <2>3 DEF IInv, Safe
<1>2. IInv /\ [Next]_vars => IInv'
  BY TypeStep, SafeStep DEF IInv
<1> QED
  BY <1>1, <1>2, PTL DEF Spec

\* Every state of the scope, the key, the relay and the shutdown is well typed,
\* however many prompts an assertion shows.
THEOREM ScopeTypes == Spec => []TypeOK
<1>1. IInv => TypeOK
  BY DEF IInv
<1> QED
  BY <1>1, IInvHolds, PTL

\* What the conjuncts of the invariant leave behind: nothing.
LEMMA SafeLeavesNothing == IInv => NothingLeftBehind
<1> SUFFICES ASSUME IInv PROVE NothingLeftBehind
  OBVIOUS
<1> USE DEF IInv, Safe
<1>1. NoticeKept
  BY DEF NoticeKept, Relay
<1>2. SignOutStands
  BY DEF SignOutStands, Leaving
<1>3. PromptOver
  BY DEF PromptOver, Key, TypeOK, Interactions
<1>4. QuietAfterClose
  <2> SUFFICES ASSUME closing = "done" PROVE QuietAfterClose
    BY DEF QuietAfterClose
  <2>1. op = NoOp /\ read = NoRead /\ relay.closed /\ relay.worker \in {"none", "ended"}
    BY DEF Closing
  <2>2. scope = "free"
    BY <2>1 DEF Owners, NoOp, NoRead, TypeOK
  <2>3. ~key.live /\ relay.pending = NoNotice
    BY <2>1, <2>2 DEF Key, Relay, TypeOK, Interactions
  <2> QED
    BY <2>1, <2>2, <2>3 DEF QuietAfterClose, CallbackLeads
<1> QED
  BY <1>1, <1>2, <1>3, <1>4 DEF NothingLeftBehind

\* However the callbacks of Core, the prompt thread, the callers and the shutdown
\* fall: a notice that waits has a worker, no prompt outlives its security key
\* operation but that of a sign-in that could neither be served nor recorded, no
\* word of an old session reaches a signed-out one, and a closed adapter has
\* nobody in the scope and takes no callback.
THEOREM NothingIsLeftBehind == Spec => []NothingLeftBehind
BY IInvHolds, SafeLeavesNothing, PTL

================================================================================
