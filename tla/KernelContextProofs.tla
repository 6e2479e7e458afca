------------------------ MODULE KernelContextProofs ------------------------
(***************************************************************************)
(* The safety of KernelContext for any set of threads and resources, any    *)
(* limit and any number of passes.                                          *)
(***************************************************************************)
EXTENDS KernelContext, SequenceTheorems, TLAPS

N == Len(registered)

(* Who owns the two mutexes. *)
Ownership ==
    \A t \in Threads :
       /\ pc[t] \in {"reg_gate", "reg_push", "close_begin", "close_snapshot"} => admission = t
       /\ pc[t] \in CloseSteps => lock = t

(* What the position of a pass says of the progress record. *)
PassPosition ==
    \A t \in Threads :
       /\ pc[t] \in {"close_admission", "close_begin", "close_snapshot"} => ~started
       /\ pc[t] = "close_snapshot" => phase = "Quiescing"
       /\ pc[t] \in {"cancel", "quiesce", "destroy", "mark"} => started
       /\ pc[t] \in CloseSteps \ {"close_check"} => ~report /\ failure = "none"
       /\ pc[t] \in {"quiesce", "destroy"} => cancelled = N
       /\ pc[t] = "destroy" => quiesced = 1 .. N
       /\ pc[t] = "mark" => destroyRemaining = 0 /\ Len(log) = 2 * N
       /\ outcome[t] = "Closed" => report

(* Before the first pass froze the set, nothing has happened to it. *)
BeforeFreeze ==
    ~started =>
       /\ cancelled = 0 /\ resources = <<>> /\ quiesced = {} /\ destroyRemaining = 0
       /\ ~report /\ failure = "none" /\ log = <<>>
       /\ items = registered

(* The frozen set is the registered one until the last destroy has run. *)
Frozen ==
    started =>
       /\ phase # "Running"
       /\ (~report /\ \A t \in Threads : pc[t] # "mark") =>
             items = registered /\ resources = registered
       /\ (report \/ \E t \in Threads : pc[t] = "mark") => items = <<>>
       /\ cancelled <= N
       /\ destroyRemaining <= N
       /\ quiesced \subseteq 1 .. N
       /\ destroyRemaining < N => cancelled = N /\ quiesced = 1 .. N
       /\ \A i \in quiesced : activity[registered[i]] \in {"quiet", "destroyed"}
       /\ \A i \in 1 .. N : i > destroyRemaining => activity[registered[i]] = "destroyed"
       /\ failure = "none" => Len(log) = cancelled + (N - destroyRemaining)
       /\ Len(log) > N => quiesced = 1 .. N

ReportMeansClosed ==
    /\ phase = "Closed" <=> report
    /\ report => failure = "none" /\ Len(log) = 2 * N /\ destroyRemaining = 0 /\ started

Arguments ==
    \A t \in Threads :
       /\ pc[t] \in RegisterSteps => arg[t] \in Resources
       /\ index[t] # 0

IInv ==
    /\ TypeInv
    /\ Arguments
    /\ Ownership
    /\ PassPosition
    /\ AdmissionCoversPublication
    /\ BeforeFreeze
    /\ Frozen
    /\ CallbacksInOrder
    /\ ReportMeansClosed

USE DEF gateVars, progressVars, callVars, historyVars

(* A call that returns leaves the locals of every thread well typed. *)
LEMMA ReturnTyped ==
    ASSUME NEW t \in Threads, NEW o \in Outcomes, CallTypes, Return(t, o) PROVE CallTypes'
<1>1. outcome' \in [Threads -> Outcomes]
  BY DEF CallTypes, Return
<1>2. pc' \in [Threads -> {"idle"} \cup RegisterSteps \cup CloseSteps]
  BY DEF CallTypes, Return
<1>3. arg' \in [Threads -> Resources \cup {"none", "set"}] /\ index' \in [Threads -> Nat]
  BY DEF CallTypes, Return
<1> QED BY <1>1, <1>2, <1>3 DEF CallTypes

(* What a running pass may rely on: no other pass runs, nothing was reported, *)
(* and the frozen set is the registered one.                                *)
LEMMA RunningPass ==
    ASSUME NEW t \in Threads, IInv, pc[t] \in {"cancel", "quiesce", "destroy"}
    PROVE  /\ started /\ ~report /\ failure = "none"
           /\ lock = t
           /\ items = registered /\ resources = registered
           /\ registered \in Seq(Resources) /\ N \in Nat
           /\ Len(log) \in Nat /\ Len(log) = cancelled + (N - destroyRemaining)
           /\ \A u \in Threads \ {t} : pc[u] \notin CloseSteps
<1>1. started /\ ~report /\ failure = "none"
  BY DEF IInv, PassPosition, CloseSteps
<1>2. lock = t
  BY DEF IInv, Ownership, CloseSteps
<1>3. \A u \in Threads \ {t} : pc[u] \notin CloseSteps
  BY <1>2 DEF IInv, Ownership
<1>4. \A u \in Threads : pc[u] # "mark"
  BY <1>3 DEF CloseSteps
<1>5. items = registered /\ resources = registered
  BY <1>1, <1>4 DEF IInv, Frozen
<1>6. registered \in Seq(Resources) /\ N \in Nat /\ Len(log) \in Nat
  BY LenProperties DEF IInv, TypeInv, N
<1>7. Len(log) = cancelled + (N - destroyRemaining)
  BY <1>1 DEF IInv, Frozen
<1> QED BY <1>1, <1>2, <1>3, <1>5, <1>6, <1>7

(* One more callback keeps the order if it is the one that is owed next. *)
LEMMA OwedCallback ==
    ASSUME NEW e \in {"cancel", "destroy"} \X Nat, TypeInv, CallbacksInOrder,
           log' = Append(log, e), registered' = registered,
           Len(log) < 2 * N, e = Owed(N)[Len(log) + 1]
    PROVE  CallbacksInOrder' /\ log' \in Seq({"cancel", "destroy"} \X Nat) /\ Len(log') = Len(log) + 1
<1>1. log \in Seq({"cancel", "destroy"} \X Nat) /\ Len(log) \in Nat /\ N \in Nat
  BY LenProperties DEF TypeInv, N
<1>2. /\ log' \in Seq({"cancel", "destroy"} \X Nat)
      /\ Len(log') = Len(log) + 1
      /\ \A k \in 1 .. Len(log) : log'[k] = log[k]
      /\ log'[Len(log) + 1] = e
  BY <1>1, AppendProperties
<1>3. Len(log') <= 2 * N
  BY <1>1, <1>2
<1>4. \A k \in 1 .. Len(log') : log'[k] = Owed(N)[k]
  BY <1>1, <1>2 DEF CallbacksInOrder, N
<1>5. DOMAIN log' = 1 .. Len(log')
  BY <1>2, LenProperties
<1> QED BY <1>2, <1>3, <1>4, <1>5 DEF CallbacksInOrder, N

LEMMA CallRegisterKeeps ==
    ASSUME NEW t \in Threads, NEW r \in Resources, IInv, CallRegister(t, r)
    PROVE  IInv'
<1> USE DEF IInv, CallRegister, Goto
<1>1. TypeInv'
  BY DEF TypeInv, CallTypes, Arguments, RegisterSteps, CloseSteps, Outcomes, Failures, Phases
<1>2. Arguments'
  BY DEF TypeInv, CallTypes, Arguments, RegisterSteps
<1>3. Ownership'
  BY DEF TypeInv, CallTypes, Ownership, CloseSteps
<1>4. PassPosition'
  BY DEF TypeInv, CallTypes, PassPosition, Ownership, BeforeFreeze, Frozen, ReportMeansClosed, CloseSteps, N
<1>5. AdmissionCoversPublication'
  BY DEF TypeInv, CallTypes, AdmissionCoversPublication, Ownership
<1>6. BeforeFreeze'
  BY DEF TypeInv, BeforeFreeze, PassPosition, ReportMeansClosed
<1>7. Frozen'
  BY DEF TypeInv, CallTypes, Frozen, PassPosition, Ownership, BeforeFreeze, ReportMeansClosed, CloseSteps, N
<1>8. CallbacksInOrder'
  BY DEF CallbacksInOrder
<1>9. ReportMeansClosed'
  BY DEF TypeInv, ReportMeansClosed, PassPosition, BeforeFreeze, Frozen, Ownership, N
<1> QED BY <1>1, <1>2, <1>3, <1>4, <1>5, <1>6, <1>7, <1>8, <1>9

LEMMA RegisterLockKeeps ==
    ASSUME NEW t \in Threads, IInv, RegisterLock(t)
    PROVE  IInv'
<1> USE DEF IInv, RegisterLock, Goto
<1>1. TypeInv'
  BY DEF TypeInv, CallTypes, Arguments, RegisterSteps, CloseSteps, Outcomes, Failures, Phases
<1>2. Arguments'
  BY DEF TypeInv, CallTypes, Arguments, RegisterSteps
<1>3. Ownership'
  BY ThreadsAssumption DEF TypeInv, CallTypes, Ownership, CloseSteps
<1>4. PassPosition'
  BY DEF TypeInv, CallTypes, PassPosition, Ownership, BeforeFreeze, Frozen, ReportMeansClosed, CloseSteps, N
<1>5. AdmissionCoversPublication'
  BY DEF TypeInv, CallTypes, AdmissionCoversPublication, Ownership
<1>6. BeforeFreeze'
  BY DEF TypeInv, BeforeFreeze, PassPosition, ReportMeansClosed
<1>7. Frozen'
  BY DEF TypeInv, CallTypes, Frozen, PassPosition, Ownership, BeforeFreeze, ReportMeansClosed, CloseSteps, N
<1>8. CallbacksInOrder'
  BY DEF CallbacksInOrder
<1>9. ReportMeansClosed'
  BY DEF TypeInv, ReportMeansClosed, PassPosition, BeforeFreeze, Frozen, Ownership, N
<1> QED BY <1>1, <1>2, <1>3, <1>4, <1>5, <1>6, <1>7, <1>8, <1>9

LEMMA RegisterGateKeeps ==
    ASSUME NEW t \in Threads, IInv, RegisterGate(t)
    PROVE  IInv'
<1> USE DEF IInv, RegisterGate, Goto, Refusal, Admits
<1>1. TypeInv'
  <2>1. CASE Admits
    BY <2>1 DEF TypeInv, CallTypes, RegisterSteps
  <2>2. CASE ~Admits
    BY <2>2, ReturnTyped DEF TypeInv, Outcomes
  <2> QED BY <2>1, <2>2
<1>2. Arguments'
  BY DEF TypeInv, CallTypes, Arguments, RegisterSteps, Return
<1>3. Ownership'
  BY DEF TypeInv, CallTypes, Ownership, CloseSteps, Return
<1>4. PassPosition'
  BY DEF TypeInv, CallTypes, PassPosition, Ownership, BeforeFreeze, Frozen, ReportMeansClosed, CloseSteps, N, Return
<1>5. AdmissionCoversPublication'
  BY DEF TypeInv, CallTypes, AdmissionCoversPublication, Ownership, Return
<1>6. BeforeFreeze'
  BY DEF TypeInv, BeforeFreeze, PassPosition, ReportMeansClosed, Return
<1>7. Frozen'
  BY DEF TypeInv, CallTypes, Frozen, PassPosition, Ownership, BeforeFreeze, ReportMeansClosed, CloseSteps, N, Return
<1>8. CallbacksInOrder'
  BY DEF CallbacksInOrder
<1>9. ReportMeansClosed'
  BY DEF TypeInv, ReportMeansClosed, PassPosition, BeforeFreeze, Frozen, Ownership, N, Return
<1> QED BY <1>1, <1>2, <1>3, <1>4, <1>5, <1>6, <1>7, <1>8, <1>9

LEMMA RegisterPushKeeps ==
    ASSUME NEW t \in Threads, IInv, RegisterPush(t)
    PROVE  IInv'
<1> USE DEF IInv, RegisterPush
<1>a. arg[t] \in Resources /\ items \in Seq(Resources) /\ registered \in Seq(Resources)
  BY DEF TypeInv, Arguments, RegisterSteps
<1>b. phase = "Running" /\ ~started
  BY DEF AdmissionCoversPublication, Frozen
<1>c. Len(items) \in Nat /\ Len(registered) \in Nat
  BY <1>a, LenProperties
<1>1. TypeInv'
  <2>1. CallTypes'
    BY ReturnTyped DEF TypeInv, Outcomes
  <2>2. CASE Len(items) >= MaxHandles
    BY <2>1, <2>2, <1>c, MaxHandlesAssumption DEF TypeInv
  <2>3. CASE Len(items) < MaxHandles
    <3>1. items' \in Seq(Resources) /\ Len(items') <= MaxHandles
      <4>1. items' = Append(items, arg[t])
        BY <2>3, <1>c, MaxHandlesAssumption
      <4>2. items' \in Seq(Resources) /\ Len(items') = Len(items) + 1
        BY <4>1, <1>a, AppendProperties
      <4> QED BY <2>3, <4>2, <1>c, MaxHandlesAssumption
    <3>2. registered' \in Seq(Resources)
      BY <2>3, <1>a, AppendProperties, <1>c, MaxHandlesAssumption
    <3> QED BY <2>1, <2>3, <3>1, <3>2 DEF TypeInv
  <2> QED BY <2>2, <2>3, <1>c, MaxHandlesAssumption
<1>2. Arguments'
  BY DEF TypeInv, CallTypes, Arguments, RegisterSteps, Return
<1>3. Ownership'
  BY DEF TypeInv, CallTypes, Ownership, CloseSteps, Return
<1>4. PassPosition'
  BY <1>b DEF TypeInv, CallTypes, PassPosition, CloseSteps, Return
<1>5. AdmissionCoversPublication'
  BY DEF TypeInv, CallTypes, AdmissionCoversPublication, Ownership, Return
<1>6. BeforeFreeze'
  BY <1>b DEF BeforeFreeze
<1>7. Frozen'
  BY <1>b DEF Frozen
<1>8. CallbacksInOrder'
  <2>1. log' = <<>>
    BY <1>b DEF BeforeFreeze
  <2>2. Len(registered') \in Nat
    BY <1>1, LenProperties DEF TypeInv
  <2> QED BY <2>1, <2>2 DEF CallbacksInOrder
<1>9. ReportMeansClosed'
  BY <1>b DEF ReportMeansClosed
<1> QED BY <1>1, <1>2, <1>3, <1>4, <1>5, <1>6, <1>7, <1>8, <1>9

LEMMA EnterCloseKeeps ==
    ASSUME NEW t \in Threads, NEW d \in {"none", "set"}, IInv, pc[t] = "idle", EnterClose(t, d), alive' \in BOOLEAN
    PROVE  IInv'
<1> USE DEF IInv, EnterClose, Goto
<1>1. TypeInv'
  <2>1. CASE lock # NoThread
    BY <2>1, ReturnTyped DEF TypeInv, Outcomes
  <2>2. CASE lock = NoThread
    BY <2>2 DEF TypeInv, CallTypes, CloseSteps, Outcomes
  <2> QED BY <2>1, <2>2
<1>2. Arguments'
  <2>1. CASE lock # NoThread
    BY <2>1 DEF TypeInv, CallTypes, Arguments, RegisterSteps, Return
  <2>2. CASE lock = NoThread
    BY <2>2 DEF TypeInv, CallTypes, Arguments, RegisterSteps
  <2> QED BY <2>1, <2>2
<1>3. Ownership'
  BY ThreadsAssumption DEF TypeInv, CallTypes, Ownership, CloseSteps, Return
<1>4. PassPosition'
  BY DEF TypeInv, CallTypes, PassPosition, Ownership, BeforeFreeze, Frozen, ReportMeansClosed, CloseSteps, N, Return
<1>5. AdmissionCoversPublication'
  BY DEF TypeInv, CallTypes, AdmissionCoversPublication, Ownership, Return
<1>6. BeforeFreeze'
  BY DEF TypeInv, BeforeFreeze, PassPosition, ReportMeansClosed, Return
<1>7. Frozen'
  BY DEF TypeInv, CallTypes, Frozen, PassPosition, Ownership, BeforeFreeze, ReportMeansClosed, CloseSteps, N, Return
<1>8. CallbacksInOrder'
  BY DEF CallbacksInOrder
<1>9. ReportMeansClosed'
  BY DEF TypeInv, ReportMeansClosed, PassPosition, BeforeFreeze, Frozen, Ownership, N, Return
<1> QED BY <1>1, <1>2, <1>3, <1>4, <1>5, <1>6, <1>7, <1>8, <1>9

LEMMA CloseCheckKeeps ==
    ASSUME NEW t \in Threads, IInv, CloseCheck(t)
    PROVE  IInv'
<1> USE DEF IInv, CloseCheck, CloseReturn, Goto
<1>1. TypeInv'
  <2>1. CASE CloseReturn(t, "Closed")
    BY <2>1, ReturnTyped DEF TypeInv, Outcomes
  <2>2. CASE failure # "none" /\ CloseReturn(t, failure)
    BY <2>2, ReturnTyped DEF TypeInv, Outcomes
  <2>3. CASE UNCHANGED <<lock, callVars>> /\ Goto(t, IF started THEN "cancel" ELSE "close_admission")
    BY <2>3 DEF TypeInv, CallTypes, CloseSteps
  <2> QED BY <2>1, <2>2, <2>3
<1>2. Arguments'
  BY DEF TypeInv, CallTypes, Arguments, RegisterSteps, Return
<1>3. Ownership'
  BY DEF TypeInv, CallTypes, Ownership, CloseSteps, Return
<1>4. PassPosition'
  <2>1. CASE report
    BY <2>1 DEF TypeInv, CallTypes, PassPosition, CloseSteps, Return, N
  <2>2. CASE ~report /\ failure # "none"
    BY <2>2 DEF TypeInv, CallTypes, PassPosition, CloseSteps, Return, Failures, N
  <2>3. CASE ~report /\ failure = "none"
    BY <2>3 DEF TypeInv, CallTypes, PassPosition, CloseSteps, N
  <2> QED BY <2>1, <2>2, <2>3
<1>5. AdmissionCoversPublication'
  BY DEF TypeInv, CallTypes, AdmissionCoversPublication, Ownership, Return
<1>6. BeforeFreeze'
  BY DEF TypeInv, BeforeFreeze, PassPosition, ReportMeansClosed, Return
<1>7. Frozen'
  BY DEF TypeInv, CallTypes, Frozen, PassPosition, Ownership, BeforeFreeze, ReportMeansClosed, CloseSteps, N, Return
<1>8. CallbacksInOrder'
  BY DEF CallbacksInOrder
<1>9. ReportMeansClosed'
  BY DEF TypeInv, ReportMeansClosed, PassPosition, BeforeFreeze, Frozen, Ownership, N, Return
<1> QED BY <1>1, <1>2, <1>3, <1>4, <1>5, <1>6, <1>7, <1>8, <1>9

LEMMA CloseAdmissionKeeps ==
    ASSUME NEW t \in Threads, IInv, CloseAdmission(t)
    PROVE  IInv'
<1> USE DEF IInv, CloseAdmission, Goto
<1>1. TypeInv'
  BY DEF TypeInv, CallTypes, Arguments, RegisterSteps, CloseSteps, Outcomes, Failures, Phases
<1>2. Arguments'
  BY DEF TypeInv, CallTypes, Arguments, RegisterSteps
<1>3. Ownership'
  BY ThreadsAssumption DEF TypeInv, CallTypes, Ownership, CloseSteps
<1>4. PassPosition'
  BY DEF TypeInv, CallTypes, PassPosition, Ownership, BeforeFreeze, Frozen, ReportMeansClosed, CloseSteps, N
<1>5. AdmissionCoversPublication'
  BY DEF TypeInv, CallTypes, AdmissionCoversPublication, Ownership
<1>6. BeforeFreeze'
  BY DEF TypeInv, BeforeFreeze, PassPosition, ReportMeansClosed
<1>7. Frozen'
  BY DEF TypeInv, CallTypes, Frozen, PassPosition, Ownership, BeforeFreeze, ReportMeansClosed, CloseSteps, N
<1>8. CallbacksInOrder'
  BY DEF CallbacksInOrder
<1>9. ReportMeansClosed'
  BY DEF TypeInv, ReportMeansClosed, PassPosition, BeforeFreeze, Frozen, Ownership, N
<1> QED BY <1>1, <1>2, <1>3, <1>4, <1>5, <1>6, <1>7, <1>8, <1>9

LEMMA CloseBeginKeeps ==
    ASSUME NEW t \in Threads, IInv, CloseBegin(t)
    PROVE  IInv'
<1> USE DEF IInv, CloseBegin, Goto
<1>1. TypeInv'
  BY DEF TypeInv, CallTypes, Arguments, RegisterSteps, CloseSteps, Outcomes, Failures, Phases
<1>2. Arguments'
  BY DEF TypeInv, CallTypes, Arguments, RegisterSteps
<1>3. Ownership'
  BY DEF TypeInv, CallTypes, Ownership, CloseSteps
<1>4. PassPosition'
  <2>1. phase' = "Quiescing"
    BY DEF TypeInv, Phases, PassPosition, ReportMeansClosed, CloseSteps
  <2> QED BY <2>1 DEF TypeInv, CallTypes, PassPosition, Ownership, CloseSteps, N
<1>5. AdmissionCoversPublication'
  BY DEF TypeInv, CallTypes, AdmissionCoversPublication, Ownership
<1>6. BeforeFreeze'
  BY DEF TypeInv, BeforeFreeze, PassPosition, ReportMeansClosed
<1>7. Frozen'
  BY DEF TypeInv, CallTypes, Frozen, PassPosition, Ownership, BeforeFreeze, ReportMeansClosed, CloseSteps, N
<1>8. CallbacksInOrder'
  BY DEF CallbacksInOrder
<1>9. ReportMeansClosed'
  BY DEF TypeInv, ReportMeansClosed, PassPosition, BeforeFreeze, Frozen, Ownership, N
<1> QED BY <1>1, <1>2, <1>3, <1>4, <1>5, <1>6, <1>7, <1>8, <1>9

LEMMA CloseSnapshotKeeps ==
    ASSUME NEW t \in Threads, IInv, CloseSnapshot(t)
    PROVE  IInv'
<1> USE DEF IInv, CloseSnapshot, Goto
<1>1. TypeInv'
  BY DEF TypeInv, CallTypes, Arguments, RegisterSteps, CloseSteps, Outcomes, Failures, Phases
<1>2. Arguments'
  BY DEF TypeInv, CallTypes, Arguments, RegisterSteps
<1>3. Ownership'
  BY DEF TypeInv, CallTypes, Ownership, CloseSteps
<1>4. PassPosition'
  BY DEF TypeInv, CallTypes, PassPosition, Ownership, BeforeFreeze, Frozen, ReportMeansClosed, CloseSteps, N
<1>5. AdmissionCoversPublication'
  BY DEF TypeInv, CallTypes, AdmissionCoversPublication, Ownership
<1>6. BeforeFreeze'
  BY DEF TypeInv, BeforeFreeze, PassPosition, ReportMeansClosed
<1>7. Frozen'
  BY DEF TypeInv, CallTypes, Frozen, PassPosition, Ownership, BeforeFreeze, ReportMeansClosed, CloseSteps, N
<1>8. CallbacksInOrder'
  BY DEF CallbacksInOrder
<1>9. ReportMeansClosed'
  BY DEF TypeInv, ReportMeansClosed, PassPosition, BeforeFreeze, Frozen, Ownership, N
<1> QED BY <1>1, <1>2, <1>3, <1>4, <1>5, <1>6, <1>7, <1>8, <1>9

LEMMA CloseCancelKeeps ==
    ASSUME NEW t \in Threads, IInv, CloseCancel(t)
    PROVE  IInv'
<1> USE DEF IInv, CloseCancel, Fail, CloseReturn
<1>a. /\ started /\ ~report /\ failure = "none"
      /\ items = registered /\ resources = registered
      /\ registered \in Seq(Resources) /\ N \in Nat
      /\ Len(log) = cancelled + (N - destroyRemaining) /\ Len(log) \in Nat
      /\ \A u \in Threads \ {t} : pc[u] \notin CloseSteps
  BY RunningPass

<1>b. /\ cancelled \in Nat /\ cancelled < N /\ destroyRemaining = N /\ Len(log) = cancelled
      /\ resources[cancelled + 1] \in Resources /\ quiesced \subseteq 1 .. N
  <2>1. cancelled \in Nat /\ cancelled < N /\ destroyRemaining \in Nat
    BY <1>a DEF TypeInv, N
  <2>2. destroyRemaining = N /\ quiesced \subseteq 1 .. N
    BY <1>a, <2>1 DEF Frozen
  <2>3. resources[cancelled + 1] \in Resources
    BY <1>a, <2>1, ElementOfSeq DEF N
  <2> QED BY <1>a, <2>1, <2>2, <2>3
<1>c. CallbacksInOrder' /\ log' \in Seq({"cancel", "destroy"} \X Nat) /\ Len(log') = cancelled + 1
  <2>1. <<"cancel", cancelled + 1>> = Owed(N)[Len(log) + 1]
    BY <1>a, <1>b DEF Owed
  <2>2. <<"cancel", cancelled + 1>> \in {"cancel", "destroy"} \X Nat
    BY <1>b
  <2>3. Len(log) < 2 * N /\ TypeInv /\ CallbacksInOrder
    BY <1>a, <1>b
  <2>4. log' = Append(log, <<"cancel", cancelled + 1>>) /\ registered' = registered
    OBVIOUS
  <2> HIDE DEF IInv, CloseCancel, Fail, CloseReturn
  <2>5. CallbacksInOrder' /\ log' \in Seq({"cancel", "destroy"} \X Nat) /\ Len(log') = Len(log) + 1
    BY <2>1, <2>2, <2>3, <2>4, OwedCallback
  <2> QED BY <1>b, <2>5
<1>d. \/ /\ cancelled' = cancelled + 1
         /\ activity' = [activity EXCEPT ![resources[cancelled + 1]] = IF @ = "open" THEN "stopping" ELSE @]
         /\ UNCHANGED <<lock, failure, pc, callVars>>
      \/ /\ Fail(t, "PanicBoundary")
         /\ UNCHANGED <<cancelled, activity>>
  OBVIOUS
<1>e. activity' \in [Resources -> {"open", "stopping", "quiet", "destroyed"}]
  <2>1. activity \in [Resources -> {"open", "stopping", "quiet", "destroyed"}]
    BY DEF TypeInv
  <2>2. CASE UNCHANGED activity
    BY <2>1, <2>2
  <2>3. CASE activity' = [activity EXCEPT ![resources[cancelled + 1]] = IF @ = "open" THEN "stopping" ELSE @]
    BY <2>1, <2>3, <1>b
  <2> QED BY <1>d, <2>2, <2>3
<1>1. TypeInv'
  <2>1. cancelled' \in Nat
    BY <1>b, <1>d
  <2>2. CASE UNCHANGED <<lock, failure, pc, callVars>>
    BY <2>1, <2>2, <1>c, <1>e DEF TypeInv, CallTypes
  <2>3. CASE Fail(t, "PanicBoundary")
    <3>1. CallTypes' /\ failure' \in Failures /\ lock' = NoThread
      BY <2>3, ReturnTyped DEF TypeInv, Outcomes, Failures
    <3> QED BY <2>1, <3>1, <1>c, <1>e DEF TypeInv
  <2> QED BY <2>2, <2>3, <1>d
<1>2. Arguments'
  BY DEF TypeInv, CallTypes, Arguments, RegisterSteps, Return
<1>3. Ownership'
  BY DEF TypeInv, CallTypes, Ownership, CloseSteps, Return
<1>4. PassPosition'
  BY DEF TypeInv, CallTypes, PassPosition, Ownership, BeforeFreeze, Frozen, ReportMeansClosed, CloseSteps, N, Return
<1>5. AdmissionCoversPublication'
  BY DEF TypeInv, CallTypes, AdmissionCoversPublication, Ownership, Return
<1>6. BeforeFreeze'
  BY DEF TypeInv, BeforeFreeze, PassPosition, ReportMeansClosed, Return
<1>7. Frozen'
  <2>1. started' /\ ~report' /\ phase' # "Running" /\ items' = registered' /\ resources' = registered'
    BY <1>a DEF Frozen
  <2>2. \A u \in Threads : pc'[u] # "mark"
    BY <1>a, <1>d DEF TypeInv, CallTypes, Return, CloseSteps
  <2>3. cancelled' <= N' /\ destroyRemaining' = N' /\ quiesced' \subseteq 1 .. N' /\ N' \in Nat
    BY <1>a, <1>b, <1>d DEF N
  <2>4. \A i \in quiesced' : activity'[registered'[i]] \in {"quiet", "destroyed"}
    BY <1>a, <1>b, <1>d, ElementOfSeq DEF TypeInv, Frozen, N
  <2>5. failure' = "none" => Len(log') = cancelled' + (N' - destroyRemaining')
    BY <1>a, <1>b, <1>c, <1>d DEF N
  <2>6. ~(Len(log') > N')
    BY <1>a, <1>b, <1>c DEF N
  <2> QED BY <2>1, <2>2, <2>3, <2>4, <2>5, <2>6 DEF Frozen
<1>8. CallbacksInOrder'
  BY <1>c
<1>9. ReportMeansClosed'
  BY <1>a DEF ReportMeansClosed
<1> QED BY <1>1, <1>2, <1>3, <1>4, <1>5, <1>6, <1>7, <1>8, <1>9

LEMMA CloseCancelledKeeps ==
    ASSUME NEW t \in Threads, IInv, CloseCancelled(t)
    PROVE  IInv'
<1> USE DEF IInv, CloseCancelled, Goto
<1>1. TypeInv'
  BY DEF TypeInv, CallTypes, Arguments, RegisterSteps, CloseSteps, Outcomes, Failures, Phases
<1>2. Arguments'
  BY DEF TypeInv, CallTypes, Arguments, RegisterSteps
<1>3. Ownership'
  BY DEF TypeInv, CallTypes, Ownership, CloseSteps
<1>4. PassPosition'
  BY DEF TypeInv, CallTypes, PassPosition, Ownership, BeforeFreeze, Frozen, ReportMeansClosed, CloseSteps, N
<1>5. AdmissionCoversPublication'
  BY DEF TypeInv, CallTypes, AdmissionCoversPublication, Ownership
<1>6. BeforeFreeze'
  BY DEF TypeInv, BeforeFreeze, PassPosition, ReportMeansClosed
<1>7. Frozen'
  BY DEF TypeInv, CallTypes, Frozen, PassPosition, Ownership, BeforeFreeze, ReportMeansClosed, CloseSteps, N
<1>8. CallbacksInOrder'
  BY DEF CallbacksInOrder
<1>9. ReportMeansClosed'
  BY DEF TypeInv, ReportMeansClosed, PassPosition, BeforeFreeze, Frozen, Ownership, N
<1> QED BY <1>1, <1>2, <1>3, <1>4, <1>5, <1>6, <1>7, <1>8, <1>9

LEMMA CloseQuiesceKeeps ==
    ASSUME NEW t \in Threads, IInv, CloseQuiesce(t)
    PROVE  IInv'
<1> USE DEF IInv, CloseQuiesce, NextResource, Fail, CloseReturn
<1>a. /\ started /\ ~report /\ failure = "none"
      /\ items = registered /\ resources = registered
      /\ registered \in Seq(Resources) /\ N \in Nat
      /\ Len(log) = cancelled + (N - destroyRemaining) /\ Len(log) \in Nat
      /\ \A u \in Threads \ {t} : pc[u] \notin CloseSteps
  BY RunningPass

<1>b. index[t] \in 1 .. N /\ quiesced \subseteq 1 .. N /\ cancelled = N /\ resources[index[t]] \in Resources
  <2>1. index[t] \in 1 .. N
    BY <1>a DEF TypeInv, CallTypes, Arguments, N
  <2>2. quiesced \subseteq 1 .. N
    BY <1>a DEF Frozen
  <2>3. cancelled = N
    BY DEF PassPosition
  <2> QED BY <1>a, <2>1, <2>2, <2>3, ElementOfSeq DEF N
<1>c. \/ /\ UNCHANGED <<lock, failure, pc, arg, outcome>> /\ index' = [index EXCEPT ![t] = @ + 1]
         /\ \/ quiesced' = quiesced
            \/ /\ quiesced' = quiesced \cup {index[t]}
               /\ activity[resources[index[t]]] \in {"quiet", "destroyed"}
      \/ CloseReturn(t, "TimedOut") /\ UNCHANGED <<quiesced, failure>>
      \/ (\E f \in Failures : Fail(t, f)) /\ UNCHANGED quiesced
  OBVIOUS
<1>d. \/ UNCHANGED pc /\ UNCHANGED outcome
      \/ \E o \in Outcomes : o # "Closed" /\ Return(t, o)
  BY <1>c DEF Outcomes, Failures
<1>e. quiesced' \subseteq 1 .. N /\ quiesced \subseteq quiesced'
  BY <1>b, <1>c
<1>1. TypeInv'
  <2>1. CallTypes'
    <3>1. CASE UNCHANGED <<lock, failure, pc, arg, outcome>> /\ index' = [index EXCEPT ![t] = @ + 1]
      BY <3>1 DEF TypeInv, CallTypes
    <3>2. CASE \E o \in Outcomes : Return(t, o)
      BY <3>2, ReturnTyped DEF TypeInv
    <3>3. CASE CloseReturn(t, "TimedOut")
      BY <3>2, <3>3 DEF Outcomes
    <3>4. CASE \E f \in Failures : Fail(t, f)
      BY <3>2, <3>4 DEF Outcomes
    <3> QED BY <1>c, <3>1, <3>3, <3>4
  <2>2. quiesced' \subseteq Nat
    BY <1>a, <1>e
  <2>3. lock' \in Threads \cup {NoThread} /\ failure' \in Failures \cup {"none"}
    BY <1>c DEF TypeInv, Failures
  <2> QED BY <2>1, <2>2, <2>3 DEF TypeInv
<1>2. Arguments'
  BY DEF TypeInv, CallTypes, Arguments, RegisterSteps, Return
<1>3. Ownership'
  BY DEF TypeInv, CallTypes, Ownership, CloseSteps, Return
<1>4. PassPosition'
  <2>1. CASE UNCHANGED pc /\ UNCHANGED outcome
    <3>1. failure' = "none"
      BY <1>a, <1>c, <2>1 DEF Return, TypeInv, CallTypes
    <3>2. \A u \in Threads : pc[u] = "destroy" => FALSE
      BY <1>a DEF CloseSteps
    <3> QED BY <1>a, <1>b, <2>1, <3>1, <3>2 DEF PassPosition, N
  <2>2. CASE \E o \in Outcomes : o # "Closed" /\ Return(t, o)
    <3>1. \A u \in Threads : pc'[u] \notin CloseSteps
      BY <1>a, <2>2 DEF TypeInv, CallTypes, Return, CloseSteps
    <3>2. \A u \in Threads : outcome'[u] # "Closed" \/ outcome[u] = "Closed"
      BY <2>2 DEF TypeInv, CallTypes, Return
    <3> QED BY <1>a, <3>1, <3>2 DEF PassPosition, CloseSteps, N
  <2> QED BY <1>d, <2>1, <2>2
<1>5. AdmissionCoversPublication'
  BY DEF TypeInv, CallTypes, AdmissionCoversPublication, Ownership, Return
<1>6. BeforeFreeze'
  BY DEF TypeInv, BeforeFreeze, PassPosition, ReportMeansClosed, Return
<1>7. Frozen'
  <2>1. started' /\ ~report' /\ phase' # "Running" /\ items' = registered' /\ resources' = registered'
    BY <1>a DEF Frozen
  <2>2. \A u \in Threads : pc'[u] # "mark"
    BY <1>a, <1>d DEF TypeInv, CallTypes, Return, CloseSteps
  <2>3. \A i \in quiesced' : activity'[registered'[i]] \in {"quiet", "destroyed"}
    BY <1>a, <1>c DEF Frozen
  <2>4. failure' = "none" => Len(log') = cancelled' + (N' - destroyRemaining')
    BY <1>a DEF N
  <2>5. quiesced = 1 .. N => quiesced' = 1 .. N
    BY <1>e
  <2>6. /\ cancelled' <= N' /\ destroyRemaining' <= N' /\ quiesced' \subseteq 1 .. N'
        /\ destroyRemaining' < N' => cancelled' = N' /\ quiesced' = 1 .. N'
        /\ \A i \in 1 .. N' : i > destroyRemaining' => activity'[registered'[i]] = "destroyed"
        /\ Len(log') > N' => quiesced' = 1 .. N'
    BY <1>a, <1>e, <2>5 DEF Frozen, N
  <2> QED BY <2>1, <2>2, <2>3, <2>4, <2>6 DEF Frozen
<1>8. CallbacksInOrder'
  BY DEF CallbacksInOrder
<1>9. ReportMeansClosed'
  BY <1>a DEF ReportMeansClosed
<1> QED BY <1>1, <1>2, <1>3, <1>4, <1>5, <1>6, <1>7, <1>8, <1>9

LEMMA CloseJudgeKeeps ==
    ASSUME NEW t \in Threads, IInv, CloseJudge(t)
    PROVE  IInv'
<1> USE DEF IInv, CloseJudge, CloseReturn, Goto
<1>1. TypeInv'
  <2>1. CallTypes'
    <3>1. CASE UNCHANGED <<lock, callVars>> /\ Goto(t, "destroy")
      BY <3>1 DEF TypeInv, CallTypes, CloseSteps
    <3>2. CASE CloseReturn(t, "Quiescing") \/ CloseReturn(t, "TimedOut")
      BY <3>2, ReturnTyped DEF TypeInv, Outcomes
    <3> QED BY <3>1, <3>2
  <2>2. lock' \in Threads \cup {NoThread}
    BY DEF TypeInv
  <2> QED BY <2>1, <2>2 DEF TypeInv
<1>2. Arguments'
  BY DEF TypeInv, CallTypes, Arguments, RegisterSteps, Return
<1>3. Ownership'
  BY DEF TypeInv, CallTypes, Ownership, CloseSteps, Return
<1>4. PassPosition'
  BY DEF TypeInv, CallTypes, PassPosition, Ownership, BeforeFreeze, Frozen, ReportMeansClosed, CloseSteps, N, Return
<1>5. AdmissionCoversPublication'
  BY DEF TypeInv, CallTypes, AdmissionCoversPublication, Ownership, Return
<1>6. BeforeFreeze'
  BY DEF TypeInv, BeforeFreeze, PassPosition, ReportMeansClosed, Return
<1>7. Frozen'
  BY DEF TypeInv, CallTypes, Frozen, PassPosition, Ownership, BeforeFreeze, ReportMeansClosed, CloseSteps, N, Return
<1>8. CallbacksInOrder'
  BY DEF CallbacksInOrder
<1>9. ReportMeansClosed'
  BY DEF TypeInv, ReportMeansClosed, PassPosition, BeforeFreeze, Frozen, Ownership, N, Return
<1> QED BY <1>1, <1>2, <1>3, <1>4, <1>5, <1>6, <1>7, <1>8, <1>9

LEMMA CloseDestroyKeeps ==
    ASSUME NEW t \in Threads, IInv, CloseDestroy(t)
    PROVE  IInv'
<1> USE DEF IInv, CloseDestroy, Fail, CloseReturn
<1>a. /\ started /\ ~report /\ failure = "none"
      /\ items = registered /\ resources = registered
      /\ registered \in Seq(Resources) /\ N \in Nat
      /\ Len(log) = cancelled + (N - destroyRemaining) /\ Len(log) \in Nat
      /\ \A u \in Threads \ {t} : pc[u] \notin CloseSteps
  BY RunningPass

<1>b. /\ destroyRemaining \in 1 .. N /\ cancelled = N /\ quiesced = 1 .. N
      /\ resources[destroyRemaining] \in Resources
  <2>1. destroyRemaining \in 1 .. N
    BY <1>a DEF TypeInv, Frozen
  <2>2. cancelled = N /\ quiesced = 1 .. N
    BY DEF PassPosition
  <2> QED BY <1>a, <2>1, <2>2, ElementOfSeq DEF N
<1>c. CallbacksInOrder' /\ log' \in Seq({"cancel", "destroy"} \X Nat) /\ Len(log') = Len(log) + 1
  <2>1. <<"destroy", destroyRemaining>> = Owed(N)[Len(log) + 1]
    BY <1>a, <1>b DEF Owed
  <2>2. <<"destroy", destroyRemaining>> \in {"cancel", "destroy"} \X Nat
    BY <1>b
  <2>3. Len(log) < 2 * N /\ TypeInv /\ CallbacksInOrder
    BY <1>a, <1>b
  <2>4. log' = Append(log, <<"destroy", destroyRemaining>>) /\ registered' = registered
    OBVIOUS
  <2> HIDE DEF IInv, CloseDestroy, Fail, CloseReturn
  <2> QED BY <2>1, <2>2, <2>3, <2>4, OwedCallback
<1>d. \/ /\ destroyRemaining' = destroyRemaining - 1
         /\ activity' = [activity EXCEPT ![resources[destroyRemaining]] = "destroyed"]
         /\ UNCHANGED <<lock, failure, pc, callVars>>
      \/ /\ \E f \in Failures : Fail(t, f)
         /\ UNCHANGED <<destroyRemaining, activity>>
  OBVIOUS
<1>e. \/ UNCHANGED pc /\ UNCHANGED outcome
      \/ \E o \in Outcomes : o # "Closed" /\ Return(t, o)
  BY <1>d DEF Outcomes, Failures
<1>f. /\ activity' \in [Resources -> {"open", "stopping", "quiet", "destroyed"}]
      /\ \A r \in Resources : activity'[r] = activity[r] \/ activity'[r] = "destroyed"
  BY <1>b, <1>d DEF TypeInv
<1>1. TypeInv'
  <2>1. CallTypes'
    <3>1. CASE UNCHANGED <<lock, failure, pc, callVars>>
      BY <3>1 DEF TypeInv, CallTypes
    <3>2. CASE \E o \in Outcomes : Return(t, o)
      BY <3>2, ReturnTyped DEF TypeInv
    <3> QED BY <1>d, <3>1, <3>2 DEF Outcomes, Failures
  <2>2. lock' \in Threads \cup {NoThread} /\ failure' \in Failures \cup {"none"}
    BY <1>d DEF TypeInv, Failures
  <2>3. destroyRemaining' \in Nat
    BY <1>a, <1>b, <1>d
  <2> QED BY <2>1, <2>2, <2>3, <1>c, <1>f DEF TypeInv
<1>2. Arguments'
  BY DEF TypeInv, CallTypes, Arguments, RegisterSteps, Return
<1>3. Ownership'
  BY DEF TypeInv, CallTypes, Ownership, CloseSteps, Return
<1>4. PassPosition'
  <2>1. CASE UNCHANGED pc /\ UNCHANGED outcome
    <3>1. failure' = "none"
      BY <1>a, <1>d, <2>1 DEF Return, TypeInv, CallTypes
    <3>2. \A u \in Threads : pc[u] # "mark"
      BY <1>a DEF CloseSteps
    <3> QED BY <1>a, <1>b, <2>1, <3>1, <3>2 DEF PassPosition, N
  <2>2. CASE \E o \in Outcomes : o # "Closed" /\ Return(t, o)
    <3>1. \A u \in Threads : pc'[u] \notin CloseSteps
      BY <1>a, <2>2 DEF TypeInv, CallTypes, Return, CloseSteps
    <3>2. \A u \in Threads : outcome'[u] # "Closed" \/ outcome[u] = "Closed"
      BY <2>2 DEF TypeInv, CallTypes, Return
    <3> QED BY <1>a, <3>1, <3>2 DEF PassPosition, CloseSteps, N
  <2> QED BY <1>e, <2>1, <2>2
<1>5. AdmissionCoversPublication'
  BY DEF TypeInv, CallTypes, AdmissionCoversPublication, Ownership, Return
<1>6. BeforeFreeze'
  BY DEF TypeInv, BeforeFreeze, PassPosition, ReportMeansClosed, Return
<1>7. Frozen'
  <2>1. started' /\ ~report' /\ phase' # "Running" /\ items' = registered' /\ resources' = registered'
    BY <1>a DEF Frozen
  <2>2. \A u \in Threads : pc'[u] # "mark"
    BY <1>a, <1>e DEF TypeInv, CallTypes, Return, CloseSteps
  <2>3. \A i \in 1 .. N : registered[i] \in Resources
    BY <1>a, ElementOfSeq DEF N
  <2>4. \A i \in quiesced' : activity'[registered'[i]] \in {"quiet", "destroyed"}
    BY <1>a, <1>b, <1>f, <2>3 DEF Frozen
  <2>5. \A i \in 1 .. N' : i > destroyRemaining' => activity'[registered'[i]] = "destroyed"
    <3> SUFFICES ASSUME NEW i \in 1 .. N, i > destroyRemaining' PROVE activity'[registered[i]] = "destroyed"
      BY DEF N
    <3>1. CASE i > destroyRemaining
      BY <3>1, <1>a, <1>f, <2>3 DEF Frozen
    <3>2. CASE ~(i > destroyRemaining)
      <4>1. i = destroyRemaining /\ destroyRemaining' = destroyRemaining - 1
        BY <3>2, <1>a, <1>b, <1>d
      <4>2. activity' = [activity EXCEPT ![registered[i]] = "destroyed"]
        BY <4>1, <1>a, <1>b, <1>d
      <4> QED BY <4>2, <2>3 DEF TypeInv
    <3> QED BY <3>1, <3>2
  <2>6. failure' = "none" => Len(log') = cancelled' + (N' - destroyRemaining')
    <3>1. CASE destroyRemaining' = destroyRemaining - 1
      BY <1>a, <1>b, <1>c, <3>1 DEF N
    <3>2. CASE \E f \in Failures : Fail(t, f)
      BY <3>2 DEF Failures
    <3> QED BY <1>d, <3>1, <3>2
  <2>7. cancelled' = N' /\ destroyRemaining' <= N' /\ quiesced' = 1 .. N'
    BY <1>a, <1>b, <1>d DEF N
  <2>8. cancelled' <= N' /\ quiesced' \subseteq 1 .. N'
    BY <1>a, <2>7 DEF N
  <2> QED BY <2>1, <2>2, <2>4, <2>5, <2>6, <2>7, <2>8 DEF Frozen
<1>8. CallbacksInOrder'
  BY <1>c
<1>9. ReportMeansClosed'
  BY DEF TypeInv, ReportMeansClosed, PassPosition, BeforeFreeze, Frozen, Ownership, N, Return
<1> QED BY <1>1, <1>2, <1>3, <1>4, <1>5, <1>6, <1>7, <1>8, <1>9

LEMMA CloseClearKeeps ==
    ASSUME NEW t \in Threads, IInv, CloseClear(t)
    PROVE  IInv'
<1> USE DEF IInv, CloseClear, Goto
<1>1. TypeInv'
  <2>1. items' \in Seq(Resources) /\ Len(items') <= MaxHandles /\ resources' \in Seq(Resources)
    BY MaxHandlesAssumption
  <2> QED BY <2>1 DEF TypeInv, CallTypes, CloseSteps
<1>2. Arguments'
  BY DEF TypeInv, CallTypes, Arguments, RegisterSteps
<1>3. Ownership'
  BY DEF TypeInv, CallTypes, Ownership, CloseSteps
<1>4. PassPosition'
  BY DEF TypeInv, CallTypes, PassPosition, Ownership, BeforeFreeze, Frozen, ReportMeansClosed, CloseSteps, N
<1>5. AdmissionCoversPublication'
  BY DEF TypeInv, CallTypes, AdmissionCoversPublication, Ownership
<1>6. BeforeFreeze'
  BY DEF TypeInv, BeforeFreeze, PassPosition, ReportMeansClosed
<1>7. Frozen'
  BY DEF TypeInv, CallTypes, Frozen, PassPosition, Ownership, BeforeFreeze, ReportMeansClosed, CloseSteps, N
<1>8. CallbacksInOrder'
  BY DEF CallbacksInOrder
<1>9. ReportMeansClosed'
  BY DEF TypeInv, ReportMeansClosed, PassPosition, BeforeFreeze, Frozen, Ownership, N
<1> QED BY <1>1, <1>2, <1>3, <1>4, <1>5, <1>6, <1>7, <1>8, <1>9

LEMMA CloseMarkKeeps ==
    ASSUME NEW t \in Threads, IInv, CloseMark(t)
    PROVE  IInv'
<1> USE DEF IInv, CloseMark, CloseReturn
<1>1. TypeInv'
  BY DEF TypeInv, CallTypes, Arguments, RegisterSteps, CloseSteps, Outcomes, Failures, Phases, Return
<1>2. Arguments'
  BY DEF TypeInv, CallTypes, Arguments, RegisterSteps, Return
<1>3. Ownership'
  BY DEF TypeInv, CallTypes, Ownership, CloseSteps, Return
<1>4. PassPosition'
  BY DEF TypeInv, CallTypes, PassPosition, Ownership, BeforeFreeze, Frozen, ReportMeansClosed, CloseSteps, N, Return
<1>5. AdmissionCoversPublication'
  BY DEF TypeInv, CallTypes, AdmissionCoversPublication, PassPosition, Frozen, Return
<1>6. BeforeFreeze'
  BY DEF TypeInv, BeforeFreeze, PassPosition, ReportMeansClosed, Return
<1>7. Frozen'
  BY DEF TypeInv, CallTypes, Frozen, PassPosition, Ownership, BeforeFreeze, ReportMeansClosed, CloseSteps, N, Return
<1>8. CallbacksInOrder'
  BY DEF CallbacksInOrder
<1>9. ReportMeansClosed'
  BY DEF TypeInv, CallTypes, ReportMeansClosed, PassPosition, CloseSteps, N, Return
<1> QED BY <1>1, <1>2, <1>3, <1>4, <1>5, <1>6, <1>7, <1>8, <1>9

LEMMA DrainKeeps ==
    ASSUME NEW r \in Resources, IInv, Drain(r)
    PROVE  IInv'
<1> USE DEF IInv, Drain
<1>1. TypeInv'
  BY DEF TypeInv, CallTypes, Arguments, RegisterSteps, CloseSteps, Outcomes, Failures, Phases
<1>2. Arguments'
  BY DEF TypeInv, CallTypes, Arguments, RegisterSteps
<1>3. Ownership'
  BY DEF TypeInv, CallTypes, Ownership, CloseSteps
<1>4. PassPosition'
  BY DEF TypeInv, CallTypes, PassPosition, Ownership, BeforeFreeze, Frozen, ReportMeansClosed, CloseSteps, N
<1>5. AdmissionCoversPublication'
  BY DEF TypeInv, CallTypes, AdmissionCoversPublication, Ownership
<1>6. BeforeFreeze'
  BY DEF TypeInv, BeforeFreeze, PassPosition, ReportMeansClosed
<1>7. Frozen'
  <2>1. \A i \in 1 .. N : registered[i] \in Resources
    BY ElementOfSeq, LenProperties DEF TypeInv, N
  <2>2. \A q \in Resources : activity[q] \in {"quiet", "destroyed"} => activity'[q] = activity[q]
    BY DEF TypeInv
  <2>3. started => /\ \A i \in quiesced : activity'[registered[i]] \in {"quiet", "destroyed"}
                   /\ \A i \in 1 .. N : i > destroyRemaining => activity'[registered[i]] = "destroyed"
    <3>1. started => quiesced \subseteq 1 .. N
      BY DEF Frozen
    <3> QED BY <2>1, <2>2, <3>1 DEF Frozen
  <2> QED BY <2>3 DEF Frozen, N
<1>8. CallbacksInOrder'
  BY DEF CallbacksInOrder
<1>9. ReportMeansClosed'
  BY DEF TypeInv, ReportMeansClosed, PassPosition, BeforeFreeze, Frozen, Ownership, N
<1> QED BY <1>1, <1>2, <1>3, <1>4, <1>5, <1>6, <1>7, <1>8, <1>9

LEMMA StutterKeeps ==
    ASSUME IInv, UNCHANGED vars
    PROVE  IInv'
<1> USE DEF IInv, vars
<1>1. TypeInv' /\ Arguments' /\ Ownership' /\ AdmissionCoversPublication'
  BY DEF TypeInv, CallTypes, Arguments, Ownership, AdmissionCoversPublication
<1>2. PassPosition' /\ BeforeFreeze' /\ ReportMeansClosed'
  BY DEF PassPosition, BeforeFreeze, ReportMeansClosed, N
<1>3. Frozen' /\ CallbacksInOrder'
  BY DEF Frozen, CallbacksInOrder, N
<1> QED BY <1>1, <1>2, <1>3

LEMMA InitEstablishes == Init => IInv
<1> SUFFICES ASSUME Init PROVE IInv
  OBVIOUS
<1> USE DEF Init
<1>1. TypeInv
  <2>1. CallTypes
    BY DEF CallTypes, Outcomes
  <2>2. <<>> \in Seq(Resources) /\ <<>> \in Seq({"cancel", "destroy"} \X Nat) /\ Len(<<>>) <= MaxHandles
    BY MaxHandlesAssumption
  <2> QED BY <2>1, <2>2 DEF TypeInv, Phases
<1>2. Arguments /\ Ownership /\ PassPosition /\ AdmissionCoversPublication
  BY DEF Arguments, Ownership, PassPosition, AdmissionCoversPublication, RegisterSteps, CloseSteps
<1>3. BeforeFreeze /\ Frozen /\ ReportMeansClosed
  BY DEF BeforeFreeze, Frozen, ReportMeansClosed
<1>4. CallbacksInOrder
  BY DEF CallbacksInOrder
<1> QED BY <1>1, <1>2, <1>3, <1>4 DEF IInv

LEMMA NextKeeps == IInv /\ [Next]_vars => IInv'
<1> SUFFICES ASSUME IInv, [Next]_vars PROVE IInv'
  OBVIOUS
<1>1. CASE UNCHANGED vars
  BY <1>1, StutterKeeps
<1>2. ASSUME NEW t \in Threads, NEW r \in Resources, CallRegister(t, r) PROVE IInv'
  BY <1>2, CallRegisterKeeps
<1>3. ASSUME NEW t \in Threads, NEW d \in {"none", "set"}, CallClose(t, d) PROVE IInv'
  <2>1. pc[t] = "idle" /\ EnterClose(t, d) /\ alive' \in BOOLEAN
    BY <1>3 DEF CallClose, IInv, TypeInv
  <2> QED BY <2>1, EnterCloseKeeps
<1>4. ASSUME NEW t \in Threads, DropContext(t) PROVE IInv'
  <2>1. pc[t] = "idle" /\ EnterClose(t, "none") /\ alive' \in BOOLEAN
    BY <1>4 DEF DropContext
  <2> QED BY <2>1, EnterCloseKeeps
<1>5. ASSUME NEW t \in Threads, RegisterStep(t) PROVE IInv'
  BY <1>5, RegisterLockKeeps, RegisterGateKeeps, RegisterPushKeeps DEF RegisterStep
<1>6. ASSUME NEW t \in Threads, CloseStep(t) PROVE IInv'
  BY <1>6, CloseCheckKeeps, CloseAdmissionKeeps, CloseBeginKeeps, CloseSnapshotKeeps,
     CloseCancelKeeps, CloseCancelledKeeps, CloseQuiesceKeeps, CloseJudgeKeeps,
     CloseDestroyKeeps, CloseClearKeeps, CloseMarkKeeps DEF CloseStep
<1>7. ASSUME NEW r \in Resources, Drain(r) PROVE IInv'
  BY <1>7, DrainKeeps
<1> QED BY <1>1, <1>2, <1>3, <1>4, <1>5, <1>6, <1>7 DEF Next

(* The inductive invariant holds in every reachable state. *)
THEOREM Inductive == Spec => []IInv
  BY InitEstablishes, NextKeeps, PTL DEF Spec

(* The variables stay in their types and the registry within its limit. *)
THEOREM TypesHold == Spec => []TypeInv
<1>1. IInv => TypeInv
  BY DEF IInv
<1> QED BY <1>1, Inductive, PTL

(* A registration that passed the gate is published before close can leave *)
(* Running (admit_work held by register_resource).                          *)
THEOREM AdmissionHolds == Spec => []AdmissionCoversPublication
<1>1. IInv => AdmissionCoversPublication
  BY DEF IInv
<1> QED BY <1>1, Inductive, PTL

(* Over all passes of close, callbacks run in the owed order and none twice. *)
THEOREM CallbackOrderHolds == Spec => []CallbacksInOrder
<1>1. IInv => CallbacksInOrder
  BY DEF IInv
<1> QED BY <1>1, Inductive, PTL

(* No destroy callback runs while a registered resource has work in flight. *)
THEOREM QuiescenceHolds == Spec => []NoDestroyBeforeQuiescence
<1>1. IInv => NoDestroyBeforeQuiescence
  <2> SUFFICES ASSUME IInv, Len(log) > N, NEW i \in DOMAIN registered
               PROVE  activity[registered[i]] \in {"quiet", "destroyed"}
    BY DEF NoDestroyBeforeQuiescence, Destroying, N
  <2>1. started
    BY LenProperties DEF IInv, BeforeFreeze, TypeInv, N
  <2>2. quiesced = 1 .. N /\ DOMAIN registered = 1 .. N
    BY <2>1, LenProperties DEF IInv, TypeInv, Frozen, N
  <2> QED BY <2>1, <2>2 DEF IInv, Frozen
<1> QED BY <1>1, Inductive, PTL

(* The set that close froze misses no resource that was ever registered. *)
THEOREM FrozenSetHolds == Spec => []FrozenSetIsComplete
<1>1. IInv => FrozenSetIsComplete
  BY DEF IInv, FrozenSetIsComplete, Frozen
<1> QED BY <1>1, Inductive, PTL

(* Closed, as phase or as answer, means that everything was destroyed. *)
THEOREM ClosedHolds == Spec => []ClosedMeansReclaimed
<1>1. IInv => ClosedMeansReclaimed
  <2> SUFFICES ASSUME IInv, report PROVE
               /\ failure = "none" /\ Len(log) = 2 * N
               /\ \A i \in DOMAIN registered : activity[registered[i]] = "destroyed"
    BY DEF IInv, ClosedMeansReclaimed, ReportMeansClosed, PassPosition, N
  <2>1. failure = "none" /\ Len(log) = 2 * N /\ destroyRemaining = 0 /\ started
    BY DEF IInv, ReportMeansClosed
  <2>2. DOMAIN registered = 1 .. N
    BY LenProperties DEF IInv, TypeInv, N
  <2> QED BY <2>1, <2>2 DEF IInv, Frozen
<1> QED BY <1>1, Inductive, PTL

(* After a failure only a pass that has just entered can be running. *)
LEMMA NoPassAfterFailure ==
    ASSUME IInv, failure # "none" PROVE \A t \in Threads : pc[t] \notin CloseSteps \ {"close_check"}
BY DEF IInv, PassPosition

(* A failed close keeps its failure and runs no further callback. *)
THEOREM FailureHolds == Spec => FailureIsFinal
<1>1. IInv /\ [Next]_vars => [failure # "none" => UNCHANGED <<failure, phase, log>>]_vars
  <2> SUFFICES ASSUME IInv, Next, failure # "none" PROVE UNCHANGED <<failure, phase, log>>
    BY DEF vars
  <2>1. ASSUME NEW t \in Threads, NEW r \in Resources, CallRegister(t, r) \/ RegisterStep(t)
        PROVE  UNCHANGED <<failure, phase, log>>
    BY <2>1 DEF CallRegister, RegisterStep, RegisterLock, RegisterGate, RegisterPush
  <2>2. ASSUME NEW t \in Threads, RegisterStep(t) PROVE UNCHANGED <<failure, phase, log>>
    BY <2>2 DEF RegisterStep, RegisterLock, RegisterGate, RegisterPush
  <2>3. ASSUME NEW t \in Threads, DropContext(t) \/ \E d \in {"none", "set"} : CallClose(t, d)
        PROVE  UNCHANGED <<failure, phase, log>>
    BY <2>3 DEF DropContext, CallClose, EnterClose
  <2>4. ASSUME NEW t \in Threads, CloseStep(t) PROVE UNCHANGED <<failure, phase, log>>
    <3>1. CloseCheck(t)
      BY <2>4, NoPassAfterFailure
         DEF CloseStep, CloseSteps, CloseAdmission, CloseBegin, CloseSnapshot, CloseCancel,
             CloseCancelled, CloseQuiesce, CloseJudge, CloseDestroy, CloseClear, CloseMark
    <3> QED BY <3>1 DEF CloseCheck
  <2>5. ASSUME NEW r \in Resources, Drain(r) PROVE UNCHANGED <<failure, phase, log>>
    BY <2>5 DEF Drain
  <2> QED BY <2>1, <2>2, <2>3, <2>4, <2>5 DEF Next
<1> QED BY <1>1, Inductive, PTL DEF Spec, FailureIsFinal

(* A pass that answers Quiescing or TimedOut finds nothing destroyed. *)
THEOREM PendingHolds == Spec => PendingKeepsResources
<1> DEFINE Pending(t) == pc[t] \in CloseSteps /\ pc'[t] = "idle"
                         /\ outcome'[t] \in {"Quiescing", "TimedOut"}
<1>1. ASSUME IInv, Next, NEW t \in Threads, Pending(t) PROVE ~Destroying
  <2>0. pc \in [Threads -> {"idle"} \cup RegisterSteps \cup CloseSteps] /\ outcome \in [Threads -> Outcomes]
    BY <1>1 DEF IInv, TypeInv, CallTypes
  <2>1. CloseQuiesce(t) \/ CloseJudge(t)
    <3>1. ASSUME NEW u \in Threads, NEW r \in Resources, CallRegister(u, r) PROVE FALSE
      BY <1>1, <2>0, <3>1 DEF CallRegister, Goto, CloseSteps
    <3>2. ASSUME NEW u \in Threads, RegisterStep(u) PROVE FALSE
      BY <1>1, <2>0, <3>2 DEF RegisterStep, RegisterLock, RegisterGate, RegisterPush, Goto, Return, CloseSteps
    <3>3. ASSUME NEW u \in Threads, pc[u] = "idle", NEW d \in {"none", "set"}, EnterClose(u, d) PROVE FALSE
      BY <1>1, <2>0, <3>3 DEF EnterClose, Goto, Return, CloseSteps
    <3>4. ASSUME NEW u \in Threads, CloseStep(u) PROVE u = t
      <4> SUFFICES ASSUME u # t PROVE pc'[t] = pc[t]
        BY <1>1 DEF CloseSteps
      <4> QED
        BY <2>0, <3>4 DEF CloseStep, CloseCheck, CloseAdmission, CloseBegin, CloseSnapshot,
             CloseCancel, CloseCancelled, CloseQuiesce, CloseJudge, CloseDestroy, CloseClear,
             CloseMark, Fail, CloseReturn, Return, Goto
    <3>5. ASSUME NEW r \in Resources, Drain(r) PROVE FALSE
      BY <1>1, <3>5 DEF Drain, CloseSteps
    <3>6. CloseStep(t)
      BY <1>1, <3>1, <3>2, <3>3, <3>4, <3>5 DEF Next, CallClose, DropContext
    <3>7. failure \in Failures \cup {"none"}
      BY <1>1 DEF IInv, TypeInv
    <3>8. ASSUME NEW o, Return(t, o), o \notin {"Quiescing", "TimedOut"} PROVE FALSE
      BY <1>1, <2>0, <3>8 DEF Return
    <3>9. ~CloseCheck(t)
      BY <1>1, <2>0, <3>7, <3>8 DEF CloseCheck, CloseReturn, Goto, Failures
    <3>10. ~(CloseAdmission(t) \/ CloseBegin(t) \/ CloseSnapshot(t) \/ CloseCancelled(t) \/ CloseClear(t))
      BY <1>1, <2>0 DEF CloseAdmission, CloseBegin, CloseSnapshot, CloseCancelled, CloseClear, Goto
    <3>11. ~(CloseCancel(t) \/ CloseDestroy(t) \/ CloseMark(t))
      BY <1>1, <3>8 DEF CloseCancel, CloseDestroy, CloseMark, Fail, CloseReturn, Failures
    <3> QED BY <3>6, <3>9, <3>10, <3>11 DEF CloseStep
  <2>2. started /\ resources = registered /\ N \in Nat /\ DOMAIN resources = 1 .. N
    BY <1>1, <2>1, RunningPass, LenProperties DEF CloseQuiesce, CloseJudge, N
  <2>3. quiesced # 1 .. N
    <3>1. CASE CloseQuiesce(t)
      <4>1. pc'[t] # pc[t]
        BY <1>1 DEF CloseSteps
      <4>2. index[t] \notin quiesced /\ index[t] <= N
        BY <3>1, <4>1, <2>2 DEF CloseQuiesce, N
      <4>3. index[t] \in 1 .. N
        BY <1>1, <4>2, <2>2 DEF IInv, TypeInv, CallTypes, Arguments
      <4> QED BY <4>2, <4>3
    <3>2. CASE CloseJudge(t)
      BY <3>2, <1>1, <2>0, <2>2 DEF CloseJudge, Goto
    <3> QED BY <2>1, <3>1, <3>2
  <2> QED BY <1>1, <2>2, <2>3 DEF IInv, Frozen, Destroying, N
<1>2. IInv /\ [Next]_vars => [\A t \in Threads : Pending(t) => ~Destroying]_vars
  BY <1>1
<1> QED BY <1>2, Inductive, PTL DEF Spec, PendingKeepsResources

(* The resources with work in flight, as in the mapping of Contract. *)
Busy == {r \in Resources : activity[r] \in {"open", "stopping"}}

(* A step that leaves phase, registry, progress and activity alone is invisible. *)
LEMMA InvisibleStep ==
    ASSUME UNCHANGED <<phase, registered, started, destroyRemaining>>, Busy' = Busy
    PROVE  UNCHANGED Contract!contractVars
BY DEF Contract!contractVars, Busy

(* The close protocol implements the contract of ContextContract: threads,  *)
(* locks, passes, retries and failures are invisible in the four variables. *)
THEOREM Refinement == Spec => ImplementsContract
<1>1. Init => Contract!Init
  BY DEF Init, Contract!Init
<1>2. ASSUME IInv, [Next]_vars PROVE Contract!Next \/ UNCHANGED Contract!contractVars
  <2> DEFINE Goal == Contract!Next \/ UNCHANGED Contract!contractVars
  <2>0. /\ activity \in [Resources -> {"open", "stopping", "quiet", "destroyed"}]
        /\ phase \in {"Running", "Quiescing", "Closed"} /\ destroyRemaining \in Nat
        /\ registered \in Seq(Resources) /\ N \in Nat /\ DOMAIN registered = 1 .. N
    BY <1>2, LenProperties DEF IInv, TypeInv, Phases, N
  <2>1. CASE UNCHANGED vars
    BY <2>1, InvisibleStep DEF vars, Busy
  <2>2. ASSUME NEW t \in Threads, NEW r \in Resources, CallRegister(t, r) PROVE Goal
    BY <2>2, InvisibleStep DEF CallRegister, Busy
  <2>3. ASSUME NEW t \in Threads, NEW d \in {"none", "set"}, EnterClose(t, d) PROVE Goal
    BY <2>3, InvisibleStep DEF EnterClose, Busy
  <2>4. ASSUME NEW t \in Threads, RegisterLock(t) \/ RegisterGate(t) PROVE Goal
    BY <2>4, InvisibleStep DEF RegisterLock, RegisterGate, Busy
  <2>5. ASSUME NEW t \in Threads, RegisterPush(t) PROVE Goal
    <3>1. phase = "Running" /\ arg[t] \in Resources /\ ~started
      BY <1>2, <2>5 DEF IInv, Arguments, RegisterSteps, RegisterPush, AdmissionCoversPublication, Frozen
    <3>2. CASE registered' = registered
      BY <3>2, <2>5, InvisibleStep DEF RegisterPush, Busy
    <3>3. CASE registered' = Append(registered, arg[t])
      <4>1. Contract!TakeOver(arg[t])
        BY <2>5, <3>1, <3>3 DEF RegisterPush, Contract!TakeOver
      <4> QED BY <3>1, <4>1 DEF Contract!Next
    <3> QED BY <2>5, <3>2, <3>3 DEF RegisterPush
  <2>6. ASSUME NEW t \in Threads,
               CloseCheck(t) \/ CloseAdmission(t) \/ CloseCancelled(t) \/ CloseQuiesce(t) \/ CloseJudge(t)
                  \/ CloseClear(t)
        PROVE Goal
    BY <2>6, InvisibleStep
       DEF CloseCheck, CloseAdmission, CloseCancelled, CloseQuiesce, CloseJudge, CloseClear, Busy
  <2>7. ASSUME NEW t \in Threads, CloseBegin(t) PROVE Goal
    <3>1. ~started
      BY <1>2, <2>7 DEF IInv, PassPosition, CloseBegin
    <3>2. CASE phase = "Running"
      <4>1. Contract!Seal
        BY <2>7, <3>2 DEF CloseBegin, Contract!Seal
      <4> QED BY <4>1 DEF Contract!Next
    <3>3. CASE phase # "Running"
      BY <2>7, <3>3, InvisibleStep DEF CloseBegin, Busy
    <3> QED BY <3>2, <3>3
  <2>8. ASSUME NEW t \in Threads, CloseSnapshot(t) PROVE Goal
    <3>1. ~started /\ items = registered
      BY <1>2, <2>8 DEF IInv, PassPosition, BeforeFreeze, CloseSnapshot
    <3>2. started' /\ destroyRemaining' = N /\ UNCHANGED <<phase, registered, activity>>
      BY <2>8, <3>1 DEF CloseSnapshot, N
    <3> QED BY <2>0, <3>1, <3>2 DEF Contract!contractVars, N
  <2>9. ASSUME NEW t \in Threads, CloseCancel(t) PROVE Goal
    <3>1. cancelled + 1 \in DOMAIN resources /\ resources[cancelled + 1] \in Resources
      BY <1>2, <2>9, LenProperties, ElementOfSeq DEF CloseCancel, IInv, TypeInv
    <3>2. Busy' = Busy
      BY <2>0, <2>9, <3>1 DEF CloseCancel, Busy
    <3> QED BY <2>9, <3>2, InvisibleStep DEF CloseCancel
  <2>10. ASSUME NEW t \in Threads, CloseDestroy(t) PROVE Goal
    <3>1. started /\ resources = registered /\ quiesced = 1 .. N /\ destroyRemaining \in 1 .. N
          /\ phase # "Running" /\ ~report
      BY <1>2, <2>0, <2>10, RunningPass DEF CloseDestroy, IInv, PassPosition, Frozen
    <3>2. phase = "Quiescing"
      BY <1>2, <2>0, <3>1 DEF IInv, ReportMeansClosed
    <3>3. \A i \in 1 .. N : registered[i] \in Resources /\ registered[i] \notin Busy
      BY <1>2, <2>0, <3>1, ElementOfSeq DEF IInv, Frozen, Busy, N
    <3>4. Busy' = Busy
      BY <2>0, <2>10, <3>1, <3>3 DEF CloseDestroy, Busy
    <3>5. CASE destroyRemaining' = destroyRemaining
      BY <2>10, <3>4, <3>5, InvisibleStep DEF CloseDestroy
    <3>6. CASE destroyRemaining' = destroyRemaining - 1
      <4>1. Contract!Destroy
        BY <2>0, <2>10, <3>1, <3>2, <3>3, <3>4, <3>6 DEF CloseDestroy, Contract!Destroy, Busy, N
      <4> QED BY <4>1 DEF Contract!Next
    <3> QED BY <2>10, <3>5, <3>6 DEF CloseDestroy
  <2>11. ASSUME NEW t \in Threads, CloseMark(t) PROVE Goal
    <3>1. started /\ destroyRemaining = 0 /\ ~report
      BY <1>2, <2>11 DEF CloseMark, IInv, PassPosition, CloseSteps
    <3>2. phase = "Quiescing"
      BY <1>2, <2>0, <3>1 DEF IInv, ReportMeansClosed, Frozen
    <3>3. Contract!Finish
      BY <2>0, <2>11, <3>1, <3>2 DEF CloseMark, Contract!Finish, N
    <3> QED BY <3>3 DEF Contract!Next
  <2>12. ASSUME NEW r \in Resources, Drain(r) PROVE Goal
    <3>1. Contract!Settle(r)
      BY <2>0, <2>12 DEF Drain, Contract!Settle
    <3> QED BY <3>1 DEF Contract!Next
  <2> QED
    BY <1>2, <2>1, <2>2, <2>3, <2>4, <2>5, <2>6, <2>7, <2>8, <2>9, <2>10, <2>11, <2>12
       DEF Next, CallClose, DropContext, RegisterStep, CloseStep
<1> QED BY <1>1, <1>2, Inductive, PTL DEF Spec, ImplementsContract, Contract!Spec
=============================================================================
