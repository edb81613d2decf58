------------------------- MODULE DbTransactionProofs -------------------------
(***************************************************************************)
(* For every set of objects, every bound and every choice of faults: the   *)
(* transaction counter of DbPDO agrees with the connection, a nest of      *)
(* saves leaves no transaction open, and nothing of a nest is durable      *)
(* before its outermost save returns, and a save that reports true has its *)
(* row in the database for good, both unless a level was rolled back.  As  *)
(* long as only statements outside listeners fail, the saves are atomic.   *)
(***************************************************************************)
EXTENDS DbTransaction, TLAPS

\* A level is open for every active save, until a rollback drops them all.
Covered == ~rolled => token >= depth

\* Outside a transaction the connection reads what is committed.
InSync == ~inTrx => work = durable

\* No level outlives its save, unless an \Error skipped the catch blocks.
NoLeak == Faults \cap Escapes = {} => token <= depth

\* Only raw SQL leaves a PDOStatement behind.
SlotClean == statement => "statement" \in Faults

\* The inductive invariant.
IInv == TypeOK /\ TokenOwnsTransaction /\ Covered /\ InSync /\ NoLeak /\ SlotClean

-----------------------------------------------------------------------------
(* The operators of the call stack.                                        *)

LEMMA NoFrameType == NoFrame \in Frame
<1>1. SomeObj \in Obj
  BY ObjAssumption DEF SomeObj
<1>2. QED
  BY <1>1, BoundAssumption DEF NoFrame, Frame, Op, Phase, Stamp

LEMMA NoCallType == NoCall \in [op: Op, obj: Obj, n: Stamp, valid: BOOLEAN, res: Result]
<1>1. SomeObj \in Obj
  BY ObjAssumption DEF SomeObj
<1>2. QED
  BY <1>1, BoundAssumption DEF NoCall, Op, Stamp, Result

LEMMA NextPhaseType ==
  ASSUME NEW op, NEW at
  PROVE  NextPhase(op, at) \in Phase
BY DEF NextPhase, Phase

LEMMA FirstPhaseType ==
  ASSUME NEW op, NEW validated
  PROVE  FirstPhase(op, validated) \in Phase
BY DEF FirstPhase, Phase

LEMMA TopType ==
  ASSUME TypeOK, depth > 0
  PROVE  depth \in 1 .. MaxDepth /\ Top \in Frame
BY BoundAssumption DEF TypeOK, Top

LEMMA GoToType ==
  ASSUME TypeOK, depth > 0, NEW at \in Phase, GoTo(at)
  PROVE  frame' \in [1 .. MaxDepth -> Frame]
BY TopType DEF TypeOK, GoTo, Top, Frame

\* What entering a save does to every part of the invariant but the history variables.
Entered ==
    /\ token' = token + 1 /\ token' \in Nat
    /\ depth' = depth + 1 /\ depth' \in 1 .. MaxDepth /\ depth' \in 0 .. MaxDepth
    /\ inTrx' = TRUE /\ inTrx' \in BOOLEAN
    /\ frame' \in [1 .. MaxDepth -> Frame]
    /\ saves' \in Stamp
    /\ durable' = durable /\ work' = work
    /\ TokenOwnsTransaction' /\ InSync'

LEMMA EnterStep ==
  ASSUME TypeOK, TokenOwnsTransaction, InSync, NEW op \in Op, NEW o \in Obj,
         NEW via \in {"caller", "hook", "inner"}, NEW validated \in BOOLEAN,
         NEW valid \in BOOLEAN, NEW stack \in [1 .. MaxDepth -> Frame],
         Enter(op, o, via, validated, valid, stack)
  PROVE  Entered
<1>1. token' = token + 1 /\ inTrx' = TRUE /\ durable' = durable /\ work' = work
  BY DEF Enter, startTransaction
<1>2. /\ depth' = depth + 1 /\ depth' \in 1 .. MaxDepth /\ depth' \in 0 .. MaxDepth
      /\ saves' \in Stamp /\ saves + 1 \in Stamp
  BY BoundAssumption DEF Enter, TypeOK, Stamp
<1>3. FirstPhase(op, validated) \in Phase
  BY FirstPhaseType
<1>4. frame' \in [1 .. MaxDepth -> Frame]
  BY <1>2, <1>3 DEF Enter, Frame
<1>5. token' \in Nat /\ token' > 0
  BY <1>1 DEF TypeOK
<1>6. TokenOwnsTransaction' /\ InSync'
  BY <1>1, <1>5 DEF TokenOwnsTransaction, InSync
<1>7. QED
  BY <1>1, <1>2, <1>4, <1>5, <1>6 DEF Entered

LEMMA ReturnType ==
  ASSUME TypeOK, depth > 0, NEW res \in Result, Return(res)
  PROVE  /\ depth' = depth - 1 /\ depth' \in 0 .. MaxDepth
         /\ frame' \in [1 .. MaxDepth -> Frame]
         /\ last' \in [op: Op, obj: Obj, n: Stamp, valid: BOOLEAN, res: Result]
<1>1. depth \in 1 .. MaxDepth /\ Top \in Frame
  BY TopType
<1>2. depth' = depth - 1 /\ depth' \in 0 .. MaxDepth
  BY <1>1, BoundAssumption DEF Return
<1>3. ASSUME NEW i \in 1 .. MaxDepth
      PROVE  [frame[i] EXCEPT !.at = "catch"] \in Frame
  BY DEF TypeOK, Frame, Phase
<1>4. frame' \in [1 .. MaxDepth -> Frame]
  BY <1>3, NoFrameType DEF Return, TypeOK
<1>5. last' \in [op: Op, obj: Obj, n: Stamp, valid: BOOLEAN, res: Result]
  BY <1>1 DEF Return, TypeOK, Frame
<1>6. QED
  BY <1>2, <1>4, <1>5

\* commitTransaction and rollbackTransaction keep the counter and the connection in step.
LEMMA CommitStep ==
  ASSUME TypeOK, TokenOwnsTransaction, InSync, commitTransaction
  PROVE  /\ token' \in Nat /\ inTrx' \in BOOLEAN /\ statement' \in BOOLEAN
         /\ durable' \in [Obj -> Stamp] /\ work' \in [Obj -> Stamp]
         /\ TokenOwnsTransaction' /\ InSync'
<1>a. token' \in Nat
  BY DEF TypeOK, commitTransaction
<1>b. inTrx' = FALSE \/ inTrx' = inTrx
  BY DEF commitTransaction
<1>1. token' \in Nat /\ inTrx' \in BOOLEAN
  BY <1>a, <1>b DEF TypeOK
<1>2. durable' \in [Obj -> Stamp] /\ work' \in [Obj -> Stamp]
  BY DEF TypeOK, commitTransaction
<1>3. TokenOwnsTransaction'
  BY DEF TypeOK, TokenOwnsTransaction, commitTransaction
<1>4. InSync'
  BY DEF TypeOK, TokenOwnsTransaction, InSync, commitTransaction
<1>5. statement' \in BOOLEAN
  BY DEF TypeOK, commitTransaction
<1>6. QED
  BY <1>1, <1>2, <1>3, <1>4, <1>5

LEMMA RollbackStep ==
  ASSUME TypeOK, TokenOwnsTransaction, InSync, rollbackTransaction
  PROVE  /\ token' = 0 /\ token' \in Nat
         /\ inTrx' = FALSE /\ inTrx' \in BOOLEAN
         /\ durable' = durable /\ work' \in [Obj -> Stamp]
         /\ rolled' \in BOOLEAN /\ statement' \in BOOLEAN
         /\ TokenOwnsTransaction' /\ InSync'
<1>1. token' = 0 /\ token' \in Nat /\ inTrx' = FALSE
  BY DEF TypeOK, TokenOwnsTransaction, rollbackTransaction
<1>2. durable' = durable /\ work' \in [Obj -> Stamp]
  BY DEF TypeOK, rollbackTransaction
<1>3. rolled' \in BOOLEAN /\ statement' \in BOOLEAN
  BY DEF TypeOK, rollbackTransaction
<1>4. TokenOwnsTransaction'
  BY <1>1 DEF TokenOwnsTransaction
<1>5. InSync'
  BY DEF TypeOK, TokenOwnsTransaction, InSync, rollbackTransaction
<1>6. QED
  BY <1>1, <1>2, <1>3, <1>4, <1>5

-----------------------------------------------------------------------------
(* The inductive invariant.                                                *)

LEMMA InitInv == Init => IInv
<1> SUFFICES ASSUME Init PROVE IInv
  OBVIOUS
<1>1. NoRow \in Stamp /\ 0 \in Stamp
  BY BoundAssumption DEF NoRow, Stamp
<1>2. token \in Nat /\ inTrx \in BOOLEAN /\ statement \in BOOLEAN /\ rolled \in BOOLEAN
  BY DEF Init
<1>3. durable \in [Obj -> Stamp] /\ work \in [Obj -> Stamp] /\ hasId \in [Obj -> BOOLEAN]
  BY <1>1 DEF Init
<1>4. frame \in [1 .. MaxDepth -> Frame]
  BY NoFrameType DEF Init
<1>5. depth \in 0 .. MaxDepth /\ saves \in Stamp
  BY <1>1, BoundAssumption DEF Init
<1>6. TypeOK
  BY <1>2, <1>3, <1>4, <1>5, NoCallType DEF Init, TypeOK
<1>7. Covered /\ NoLeak /\ SlotClean
  BY DEF Init, Covered, NoLeak, SlotClean
<1>8. TokenOwnsTransaction /\ InSync
  BY DEF Init, TokenOwnsTransaction, InSync
<1>9. QED
  BY <1>6, <1>7, <1>8 DEF IInv

LEMMA NextInv == IInv /\ [Next]_vars => IInv'
<1> SUFFICES ASSUME IInv, [Next]_vars PROVE IInv'
  OBVIOUS
<1> USE DEF IInv
<1>a. Validity \subseteq BOOLEAN
  BY DEF Validity
<1>1. ASSUME NEW op \in Ops, NEW o \in Obj, NEW valid \in Validity, Call(op, o, valid)
      PROVE  IInv'
  <2>1. op \in Op /\ valid \in BOOLEAN /\ frame \in [1 .. MaxDepth -> Frame]
    BY OpsAssumption, <1>a DEF TypeOK
  <2>2. Enter(op, o, "caller", TRUE, valid, frame) /\ rolled' = FALSE /\ depth = 0
        /\ last' = NoCall /\ hasId' = hasId /\ statement' = statement
    BY <1>1 DEF Call
  <2>3. Entered
    BY <2>1, <2>2, EnterStep
  <2>4. TypeOK'
    BY <2>2, <2>3, NoCallType DEF Entered, TypeOK
  <2>5. Covered' /\ NoLeak' /\ SlotClean'
    BY <2>2, <2>3 DEF Entered, Covered, NoLeak, SlotClean, TypeOK
  <2>6. QED
    BY <2>3, <2>4, <2>5 DEF Entered
<1>2. ASSUME NEW op \in Ops, NEW o \in Obj, NEW valid \in Validity,
             HookCall(op, o, valid) \/ BodyCall(op, o, valid)
      PROVE  IInv'
  <2>1. op \in Op /\ valid \in BOOLEAN /\ frame \in [1 .. MaxDepth -> Frame]
    BY OpsAssumption, <1>a DEF TypeOK
  <2>2. /\ Enter(op, o, "hook", TRUE, valid, frame) \/ Enter(op, o, "inner", TRUE, valid, frame)
        /\ rolled' = rolled /\ last' = last /\ hasId' = hasId /\ statement' = statement
    BY <1>2 DEF HookCall, BodyCall
  <2>3. Entered
    BY <2>1, <2>2, EnterStep
  <2>4. TypeOK'
    BY <2>2, <2>3 DEF Entered, TypeOK
  <2>5. Covered' /\ NoLeak' /\ SlotClean'
    BY <2>2, <2>3 DEF Entered, Covered, NoLeak, SlotClean, TypeOK
  <2>6. QED
    BY <2>3, <2>4, <2>5 DEF Entered
<1>3. ASSUME NEW op \in Ops, NEW o \in Obj, AspectCall(op, o)
      PROVE  IInv'
  <2>1. op \in Op /\ frame \in [1 .. MaxDepth -> Frame]
    BY OpsAssumption DEF TypeOK
  <2>2. /\ Enter(op, o, "inner", FALSE, TRUE, frame)
        /\ rolled' = rolled /\ last' = last /\ hasId' = hasId /\ statement' = statement
    BY <1>3 DEF AspectCall
  <2>3. Entered
    BY <2>1, <2>2, EnterStep
  <2>4. TypeOK'
    BY <2>2, <2>3 DEF Entered, TypeOK
  <2>5. Covered' /\ NoLeak' /\ SlotClean'
    BY <2>2, <2>3 DEF Entered, Covered, NoLeak, SlotClean, TypeOK
  <2>6. QED
    BY <2>3, <2>4, <2>5 DEF Entered
<1>4. CASE Validate
  <2>1. CASE GoTo("before") /\ UNCHANGED <<trx, depth, last, hasId, saves>> /\ depth > 0
    <3>1. frame' \in [1 .. MaxDepth -> Frame]
      BY <2>1, GoToType DEF Phase
    <3>2. QED
      BY <2>1, <3>1 DEF trx, TypeOK, TokenOwnsTransaction, Covered, InSync, NoLeak, SlotClean
  <2>2. CASE rollbackTransaction /\ Return("errors") /\ UNCHANGED <<hasId, saves>> /\ depth > 0
    <3>1. "errors" \in Result
      BY DEF Result
    <3>2. TypeOK'
      BY <2>2, <3>1, RollbackStep, ReturnType DEF TypeOK
    <3>3. Covered' /\ NoLeak' /\ SlotClean'
      BY <2>2, <3>1, <3>2, RollbackStep, ReturnType
      DEF Covered, NoLeak, SlotClean, TypeOK, rollbackTransaction
    <3>4. QED
      BY <2>2, <3>2, <3>3, RollbackStep
  <2>3. QED
    BY <1>4, <2>1, <2>2 DEF Validate
<1>5. CASE Proceed
  <2>1. NextPhase(Top.op, Top.at) \in Phase
    BY NextPhaseType
  <2>2. frame' \in [1 .. MaxDepth -> Frame]
    BY <1>5, <2>1, GoToType DEF Proceed
  <2>3. QED
    BY <1>5, <2>2 DEF Proceed, trx, TypeOK, TokenOwnsTransaction, Covered, InSync, NoLeak, SlotClean
<1>6. CASE Write
  <2>1. depth > 0 /\ Top \in Frame
    BY <1>6, TopType DEF Write
  <2>2. PICK stamp \in Stamp : Execute(Top.obj, stamp)
    <3>1. Top.n \in Stamp /\ NoRow \in Stamp
      BY <2>1, BoundAssumption DEF Frame, NoRow, Stamp
    <3>2. QED
      BY <1>6, <3>1 DEF Write
  <2>3. NextPhase(Top.op, Top.at) \in Phase
    BY NextPhaseType
  <2>4. frame' \in [1 .. MaxDepth -> Frame]
    BY <1>6, <2>1, <2>3, GoToType DEF Write
  <2>5. durable' \in [Obj -> Stamp] /\ work' \in [Obj -> Stamp] /\ InSync'
    BY <2>1, <2>2 DEF Execute, TypeOK, Frame, InSync
  <2>6. hasId' \in [Obj -> BOOLEAN]
    BY <1>6, <2>1 DEF Write, TypeOK, Frame
  <2>7. /\ token' = token /\ inTrx' = inTrx /\ rolled' = rolled /\ statement' = FALSE
        /\ depth' = depth /\ saves' = saves /\ last' = last
    BY <1>6, <2>2 DEF Write, Execute
  <2>8. QED
    BY <2>4, <2>5, <2>6, <2>7 DEF TypeOK, TokenOwnsTransaction, Covered, NoLeak, SlotClean
<1>7. CASE SoftDelete
  <2>1. depth > 0 /\ Top \in Frame /\ depth \in 1 .. MaxDepth
    BY <1>7, TopType DEF SoftDelete
  <2> DEFINE stack == [frame EXCEPT ![depth].at = "after"]
  <2>2. stack \in [1 .. MaxDepth -> Frame] /\ Top.obj \in Obj
    BY <2>1 DEF TypeOK, Frame, Phase, Top
  <2>3. /\ Enter("update", Top.obj, "inner", FALSE, TRUE, stack)
        /\ rolled' = rolled /\ last' = last /\ hasId' = hasId /\ statement' = statement
    BY <1>7 DEF SoftDelete
  <2>4. "update" \in Op
    BY DEF Op
  <2> HIDE DEF stack
  <2>5. Entered
    BY <2>2, <2>3, <2>4, EnterStep
  <2>6. TypeOK'
    BY <2>3, <2>5 DEF Entered, TypeOK
  <2>7. Covered' /\ NoLeak' /\ SlotClean'
    BY <2>3, <2>5 DEF Entered, Covered, NoLeak, SlotClean, TypeOK
  <2>8. QED
    BY <2>5, <2>6, <2>7 DEF Entered
<1>8. CASE SqlFails
  <2>1. frame' \in [1 .. MaxDepth -> Frame]
    BY <1>8, GoToType DEF SqlFails, Phase
  <2>2. QED
    BY <1>8, <2>1 DEF SqlFails, trx, TypeOK, TokenOwnsTransaction, Covered, InSync, NoLeak, SlotClean
<1>9. CASE Catch
  <2>1. PICK res \in Result : Return(res)
    BY <1>9 DEF Catch, Result
  <2>2. rollbackTransaction /\ depth > 0 /\ UNCHANGED <<hasId, saves>>
    BY <1>9 DEF Catch
  <2>3. TypeOK'
    BY <2>1, <2>2, RollbackStep, ReturnType DEF TypeOK
  <2>4. Covered' /\ NoLeak' /\ SlotClean'
    BY <2>1, <2>2, <2>3, RollbackStep, ReturnType
    DEF Covered, NoLeak, SlotClean, TypeOK, rollbackTransaction
  <2>5. QED
    BY <2>2, <2>3, <2>4, RollbackStep
<1>10. CASE Commit
  <2>1. PICK res \in Result : Return(res)
    BY <1>10 DEF Commit, Result
  <2>2. commitTransaction /\ depth > 0 /\ UNCHANGED <<hasId, saves>>
    BY <1>10 DEF Commit
  <2>3. rolled' = rolled
    BY <2>2 DEF commitTransaction
  <2>4. TypeOK'
    BY <2>1, <2>2, <2>3, CommitStep, ReturnType DEF TypeOK
  <2>5. Covered' /\ NoLeak' /\ SlotClean'
    BY <2>1, <2>2, <2>3, <2>4, ReturnType DEF Covered, NoLeak, SlotClean, TypeOK, commitTransaction
  <2>6. QED
    BY <2>2, <2>4, <2>5, CommitStep
<1>11. CASE PhpError
  <2>1. PICK d \in 0 .. depth - 1 :
           /\ depth' = d
           /\ frame' = [i \in 1 .. MaxDepth |-> IF i > d THEN NoFrame ELSE frame[i]]
           /\ last' = IF d = 0
                      THEN [op |-> frame[1].op, obj |-> frame[1].obj, n |-> frame[1].n,
                            valid |-> frame[1].valid, res |-> "thrown"]
                      ELSE last
    BY <1>11 DEF PhpError, Unwind
  <2>2. depth' \in 0 .. MaxDepth /\ depth' < depth
    BY <2>1, BoundAssumption DEF TypeOK
  <2>3. frame' \in [1 .. MaxDepth -> Frame]
    BY <2>1, NoFrameType DEF TypeOK
  <2>4. frame[1] \in Frame
    BY BoundAssumption DEF TypeOK
  <2>5. last' \in [op: Op, obj: Obj, n: Stamp, valid: BOOLEAN, res: Result]
    BY <2>1, <2>4 DEF TypeOK, Frame, Result
  <2>6. UNCHANGED <<token, inTrx, durable, work, rolled, statement, hasId, saves>>
    BY <1>11 DEF PhpError, trx
  <2>7. Faults \cap Escapes # {}
    <3>1. "error" \in Faults \/ statement
      BY <1>11 DEF PhpError, ClearSqlRaises
    <3>2. QED
      BY <3>1 DEF Escapes, SlotClean
  <2>8. TypeOK'
    BY <2>2, <2>3, <2>5, <2>6 DEF TypeOK
  <2>9. SlotClean'
    BY <2>6 DEF SlotClean
  <2>10. QED
    BY <2>2, <2>6, <2>7, <2>8, <2>9 DEF TypeOK, TokenOwnsTransaction, Covered, InSync, NoLeak, SlotClean
<1>12. CASE EndProcess
  <2>a. token' \in Nat /\ depth' \in 0 .. MaxDepth
    BY <1>12, BoundAssumption DEF EndProcess
  <2>b. frame' \in [1 .. MaxDepth -> Frame] /\ hasId' \in [Obj -> BOOLEAN]
    BY <1>12, NoFrameType DEF EndProcess
  <2>1. TypeOK'
    BY <1>12, <2>a, <2>b, NoCallType DEF EndProcess, TypeOK
  <2>2. QED
    BY <1>12, <2>1 DEF EndProcess, TokenOwnsTransaction, Covered, InSync, NoLeak, SlotClean
<1>13. CASE RawQuery
  <2>1. /\ statement' = TRUE /\ "statement" \in Faults
        /\ UNCHANGED <<token, inTrx, durable, work, rolled, depth, frame, hasId, saves, last>>
    BY <1>13 DEF RawQuery
  <2>2. TypeOK'
    BY <2>1 DEF TypeOK
  <2>3. QED
    BY <2>1, <2>2 DEF TokenOwnsTransaction, Covered, InSync, NoLeak, SlotClean
<1>14. CASE UNCHANGED vars
  BY <1>14 DEF vars, TypeOK, TokenOwnsTransaction, Covered, InSync, NoLeak, SlotClean
<1>15. QED
  BY <1>1, <1>2, <1>3, <1>4, <1>5, <1>6, <1>7, <1>8, <1>9, <1>10, <1>11, <1>12, <1>13, <1>14
  DEF Next

LEMMA SpecInv == Spec => []IInv
<1>1. QED
  BY InitInv, NextInv, PTL DEF Spec

-----------------------------------------------------------------------------
(* The theorems.                                                           *)

\* Every variable keeps its type, whatever fails.
THEOREM TypeCorrect == Spec => []TypeOK
<1>1. IInv => TypeOK
  BY DEF IInv
<1>2. QED
  BY <1>1, SpecInv, PTL

\* DbPDO's counter is positive exactly while the connection has a transaction, for any
\* interleaving of nested saves, failures, swallowed exceptions and \Errors.
THEOREM TokenAgrees == Spec => []TokenOwnsTransaction
<1>1. IInv => TokenOwnsTransaction
  BY DEF IInv
<1>2. QED
  BY <1>1, SpecInv, PTL

\* Without \Errors every outermost save, successful or not, closes its transaction.
THEOREM ClosedAtRest == Spec => []NothingOpenAtRest
<1>1. IInv => NothingOpenAtRest
  BY DEF IInv, TypeOK, TokenOwnsTransaction, InSync, NoLeak, NothingOpenAtRest
<1>2. QED
  BY <1>1, SpecInv, PTL

\* Nothing of a nest of saves is durable before its outermost save returns, until a level
\* of it has been rolled back.
THEOREM AtomicNest == Spec => DurableOnlyAtTheEnd
<1>1. IInv /\ [Next]_vars => [durable' # durable => depth' = 0 \/ rolled]_vars
  <2> SUFFICES ASSUME IInv, Next, durable' # durable
               PROVE  depth' = 0 \/ rolled
    BY DEF vars
  <2> USE DEF IInv
  <2>1. CASE Write
    BY <2>1 DEF Write, Execute, TypeOK, TokenOwnsTransaction, Covered
  <2>2. CASE Commit
    BY <2>2 DEF Commit, Return, commitTransaction, TypeOK, Covered
  <2>3. ASSUME NEW op \in Ops, NEW o \in Obj, NEW valid \in Validity,
               Call(op, o, valid) \/ HookCall(op, o, valid) \/ BodyCall(op, o, valid)
        PROVE  FALSE
    BY <2>3 DEF Call, HookCall, BodyCall, Enter, startTransaction
  <2>4. ASSUME NEW op \in Ops, NEW o \in Obj, AspectCall(op, o)
        PROVE  FALSE
    BY <2>4 DEF AspectCall, Enter, startTransaction
  <2>5. CASE Validate \/ Proceed \/ SqlFails \/ PhpError \/ RawQuery \/ EndProcess
    BY <2>5 DEF Validate, Proceed, SqlFails, PhpError, RawQuery, EndProcess, trx, rollbackTransaction
  <2>6. CASE SoftDelete \/ Catch
    BY <2>6 DEF SoftDelete, Catch, Enter, startTransaction, rollbackTransaction
  <2>7. QED
    BY <2>1, <2>2, <2>3, <2>4, <2>5, <2>6 DEF Next
<1>2. QED
  BY <1>1, SpecInv, PTL DEF Spec, DurableOnlyAtTheEnd

-----------------------------------------------------------------------------
(* What is written stays written until a level is rolled back. *)

Written(f) == f.at \in {"aspect", "after", "index", "commit"}

\* A soft delete whose update has not written the row yet.
SoftPending == depth > 1 /\ frame[2].obj = frame[1].obj /\ ~Written(frame[2])

\* No save below the outermost one touches its object, but the update of a soft delete.
Apart ==
    frame[1].op # "unit" =>
        \A i \in 2 .. depth : frame[i].obj = frame[1].obj =>
            /\ i = 2 /\ frame[1].op = "delete"
            /\ frame[2].op = "update" /\ frame[2].via = "inner"
            /\ frame[2].n > frame[1].n

Numbered == depth > 0 => frame[1].n <= saves

\* What the outermost save has written stays, until a level is rolled back.
Kept ==
    /\ depth > 0 /\ ~rolled
    /\ frame[1].op # "unit" /\ Written(frame[1]) /\ ~SoftPending
    => work[frame[1].obj] \in Outcome(frame[1].op, frame[1].n)

\* Only a unit has a body.
Bodies == \A i \in 1 .. depth : frame[i].at = "body" => frame[i].op = "unit"

\* The strengthening of ReportedSaveIsKept, inductive relative to IInv.
RInv == Apart /\ Numbered /\ Kept /\ ReportedSaveIsKept

-----------------------------------------------------------------------------
(* Steps of a kind.                                                        *)

LEMMA Facts ==
  ASSUME IInv
  PROVE  /\ depth \in Nat /\ saves \in Nat /\ MaxDepth \in Nat /\ 1 \in 1 .. MaxDepth
         /\ frame \in [1 .. MaxDepth -> Frame] /\ depth <= MaxDepth
         /\ \A i \in 1 .. MaxDepth : /\ frame[i] \in Frame /\ frame[i].obj \in Obj
                                     /\ frame[i].n \in Nat /\ frame[i].n <= MaxSaves
         /\ work \in [Obj -> Stamp] /\ durable \in [Obj -> Stamp] /\ MaxSaves \in Nat
BY BoundAssumption DEF IInv, TypeOK, Stamp, Frame

\* A save is entered from a listener, an aspect or a unit.
LEMMA NestedStep ==
  ASSUME IInv, RInv, NEW op \in Op, NEW o \in Obj, NEW via \in {"hook", "inner"},
         NEW validated \in BOOLEAN, NEW valid \in BOOLEAN,
         depth > 0, Related(o), Enter(op, o, via, validated, valid, frame), rolled' = rolled
  PROVE  RInv'
<1> USE Facts DEF RInv
<1>1. /\ depth' = depth + 1 /\ depth < MaxDepth /\ saves' = saves + 1
      /\ work' = work /\ durable' = durable
      /\ \A i \in 1 .. depth : frame'[i] = frame[i]
      /\ frame'[depth + 1].obj = o
  BY DEF Enter, startTransaction
<1>2. frame[1].op # "unit" => o # frame[1].obj
  BY <1>1 DEF Related, Top
<1>3. Apart'
  <2> SUFFICES ASSUME frame'[1].op # "unit", NEW i \in 2 .. depth + 1,
                      frame'[i].obj = frame'[1].obj
               PROVE  /\ i = 2 /\ frame'[1].op = "delete"
                      /\ frame'[2].op = "update" /\ frame'[2].via = "inner"
                      /\ frame'[2].n > frame'[1].n
    BY <1>1 DEF Apart
  <2>1. i # depth + 1
    BY <1>1, <1>2
  <2>2. QED
    BY <1>1, <2>1 DEF Apart
<1>4. Numbered'
  BY <1>1 DEF Numbered
<1>5. Kept'
  <2>1. frame[1].op # "unit" => (SoftPending' <=> SoftPending)
    BY <1>1, <1>2 DEF SoftPending, Written
  <2>2. QED
    BY <1>1, <2>1 DEF Kept, Written
<1>6. ReportedSaveIsKept'
  BY <1>1 DEF ReportedSaveIsKept
<1>7. QED
  BY <1>3, <1>4, <1>5, <1>6

\* The innermost save goes to another phase.
LEMMA PhaseStep ==
  ASSUME IInv, RInv, depth > 0, NEW at \in Phase, GoTo(at),
         at \in {"aspect", "after", "index", "commit"} => Written(Top) \/ Top.op = "unit",
         UNCHANGED <<work, depth, rolled, saves>>
  PROVE  RInv'
<1> USE Facts DEF RInv
<1>1. /\ frame'[depth] = [frame[depth] EXCEPT !.at = at]
      /\ \A i \in 1 .. MaxDepth : i # depth => frame'[i] = frame[i]
  BY DEF GoTo
<1>2. \A i \in 1 .. MaxDepth : /\ frame'[i].op = frame[i].op /\ frame'[i].obj = frame[i].obj
                               /\ frame'[i].via = frame[i].via /\ frame'[i].n = frame[i].n
  BY <1>1 DEF Frame
<1>3. Apart' /\ Numbered'
  BY <1>2 DEF Apart, Numbered
<1>4. frame[1].op # "unit" /\ SoftPending => SoftPending'
  BY <1>1, <1>2 DEF SoftPending, Written, Top, Frame, Apart
<1>5. frame[1].op # "unit" /\ Written(frame'[1]) => Written(frame[1])
  BY <1>1 DEF Written, Top, Frame
<1>6. Kept'
  BY <1>2, <1>4, <1>5 DEF Kept, Written
<1>7. ReportedSaveIsKept'
  BY DEF ReportedSaveIsKept
<1>8. QED
  BY <1>3, <1>6, <1>7

\* The innermost save is rolled back and returns.
LEMMA RolledStep ==
  ASSUME IInv, RInv, depth > 0, rollbackTransaction, NEW res, Return(res), saves' = saves
  PROVE  RInv'
<1> USE Facts DEF RInv
<1>1. rolled'
  BY DEF rollbackTransaction, IInv, Covered, TypeOK
<1>2. depth' = depth - 1
  BY DEF Return
<1>3. \A i \in 1 .. depth - 1 :
        /\ frame'[i].op = frame[i].op /\ frame'[i].obj = frame[i].obj
        /\ frame'[i].via = frame[i].via /\ frame'[i].n = frame[i].n
  BY DEF Return, Frame
<1>4. Apart' /\ Numbered'
  BY <1>2, <1>3 DEF Apart, Numbered
<1>5. Kept' /\ ReportedSaveIsKept'
  BY <1>1 DEF Kept, ReportedSaveIsKept
<1>6. QED
  BY <1>4, <1>5

LEMMA WriteStep ==
  ASSUME IInv, RInv, Write
  PROVE  RInv'
<1> USE Facts DEF RInv
<1> DEFINE at == NextPhase(Top.op, Top.at)
<1>1. /\ depth > 0 /\ depth \in 1 .. MaxDepth /\ Top.at = "write" /\ GoTo(at)
      /\ UNCHANGED <<depth, saves, last, rolled>>
  BY DEF Write, Execute
<1>2. PICK stamp : /\ work' = [work EXCEPT ![Top.obj] = stamp]
                   /\ Top.op = "insert" => stamp = Top.n
                   /\ Top.op = "update" => stamp \in {NoRow, Top.n}
                   /\ Top.op = "delete" => stamp = NoRow
  <2>1. Top.op = "update" =>
          (CASE Top.op = "insert" -> Top.n
             [] Top.op = "update" -> IF work[Top.obj] = NoRow THEN NoRow ELSE Top.n
             [] OTHER -> NoRow) \in {NoRow, Top.n}
    OBVIOUS
  <2>2. QED
    BY <2>1 DEF Write, Execute
<1>3. /\ frame'[depth] = [frame[depth] EXCEPT !.at = at]
      /\ \A i \in 1 .. MaxDepth : i # depth => frame'[i] = frame[i]
  BY <1>1 DEF GoTo
<1>4. \A i \in 1 .. MaxDepth : /\ frame'[i].op = frame[i].op /\ frame'[i].obj = frame[i].obj
                               /\ frame'[i].via = frame[i].via /\ frame'[i].n = frame[i].n
  BY <1>3 DEF Frame
<1>5. Apart' /\ Numbered'
  BY <1>1, <1>4 DEF Apart, Numbered
<1>6. ReportedSaveIsKept'
  BY <1>1 DEF ReportedSaveIsKept
<1>7. Kept'
  <2> SUFFICES ASSUME ~rolled, frame[1].op # "unit", Written(frame'[1]), ~SoftPending'
               PROVE  work'[frame[1].obj] \in Outcome(frame[1].op, frame[1].n)
    BY <1>1, <1>4 DEF Kept, Written
  <2>1. CASE depth = 1
    <3>1. work'[frame[1].obj] = stamp /\ Top = frame[1]
      BY <1>2, <2>1 DEF Top
    <3>2. frame[1].op \in {"insert", "update", "delete"}
      BY DEF Frame, Op
    <3>3. QED
      BY <1>2, <3>1, <3>2 DEF Outcome
  <2>2. CASE depth > 1 /\ Top.obj = frame[1].obj
    <3>1. /\ depth = 2 /\ frame[1].op = "delete" /\ Top = frame[2]
          /\ Top.op = "update" /\ Top.n > frame[1].n
      BY <2>2 DEF Apart, Top
    <3>2. work'[frame[1].obj] = stamp /\ stamp \in {NoRow, Top.n}
      BY <1>2, <2>2, <3>1
    <3>3. Top.n \in frame[1].n + 1 .. MaxSaves
      BY <3>1
    <3>4. QED
      BY <3>1, <3>2, <3>3 DEF Outcome
  <2>3. CASE depth > 1 /\ Top.obj # frame[1].obj
    <3>1. work'[frame[1].obj] = work[frame[1].obj]
      BY <1>2, <2>3
    <3>2. frame'[1] = frame[1]
      BY <1>3, <2>3
    <3>3. ~SoftPending
      BY <1>1, <1>3, <1>4, <2>3 DEF SoftPending, Written, Top
    <3>4. QED
      BY <1>1, <3>1, <3>2, <3>3 DEF Kept
  <2>4. QED
    BY <1>1, <2>1, <2>2, <2>3
<1>8. QED
  BY <1>5, <1>6, <1>7

LEMMA SoftDeleteStep ==
  ASSUME IInv, RInv, SoftDelete
  PROVE  RInv'
<1> USE Facts DEF RInv
<1> DEFINE new == [op |-> "update", obj |-> Top.obj, at |-> FirstPhase("update", FALSE),
                   via |-> "inner", n |-> saves + 1, valid |-> TRUE]
<1>1. /\ depth > 0 /\ depth < MaxDepth /\ Top.at = "write" /\ Top.op = "delete"
      /\ depth' = depth + 1 /\ saves' = saves + 1
      /\ UNCHANGED <<work, durable, rolled, last>>
  BY DEF SoftDelete, Enter, startTransaction
<1>2. /\ frame'[depth] = [frame[depth] EXCEPT !.at = "after"]
      /\ frame'[depth + 1] = new
      /\ \A i \in 1 .. depth - 1 : frame'[i] = frame[i]
  <2> DEFINE stack == [frame EXCEPT ![depth].at = "after"]
  <2>1. /\ stack[depth] = [frame[depth] EXCEPT !.at = "after"]
        /\ \A i \in 1 .. depth - 1 : stack[i] = frame[i]
    BY <1>1
  <2>2. DOMAIN stack = 1 .. MaxDepth /\ stack = [i \in 1 .. MaxDepth |-> stack[i]]
    OBVIOUS
  <2>3. frame' = [stack EXCEPT ![depth + 1] = new]
    BY DEF SoftDelete, Enter
  <2> HIDE DEF stack, new
  <2>4. frame'[depth + 1] = new /\ \A i \in 1 .. depth : frame'[i] = stack[i]
    BY <1>1, <2>2, <2>3
  <2>5. QED
    BY <1>1, <2>1, <2>4
<1>3. \A i \in 1 .. depth : /\ frame'[i].op = frame[i].op /\ frame'[i].obj = frame[i].obj
                            /\ frame'[i].via = frame[i].via /\ frame'[i].n = frame[i].n
  <2>1. frame[depth] \in Frame
    BY <1>1
  <2>2. /\ frame'[depth].op = frame[depth].op /\ frame'[depth].obj = frame[depth].obj
        /\ frame'[depth].via = frame[depth].via /\ frame'[depth].n = frame[depth].n
    BY <1>2, <2>1 DEF Frame
  <2>3. ASSUME NEW i \in 1 .. depth, i # depth PROVE frame'[i] = frame[i]
    BY <1>1, <1>2, <2>3
  <2>4. QED
    BY <2>2, <2>3
<1>4. new.at = "before" /\ new.op = "update" /\ new.obj = Top.obj
      /\ new.via = "inner" /\ new.n = saves + 1
  BY DEF FirstPhase
<1> HIDE DEF new
<1>5. depth > 1 /\ frame[1].op # "unit" => Top.obj # frame[1].obj
  BY <1>1 DEF Apart, Top
<1>6. frame[1].n <= saves
  BY <1>1 DEF Numbered
<1>7. Apart'
  <2> SUFFICES ASSUME frame'[1].op # "unit", NEW i \in 2 .. depth + 1,
                      frame'[i].obj = frame'[1].obj
               PROVE  /\ i = 2 /\ frame'[1].op = "delete"
                      /\ frame'[2].op = "update" /\ frame'[2].via = "inner"
                      /\ frame'[2].n > frame'[1].n
    BY <1>1 DEF Apart
  <2>1. CASE i <= depth
    BY <1>1, <1>3, <2>1 DEF Apart
  <2>2. CASE i = depth + 1
    <3>1. depth = 1
      BY <1>1, <1>2, <1>3, <1>4, <1>5, <2>2
    <3>2. QED
      BY <1>1, <1>2, <1>3, <1>4, <1>6, <2>2, <3>1 DEF Top
  <2>3. QED
    BY <2>1, <2>2
<1>8. Numbered'
  BY <1>1, <1>3, <1>6 DEF Numbered
<1>9. Kept'
  <2> SUFFICES ASSUME ~rolled, frame[1].op # "unit", Written(frame'[1]), ~SoftPending'
               PROVE  work[frame[1].obj] \in Outcome(frame[1].op, frame[1].n)
    BY <1>1, <1>3 DEF Kept, Written
  <2>1. depth # 1
    <3> SUFFICES ASSUME depth = 1 PROVE SoftPending'
      OBVIOUS
    <3>1. depth' = 2 /\ frame'[2] = new /\ frame'[1].obj = frame[1].obj
      BY <1>1, <1>2, <1>3
    <3>2. frame'[2].obj = frame[1].obj /\ frame'[2].at = "before"
      BY <1>4, <3>1 DEF Top
    <3>3. QED
      BY <3>1, <3>2 DEF SoftPending, Written
  <2>2. frame'[1] = frame[1]
    BY <1>1, <1>2, <2>1
  <2>3. ~SoftPending
    <3>1. CASE depth = 2
      BY <1>5, <3>1 DEF SoftPending, Top
    <3>2. CASE depth > 2
      BY <1>1, <1>2, <3>2 DEF SoftPending, Written
    <3>3. QED
      BY <1>1, <2>1, <3>1, <3>2
  <2>4. QED
    BY <1>1, <2>2, <2>3 DEF Kept
<1>10. ReportedSaveIsKept'
  BY <1>1 DEF ReportedSaveIsKept
<1>11. QED
  BY <1>7, <1>8, <1>9, <1>10

LEMMA CommitKeeps ==
  ASSUME IInv, RInv, Commit
  PROVE  RInv'
<1> USE Facts DEF RInv
<1> DEFINE res == IF Top.op = "unit" THEN "void" ELSE "true"
<1>1. /\ depth > 0 /\ Top.at = "commit" /\ commitTransaction /\ Return(res)
      /\ depth' = depth - 1 /\ UNCHANGED <<saves, work, rolled>>
  BY DEF Commit, Return, commitTransaction
<1>2. \A i \in 1 .. depth - 1 : frame'[i] = frame[i]
  BY <1>1 DEF Return
<1>3. Apart' /\ Numbered'
  BY <1>1, <1>2 DEF Apart, Numbered
<1>4. Kept'
  <2> SUFFICES ASSUME depth > 1 PROVE Kept'
    BY <1>1 DEF Kept
  <2>1. SoftPending <=> SoftPending'
    <3>1. CASE depth = 2
      BY <1>1, <3>1 DEF SoftPending, Written, Top
    <3>2. CASE depth > 2
      BY <1>1, <1>2, <3>2 DEF SoftPending, Written
    <3>3. QED
      BY <3>1, <3>2
  <2>2. QED
    BY <1>1, <1>2, <2>1 DEF Kept
<1>5. ReportedSaveIsKept'
  <2> SUFFICES ASSUME depth = 1, ~rolled, last'.res = "true"
               PROVE  \/ Stored(last)'
                      \/ Faults \cap Escapes # {} /\ Pending(last)'
    BY <1>1 DEF ReportedSaveIsKept
  <2>1. last'.op = frame[1].op /\ last'.obj = frame[1].obj /\ last'.n = frame[1].n
        /\ frame[1].op # "unit" /\ frame[1].at = "commit"
    BY <1>1 DEF Return, Top
  <2>2. AsSaved(work', last')
    <3>1. work[frame[1].obj] \in Outcome(frame[1].op, frame[1].n)
      BY <2>1 DEF Kept, SoftPending, Written
    <3>2. QED
      BY <1>1, <2>1, <3>1 DEF AsSaved, Outcome
  <2>3. token \in Nat /\ token > 0 /\ inTrx
    BY <1>1 DEF IInv, TypeOK, Covered, TokenOwnsTransaction
  <2>4. CASE token = 1
    <3>1. durable' = work'
      BY <1>1, <2>3, <2>4 DEF commitTransaction
    <3>2. QED
      BY <2>2, <3>1 DEF Stored, AsSaved, Outcome
  <2>5. CASE token > 1
    <3>1. token' > 0 /\ inTrx'
      BY <1>1, <2>3, <2>5 DEF commitTransaction
    <3>2. Faults \cap Escapes # {}
      BY <2>3, <2>5 DEF IInv, NoLeak
    <3>3. QED
      BY <2>2, <3>1, <3>2 DEF Pending, AsSaved, Outcome
  <2>6. QED
    BY <2>3, <2>4, <2>5
<1>6. QED
  BY <1>3, <1>4, <1>5

LEMMA ErrorStep ==
  ASSUME IInv, RInv, PhpError
  PROVE  RInv'
<1> USE Facts DEF RInv
<1>1. PICK d \in 0 .. depth - 1 : Unwind(d)
  BY DEF PhpError
<1>2. /\ depth' = d /\ \A i \in 1 .. d : frame'[i] = frame[i]
      /\ d > 0 => frame[d + 1].via = "hook" /\ last' = last
      /\ d = 0 => last'.res = "thrown"
      /\ UNCHANGED <<work, durable, rolled, saves, token>>
  BY <1>1 DEF Unwind, PhpError, trx
<1>3. Apart' /\ Numbered'
  BY <1>2 DEF Apart, Numbered
<1>4. Kept'
  <2> SUFFICES ASSUME d > 0, frame[1].op # "unit" PROVE Kept'
    BY <1>2 DEF Kept
  <2>1. SoftPending <=> SoftPending'
    <3>1. CASE d = 1
      BY <1>2, <3>1 DEF SoftPending, Apart
    <3>2. CASE d > 1
      BY <1>2, <3>2 DEF SoftPending, Written
    <3>3. QED
      BY <3>1, <3>2
  <2>2. QED
    BY <1>2, <2>1 DEF Kept, Written
<1>5. ReportedSaveIsKept'
  BY <1>2 DEF ReportedSaveIsKept
<1>6. QED
  BY <1>3, <1>4, <1>5

-----------------------------------------------------------------------------
(* The invariant.                                                          *)

LEMMA PushBody ==
  ASSUME IInv, Bodies, NEW op, NEW o, NEW via, NEW validated \in BOOLEAN, NEW valid,
         Enter(op, o, via, validated, valid, frame)
  PROVE  Bodies'
<1> USE Facts
<1>1. /\ depth' = depth + 1 /\ depth < MaxDepth
      /\ \A i \in 1 .. depth : frame'[i] = frame[i]
      /\ frame'[depth + 1].at = FirstPhase(op, validated) /\ frame'[depth + 1].op = op
  BY DEF Enter
<1>2. FirstPhase(op, validated) = "body" => op = "unit"
  BY DEF FirstPhase
<1>3. SUFFICES ASSUME NEW i \in 1 .. depth + 1, frame'[i].at = "body"
               PROVE  frame'[i].op = "unit"
  BY <1>1 DEF Bodies
<1>4. CASE i = depth + 1
  BY <1>1, <1>2, <1>3, <1>4
<1>5. CASE i \in 1 .. depth
  BY <1>1, <1>3, <1>5 DEF Bodies
<1>6. QED
  BY <1>4, <1>5

LEMMA PhaseBody ==
  ASSUME IInv, Bodies, depth > 0, NEW at, at # "body", GoTo(at), depth' = depth
  PROVE  Bodies'
<1>1. \A i \in 1 .. MaxDepth : frame'[i].op = frame[i].op
                               /\ (i = depth => frame'[i].at = at)
                               /\ (i # depth => frame'[i] = frame[i])
  BY Facts DEF GoTo, Frame
<1>2. QED
  BY <1>1, Facts DEF Bodies

LEMMA PopBody ==
  ASSUME IInv, Bodies, depth > 0, NEW res, Return(res)
  PROVE  Bodies'
<1>1. depth' = depth - 1
  BY DEF Return
<1>2. ASSUME NEW i \in 1 .. depth - 1, frame'[i].at = "body"
      PROVE  frame'[i] = frame[i]
  BY <1>2, Facts DEF Return, Frame
<1>3. QED
  BY <1>1, <1>2, Facts DEF Bodies

LEMMA NextBody == IInv /\ Bodies /\ [Next]_vars => Bodies'
<1> SUFFICES ASSUME IInv, Bodies, [Next]_vars PROVE Bodies'
  OBVIOUS
<1>1. ASSUME NEW op \in Ops, NEW o \in Obj, NEW valid \in Validity,
             Call(op, o, valid) \/ HookCall(op, o, valid) \/ BodyCall(op, o, valid)
      PROVE  Bodies'
  BY <1>1, PushBody DEF Call, HookCall, BodyCall
<1>2. ASSUME NEW op \in Ops, NEW o \in Obj, AspectCall(op, o) PROVE Bodies'
  BY <1>2, PushBody DEF AspectCall
<1>3. CASE Validate
  <2>1. CASE GoTo("before") /\ depth > 0 /\ depth' = depth
    BY <2>1, PhaseBody
  <2>2. CASE Return("errors") /\ depth > 0
    BY <2>2, PopBody
  <2>3. QED
    BY <1>3, <2>1, <2>2 DEF Validate
<1>4. CASE Proceed \/ Write
  <2>1. depth > 0 /\ GoTo(NextPhase(Top.op, Top.at)) /\ depth' = depth
    BY <1>4 DEF Proceed, Write
  <2>2. NextPhase(Top.op, Top.at) # "body"
    BY DEF NextPhase
  <2>3. QED
    BY <2>1, <2>2, PhaseBody
<1>5. CASE SoftDelete
  <2> DEFINE new == [op |-> "update", obj |-> Top.obj, at |-> FirstPhase("update", FALSE),
                     via |-> "inner", n |-> saves + 1, valid |-> TRUE]
             stack == [frame EXCEPT ![depth].at = "after"]
  <2>1. depth > 0 /\ depth < MaxDepth /\ depth' = depth + 1
        /\ frame' = [stack EXCEPT ![depth + 1] = new]
    BY <1>5 DEF SoftDelete, Enter
  <2>a. stack[depth].at = "after" /\ \A i \in 1 .. depth - 1 : stack[i] = frame[i]
    BY <2>1, Facts DEF Frame
  <2>b. DOMAIN stack = 1 .. MaxDepth /\ stack = [i \in 1 .. MaxDepth |-> stack[i]]
    BY Facts
  <2>2. /\ stack = [i \in 1 .. MaxDepth |-> stack[i]] /\ stack[depth].at = "after"
        /\ \A i \in 1 .. depth - 1 : stack[i] = frame[i]
    BY <2>a, <2>b
  <2>3. new.at = "before"
    BY DEF FirstPhase
  <2> HIDE DEF new, stack
  <2>4. /\ frame'[depth + 1] = new /\ frame'[depth].at = "after"
        /\ \A i \in 1 .. depth - 1 : frame'[i] = frame[i]
    <3>1. /\ depth \in Nat /\ depth > 0 /\ depth < MaxDepth /\ MaxDepth \in Nat
          /\ frame' = [stack EXCEPT ![depth + 1] = new]
          /\ DOMAIN stack = 1 .. MaxDepth
      BY <2>1, <2>2, <2>b, Facts
    <3>2. frame'[depth + 1] = new /\ \A i \in 1 .. depth : frame'[i] = stack[i]
      BY <3>1
    <3>3. depth \in 1 .. depth /\ \A i \in 1 .. depth - 1 : i \in 1 .. depth
      BY <3>1
    <3>4. QED
      BY <2>a, <3>2, <3>3
  <2>5. SUFFICES ASSUME NEW i \in 1 .. depth + 1, frame'[i].at = "body"
                 PROVE  frame'[i].op = "unit"
    BY <2>1 DEF Bodies
  <2>6. i \in 1 .. depth - 1
    BY <2>3, <2>4, <2>5, Facts
  <2>7. QED
    BY <2>4, <2>5, <2>6, Facts DEF Bodies
<1>6. CASE SqlFails
  BY <1>6, PhaseBody DEF SqlFails
<1>7. CASE Catch \/ Commit
  BY <1>7, PopBody DEF Catch, Commit
<1>8. CASE PhpError
  <2>1. PICK d \in 0 .. depth - 1 : Unwind(d)
    BY <1>8 DEF PhpError
  <2>2. depth' = d /\ \A i \in 1 .. d : frame'[i] = frame[i]
    BY <2>1, Facts DEF Unwind
  <2>3. QED
    BY <2>2, Facts DEF Bodies
<1>9. CASE EndProcess
  BY <1>9 DEF EndProcess, Bodies
<1>10. CASE RawQuery \/ UNCHANGED vars
  BY <1>10 DEF RawQuery, vars, Bodies
<1>11. QED
  BY <1>1, <1>2, <1>3, <1>4, <1>5, <1>6, <1>7, <1>8, <1>9, <1>10 DEF Next

LEMMA InitRInv == Init => Bodies /\ RInv
BY BoundAssumption DEF Init, Bodies, RInv, Apart, Numbered, Kept, ReportedSaveIsKept, NoCall

LEMMA NextRInv == IInv /\ Bodies /\ RInv /\ [Next]_vars => RInv'
<1> SUFFICES ASSUME IInv, Bodies, RInv, [Next]_vars PROVE RInv'
  OBVIOUS
<1>a. Validity \subseteq BOOLEAN
  BY DEF Validity
<1>1. ASSUME NEW op \in Ops, NEW o \in Obj, NEW valid \in Validity, Call(op, o, valid)
      PROVE  RInv'
  <2>1. /\ depth' = 1 /\ saves' = saves + 1
        /\ frame'[1].at = FirstPhase(op, TRUE) /\ frame'[1].n = saves + 1
    BY <1>1, Facts DEF Call, Enter
  <2>2. ~Written(frame'[1])
    BY <2>1 DEF FirstPhase, Written
  <2>a. Apart'
    <3>1. 2 .. depth' = {}
      BY <2>1
    <3>2. QED
      BY <3>1 DEF Apart
  <2>b. Numbered'
    BY <2>1, Facts DEF Numbered
  <2>3. Apart' /\ Numbered'
    BY <2>a, <2>b
  <2>4. Kept' /\ ReportedSaveIsKept'
    BY <2>1, <2>2 DEF Kept, ReportedSaveIsKept
  <2>5. QED
    BY <2>3, <2>4 DEF RInv
<1>2. ASSUME NEW op \in Ops, NEW o \in Obj, NEW valid \in Validity, HookCall(op, o, valid)
      PROVE  RInv'
  BY <1>2, <1>a, OpsAssumption, NestedStep DEF HookCall
<1>3. ASSUME NEW op \in Ops, NEW o \in Obj, NEW valid \in Validity, BodyCall(op, o, valid)
      PROVE  RInv'
  BY <1>3, <1>a, OpsAssumption, NestedStep DEF BodyCall
<1>4. ASSUME NEW op \in Ops, NEW o \in Obj, AspectCall(op, o)
      PROVE  RInv'
  BY <1>4, OpsAssumption, NestedStep DEF AspectCall
<1>5. CASE Validate
  <2>1. CASE GoTo("before") /\ UNCHANGED <<trx, depth, last, hasId, saves>> /\ depth > 0
    BY <2>1, PhaseStep DEF trx, Phase
  <2>2. CASE rollbackTransaction /\ Return("errors") /\ UNCHANGED saves /\ depth > 0
    BY <2>2, RolledStep
  <2>3. QED
    BY <1>5, <2>1, <2>2 DEF Validate
<1>6. CASE Proceed
  <2> DEFINE at == NextPhase(Top.op, Top.at)
  <2>1. at \in Phase
    BY NextPhaseType
  <2>2. at \in {"aspect", "after", "index", "commit"} => Written(Top) \/ Top.op = "unit"
    <3>1. Top.at = "body" => Top.op = "unit"
      BY <1>6, Facts DEF Proceed, Bodies, Top
    <3>2. QED
      BY <1>6, <3>1 DEF Proceed, NextPhase, Written
  <2>3. depth > 0 /\ GoTo(at) /\ UNCHANGED <<work, depth, rolled, saves>>
    BY <1>6 DEF Proceed, trx
  <2> HIDE DEF at
  <2>4. QED
    BY <2>1, <2>2, <2>3, PhaseStep
<1>7. CASE Write
  BY <1>7, WriteStep
<1>8. CASE SoftDelete
  BY <1>8, SoftDeleteStep
<1>9. CASE SqlFails
  <2>1. depth > 0 /\ GoTo("catch") /\ UNCHANGED <<work, depth, rolled, saves>>
    BY <1>9 DEF SqlFails
  <2>2. QED
    BY <2>1, PhaseStep DEF Phase
<1>10. CASE Catch
  BY <1>10, RolledStep DEF Catch
<1>11. CASE Commit
  BY <1>11, CommitKeeps
<1>12. CASE PhpError
  BY <1>12, ErrorStep
<1>13. CASE EndProcess
  BY <1>13 DEF EndProcess, RInv, Apart, Numbered, Kept, ReportedSaveIsKept, NoCall
<1>14. CASE RawQuery \/ UNCHANGED vars
  <2>1. UNCHANGED <<token, inTrx, durable, work, rolled, depth, frame, saves, last>>
    BY <1>14 DEF RawQuery, vars
  <2>2. QED
    BY <2>1 DEF RInv, Apart, Numbered, Kept, ReportedSaveIsKept, SoftPending, Written,
                Stored, Pending, AsSaved, Outcome
<1>15. QED
  BY <1>1, <1>2, <1>3, <1>4, <1>5, <1>6, <1>7, <1>8, <1>9, <1>10, <1>11, <1>12, <1>13, <1>14
  DEF Next

\* A save that returns true, and that no rollback below it undid, is in the database for
\* good, or pending in the transaction that an \Error's leaked level keeps open
\* (DbObject::insert, update, delete).
THEOREM ReportedIsKept == Spec => []ReportedSaveIsKept
<1>1. RInv => ReportedSaveIsKept
  BY DEF RInv
<1>2. QED
  BY InitRInv, NextBody, NextRInv, SpecInv, <1>1, PTL DEF Spec

-----------------------------------------------------------------------------
(* As long as nothing fails but statements outside listeners, the nested   *)
(* saves implement AtomicSave.  No unit is among the operations: its       *)
(* outcome is that of the saves in its body.                               *)

SqlOnly == "unit" \notin Ops /\ Faults \subseteq {"sql"}

\* A failure goes up all of the stack before anything else happens.
StackInv ==
    /\ \A i \in 1 .. depth : frame[i].valid /\ frame[i].op # "unit"
    /\ \A i \in 2 .. depth : frame[i].via \in {"hook", "inner"}
    /\ \A i \in 1 .. depth - 1 : frame[i].at # "catch"
    /\ depth > 0 /\ Top.at = "catch" =>
           \A i \in 1 .. depth : frame[i].via # "hook"
    /\ depth > 0 /\ rolled => Top.at = "catch"
    /\ depth > 1 /\ frame[2].obj = frame[1].obj => frame[1].at = "after"

\* Numbers are fresh, and the outermost save's row is as it was until its SQL.
DataInv ==
    /\ \A o \in Obj : durable[o] <= saves /\ work[o] <= saves
    /\ \A i \in 1 .. depth : frame[i].n \in 1 .. saves
    /\ depth > 0 => \A o \in Obj : durable[o] < frame[1].n
    /\ depth > 0 /\ ~rolled /\ ~Written(frame[1]) =>
           work[frame[1].obj] = durable[frame[1].obj]
    /\ depth > 0 /\ ~rolled /\ frame[1].op = "update" =>
           (work[frame[1].obj] = NoRow <=> durable[frame[1].obj] = NoRow)

AtomicCall == IF depth = 0 THEN {} ELSE {<<frame[1].op, frame[1].obj>>}

AtomicStep == [Atomic!Next]_<<durable, AtomicCall, last.res>>

LEMMA Stutter ==
  ASSUME depth > 0, depth' > 0, durable' = durable, last' = last,
         frame'[1].op = frame[1].op, frame'[1].obj = frame[1].obj,
         depth \in Nat, depth' \in Nat
  PROVE  AtomicStep
BY DEF AtomicStep, AtomicCall

-----------------------------------------------------------------------------
(* Steps of a kind.                                                        *)

\* A listener or an aspect enters a save of another object.
LEMMA NestedRefines ==
  ASSUME IInv, StackInv, DataInv, NEW op \in Op \ {"unit"}, NEW o \in Obj,
         NEW via \in {"hook", "inner"}, NEW validated \in BOOLEAN,
         depth > 0, Top.at # "catch", Related(o),
         Enter(op, o, via, validated, TRUE, frame),
         rolled' = rolled, last' = last
  PROVE  StackInv' /\ DataInv' /\ AtomicStep
<1> USE Facts
<1>1. /\ depth' = depth + 1 /\ depth < MaxDepth /\ saves' = saves + 1
      /\ work' = work /\ durable' = durable
      /\ \A i \in 1 .. depth : frame'[i] = frame[i]
      /\ frame'[depth + 1] = [op |-> op, obj |-> o,
                              at |-> FirstPhase(op, validated), via |-> via,
                              n |-> saves + 1, valid |-> TRUE]
  BY DEF Enter, startTransaction
<1>2. /\ frame'[depth + 1].op = op /\ frame'[depth + 1].obj = o
      /\ frame'[depth + 1].at # "catch" /\ frame'[depth + 1].via = via
      /\ frame'[depth + 1].valid = TRUE /\ frame'[depth + 1].n = saves + 1
  BY <1>1 DEF FirstPhase
<1>3. ~rolled
  BY DEF StackInv
<1>4. o # frame[1].obj
  BY DEF Related, StackInv, Top
<1>5. \A i \in 1 .. depth + 1 : frame'[i].valid /\ frame'[i].op # "unit"
  <2>1. ASSUME NEW i \in 1 .. depth + 1 PROVE i \in 1 .. depth \/ i = depth + 1
    OBVIOUS
  <2>2. QED
    BY <1>1, <1>2, <2>1 DEF StackInv
<1>6. \A i \in 2 .. depth + 1 : frame'[i].via \in {"hook", "inner"}
  <2>1. ASSUME NEW i \in 2 .. depth + 1
        PROVE  i \in 2 .. depth \/ i = depth + 1
    OBVIOUS
  <2>2. QED
    BY <1>1, <1>2, <2>1 DEF StackInv
<1>7. \A i \in 1 .. depth : frame'[i].at # "catch"
  <2>1. ASSUME NEW i \in 1 .. depth PROVE i \in 1 .. depth - 1 \/ i = depth
    OBVIOUS
  <2>2. QED
    BY <1>1, <2>1 DEF StackInv, Top
<1>8. depth + 1 > 1 /\ frame'[2].obj = frame'[1].obj => frame'[1].at = "after"
  <2>1. CASE depth = 1
    BY <1>1, <1>2, <1>4, <2>1
  <2>2. CASE depth > 1
    BY <1>1, <2>2 DEF StackInv
  <2>3. QED
    BY <2>1, <2>2
<1>9. StackInv'
  BY <1>1, <1>2, <1>3, <1>5, <1>6, <1>7, <1>8 DEF StackInv, Top
<1>10. DataInv'
  <2>1. ASSUME NEW i \in 1 .. depth + 1 PROVE frame'[i].n \in 1 .. saves + 1
    <3>1. i \in 1 .. depth \/ i = depth + 1
      OBVIOUS
    <3>2. QED
      BY <1>1, <1>2, <3>1 DEF DataInv
  <2>2. QED
    BY <1>1, <2>1 DEF DataInv, Written, Stamp
<1>11. AtomicStep
  BY <1>1, Stutter
<1>12. QED
  BY <1>9, <1>10, <1>11

\* The innermost save goes to another phase.
LEMMA PhaseRefines ==
  ASSUME IInv, StackInv, DataInv, depth > 0, NEW at \in Phase, GoTo(at),
         at = "catch" => \A i \in 1 .. depth : frame[i].via # "hook",
         Top.at # "catch", at \in {"aspect", "after", "index", "commit"} => Written(Top),
         Written(Top) => at \in {"aspect", "after", "index", "commit"},
         UNCHANGED <<work, durable, depth, rolled, saves, last>>
  PROVE  StackInv' /\ DataInv' /\ AtomicStep
<1> USE Facts
<1>1. /\ frame'[depth] = [frame[depth] EXCEPT !.at = at]
      /\ \A i \in 1 .. MaxDepth : i # depth => frame'[i] = frame[i]
  BY DEF GoTo
<1>2. /\ frame'[depth].at = at
      /\ \A i \in 1 .. MaxDepth :
            /\ frame'[i].op = frame[i].op /\ frame'[i].obj = frame[i].obj
            /\ frame'[i].via = frame[i].via /\ frame'[i].n = frame[i].n
            /\ frame'[i].valid = frame[i].valid
  BY <1>1 DEF Frame
<1>3. ~rolled
  BY DEF StackInv
<1>4. \A i \in 1 .. depth - 1 : frame'[i].at # "catch"
  BY <1>1 DEF StackInv
<1>5. depth > 1 /\ frame'[2].obj = frame'[1].obj => frame'[1].at = "after"
  BY <1>1, <1>2 DEF StackInv
<1>6. StackInv'
  BY <1>2, <1>3, <1>4, <1>5 DEF StackInv, Top
<1>7. Written(frame'[1]) <=> Written(frame[1])
  BY <1>1, <1>2 DEF Written, Top
<1>8. DataInv'
  <2>1. \A i \in 1 .. depth : frame'[i].n \in 1 .. saves
    BY <1>2 DEF DataInv
  <2>2. QED
    BY <1>2, <1>7, <2>1 DEF DataInv
<1>9. AtomicStep
  BY <1>2, Stutter
<1>10. QED
  BY <1>6, <1>8, <1>9

LEMMA WriteRefines ==
  ASSUME SqlOnly, IInv, RInv, StackInv, DataInv, Write
  PROVE  StackInv' /\ DataInv' /\ AtomicStep
<1> USE Facts
<1> DEFINE at == NextPhase(Top.op, Top.at)
<1>1. /\ depth > 0 /\ depth \in 1 .. MaxDepth /\ Top.at = "write" /\ GoTo(at)
      /\ UNCHANGED <<depth, saves, last, rolled>>
  BY DEF Write, Execute
<1>2. at \in {"aspect", "after"}
  BY <1>1 DEF NextPhase
<1> HIDE DEF at
<1>3. /\ frame'[depth] = [frame[depth] EXCEPT !.at = at]
      /\ \A i \in 1 .. MaxDepth : i # depth => frame'[i] = frame[i]
  BY <1>1 DEF GoTo
<1>4. /\ frame'[depth].at = at
      /\ \A i \in 1 .. MaxDepth :
            /\ frame'[i].op = frame[i].op /\ frame'[i].obj = frame[i].obj
            /\ frame'[i].via = frame[i].via /\ frame'[i].n = frame[i].n
            /\ frame'[i].valid = frame[i].valid
  BY <1>1, <1>3 DEF Frame
<1>5. ~rolled
  BY <1>1 DEF StackInv
<1>6. inTrx
  BY <1>1, <1>5 DEF IInv, Covered, TokenOwnsTransaction, TypeOK
<1>7. PICK stamp : /\ work' = [work EXCEPT ![Top.obj] = stamp]
                   /\ stamp \in {NoRow, Top.n}
                   /\ Top.op = "update" =>
                         (stamp = NoRow <=> work[Top.obj] = NoRow)
  <2>1. PICK stamp :
            /\ work' = [work EXCEPT ![Top.obj] = stamp]
            /\ stamp = CASE Top.op = "insert" -> Top.n
                         [] Top.op = "update" -> IF work[Top.obj] = NoRow
                                                 THEN NoRow ELSE Top.n
                         [] OTHER -> NoRow
    BY DEF Write, Execute
  <2>2. Top.n # NoRow
    BY <1>1 DEF DataInv, Top, NoRow
  <2>3. CASE Top.op = "update"
    BY <2>1, <2>2, <2>3
  <2>4. CASE Top.op # "update"
    BY <2>1, <2>4
  <2>5. QED
    BY <2>3, <2>4
<1>8. /\ durable' = durable
      /\ \A o \in Obj : o # Top.obj => work'[o] = work[o]
      /\ work'[Top.obj] = stamp
      /\ Top.n \in 1 .. saves /\ stamp <= saves
  BY <1>1, <1>6, <1>7 DEF Write, Execute, DataInv, Top, NoRow
<1>9. StackInv'
  <2>1. \A i \in 1 .. depth - 1 : frame'[i].at # "catch"
    BY <1>3 DEF StackInv
  <2>2. depth > 1 /\ frame'[2].obj = frame'[1].obj => frame'[1].at = "after"
    BY <1>1, <1>3, <1>4 DEF StackInv
  <2>3. QED
    BY <1>1, <1>2, <1>4, <1>5, <2>1, <2>2 DEF StackInv, Top
<1>10. depth > 1 /\ Top.obj = frame[1].obj =>
           Written(frame[1]) /\ frame[1].op = "delete"
  BY <1>1 DEF RInv, Apart, StackInv, Written, Top
<1>11. depth > 1 => Written(frame'[1]) = Written(frame[1])
  BY <1>3 DEF Written
<1>12. ~Written(frame'[1]) => work'[frame[1].obj] = durable[frame[1].obj]
  <2>1. CASE depth = 1
    BY <1>2, <1>4, <2>1 DEF Written
  <2>2. CASE depth > 1
    BY <1>5, <1>8, <1>10, <1>11, <2>2 DEF DataInv
  <2>3. QED
    BY <1>1, <2>1, <2>2
<1>13. frame[1].op = "update" =>
           (work'[frame[1].obj] = NoRow <=> durable[frame[1].obj] = NoRow)
  <2>1. CASE depth = 1
    BY <1>5, <1>7, <1>8, <2>1 DEF DataInv, Top, NoRow
  <2>2. CASE depth > 1
    BY <1>5, <1>8, <1>10, <2>2 DEF DataInv
  <2>3. QED
    BY <1>1, <2>1, <2>2
<1>14. DataInv'
  BY <1>1, <1>4, <1>8, <1>12, <1>13 DEF DataInv
<1>15. AtomicStep
  BY <1>1, <1>4, <1>8, Stutter
<1>16. QED
  BY <1>9, <1>14, <1>15

LEMMA SoftDeleteRefines ==
  ASSUME IInv, RInv, StackInv, DataInv, SoftDelete
  PROVE  StackInv' /\ DataInv' /\ AtomicStep
<1> USE Facts
<1> DEFINE new == [op |-> "update", obj |-> Top.obj, at |-> FirstPhase("update", FALSE),
                   via |-> "inner", n |-> saves + 1, valid |-> TRUE]
<1>1. /\ depth > 0 /\ depth < MaxDepth /\ Top.at = "write" /\ Top.op = "delete"
      /\ depth' = depth + 1 /\ saves' = saves + 1
      /\ UNCHANGED <<work, durable, rolled, last>>
  BY DEF SoftDelete, Enter, startTransaction
<1>2. /\ frame'[depth] = [frame[depth] EXCEPT !.at = "after"]
      /\ frame'[depth + 1] = new
      /\ \A i \in 1 .. depth - 1 : frame'[i] = frame[i]
  <2> DEFINE stack == [frame EXCEPT ![depth].at = "after"]
  <2>1. /\ stack[depth] = [frame[depth] EXCEPT !.at = "after"]
        /\ \A i \in 1 .. depth - 1 : stack[i] = frame[i]
    BY <1>1
  <2>2. DOMAIN stack = 1 .. MaxDepth /\ stack = [i \in 1 .. MaxDepth |-> stack[i]]
    OBVIOUS
  <2>3. frame' = [stack EXCEPT ![depth + 1] = new]
    BY DEF SoftDelete, Enter
  <2> HIDE DEF stack, new
  <2>4. frame'[depth + 1] = new /\ \A i \in 1 .. depth : frame'[i] = stack[i]
    BY <1>1, <2>2, <2>3
  <2>5. QED
    BY <1>1, <2>1, <2>4
<1>3. /\ frame'[depth].at = "after"
      /\ \A i \in 1 .. depth :
            /\ frame'[i].op = frame[i].op /\ frame'[i].obj = frame[i].obj
            /\ frame'[i].via = frame[i].via /\ frame'[i].n = frame[i].n
            /\ frame'[i].valid = frame[i].valid
  <2>1. frame[depth] \in Frame
    BY <1>1
  <2>2. /\ frame'[depth].op = frame[depth].op /\ frame'[depth].obj = frame[depth].obj
        /\ frame'[depth].via = frame[depth].via /\ frame'[depth].n = frame[depth].n
        /\ frame'[depth].valid = frame[depth].valid /\ frame'[depth].at = "after"
    BY <1>2, <2>1 DEF Frame
  <2>3. ASSUME NEW i \in 1 .. depth, i # depth PROVE frame'[i] = frame[i]
    BY <1>1, <1>2, <2>3
  <2>4. QED
    BY <2>2, <2>3
<1>4. /\ new.at = "before" /\ new.op = "update" /\ new.obj = Top.obj
      /\ new.via = "inner" /\ new.n = saves + 1 /\ new.valid = TRUE
  BY DEF FirstPhase
<1> HIDE DEF new
<1>5. ~rolled
  BY <1>1 DEF StackInv
<1>6. ASSUME NEW i \in 1 .. depth + 1
      PROVE  frame'[i].valid /\ frame'[i].op # "unit" /\ frame'[i].n \in 1 .. saves + 1
  <2>1. CASE i = depth + 1
    BY <1>2, <1>4, <2>1
  <2>2. CASE i \in 1 .. depth
    BY <1>3, <2>2 DEF StackInv, DataInv
  <2>3. QED
    BY <2>1, <2>2
<1>7. ASSUME NEW i \in 2 .. depth + 1 PROVE frame'[i].via \in {"hook", "inner"}
  <2>1. CASE i = depth + 1
    BY <1>2, <1>4, <2>1
  <2>2. CASE i \in 2 .. depth
    BY <1>3, <2>2 DEF StackInv
  <2>3. QED
    BY <2>1, <2>2
<1>8. ASSUME NEW i \in 1 .. depth PROVE frame'[i].at # "catch"
  <2>1. CASE i = depth
    BY <1>3, <2>1
  <2>2. CASE i \in 1 .. depth - 1
    BY <1>2, <2>2 DEF StackInv
  <2>3. QED
    BY <2>1, <2>2
<1>9. frame'[2].obj = frame'[1].obj => frame'[1].at = "after"
  <2>1. CASE depth = 1
    BY <1>3, <2>1
  <2>2. CASE depth > 1
    BY <1>2, <1>3, <2>2 DEF StackInv
  <2>3. QED
    BY <1>1, <2>1, <2>2
<1>10. StackInv'
  BY <1>1, <1>2, <1>4, <1>5, <1>6, <1>7, <1>8, <1>9 DEF StackInv, Top
<1>11. ~Written(frame'[1]) => ~Written(frame[1])
  <2>1. CASE depth = 1
    BY <1>3, <2>1 DEF Written
  <2>2. CASE depth > 1
    BY <1>2, <2>2
  <2>3. QED
    BY <1>1, <2>1, <2>2
<1>12. DataInv'
  <2>1. \A o \in Obj : durable[o] <= saves + 1 /\ work[o] <= saves + 1
    BY DEF DataInv, Stamp
  <2>2. \A o \in Obj : durable[o] < frame'[1].n
    BY <1>1, <1>3 DEF DataInv
  <2>3. ~Written(frame'[1]) => work[frame'[1].obj] = durable[frame'[1].obj]
    BY <1>1, <1>3, <1>5, <1>11 DEF DataInv
  <2>4. frame'[1].op = "update" =>
            (work[frame'[1].obj] = NoRow <=> durable[frame'[1].obj] = NoRow)
    BY <1>1, <1>3, <1>5 DEF DataInv
  <2>5. QED
    BY <1>1, <1>6, <2>1, <2>2, <2>3, <2>4 DEF DataInv
<1>13. AtomicStep
  BY <1>1, <1>3, Stutter
<1>14. QED
  BY <1>10, <1>12, <1>13

\* A save that fails hands the failure to its caller.
LEMMA CatchRefines ==
  ASSUME IInv, StackInv, DataInv, Catch
  PROVE  StackInv' /\ DataInv' /\ AtomicStep
<1> USE Facts
<1>1. /\ depth > 0 /\ depth' = depth - 1 /\ saves' = saves /\ Top.op # "unit"
      /\ durable' = durable /\ (work' = durable \/ work' = work) /\ Return("thrown")
      /\ rolled'
  BY DEF Catch, Return, rollbackTransaction, StackInv, Top, IInv, Covered, TypeOK
<1>2. /\ Top.at = "catch" /\ \A i \in 1 .. depth : frame[i].via # "hook"
  BY DEF Catch, StackInv
<1>3. \A i \in 1 .. depth - 1 :
         /\ frame'[i].op = frame[i].op /\ frame'[i].obj = frame[i].obj
         /\ frame'[i].via = frame[i].via /\ frame'[i].n = frame[i].n
         /\ frame'[i].valid = frame[i].valid
         /\ i # depth - 1 => frame'[i] = frame[i]
  BY <1>1 DEF Return, Frame
<1>4. depth > 1 => frame'[depth - 1].at = "catch"
  <2>1. depth > 1 => Top.via = "inner"
    BY <1>1, <1>2 DEF StackInv, Top
  <2>2. depth > 1 =>
            frame'[depth - 1] = [frame[depth - 1] EXCEPT !.at = "catch"]
    <3>1. SUFFICES ASSUME depth > 1
                   PROVE  frame'[depth - 1] = [frame[depth - 1] EXCEPT !.at = "catch"]
      OBVIOUS
    <3>2. depth - 1 \in 1 .. MaxDepth /\ depth - 1 # depth
      BY <3>1
    <3>3. frame' = [i \in 1 .. MaxDepth |->
                       IF i = depth THEN NoFrame
                       ELSE IF i = depth - 1
                            THEN [frame[i] EXCEPT !.at = "catch"] ELSE frame[i]]
      BY <1>1, <2>1, <3>1 DEF Return
    <3>4. QED
      BY <3>2, <3>3
  <2>3. depth > 1 => frame[depth - 1] \in Frame
    BY <1>1
  <2>4. QED
    BY <2>2, <2>3 DEF Frame
<1>5. ASSUME depth > 1, frame[2].obj = frame[1].obj, depth - 1 > 1
      PROVE  frame'[1].at = "after"
  <2>1. frame'[1] = frame[1]
    BY <1>1, <1>3, <1>5
  <2>2. QED
    BY <1>5, <2>1 DEF StackInv
<1>6. StackInv'
  <2>1. \A i \in 1 .. depth - 2 : frame'[i].at # "catch"
    BY <1>1, <1>3 DEF StackInv
  <2>2. \A i \in 1 .. depth - 1 : frame'[i].via # "hook"
    BY <1>1, <1>2, <1>3
  <2>3. \A i \in 1 .. depth - 1 : frame'[i].valid /\ frame'[i].op # "unit"
    BY <1>1, <1>3 DEF StackInv
  <2>4. \A i \in 2 .. depth - 1 : frame'[i].via \in {"hook", "inner"}
    BY <1>1, <1>3 DEF StackInv
  <2>5. depth - 1 > 1 /\ frame'[2].obj = frame'[1].obj => frame'[1].at = "after"
    <3>1. SUFFICES ASSUME depth - 1 > 1, frame'[2].obj = frame'[1].obj
                   PROVE  frame'[1].at = "after"
      OBVIOUS
    <3>2. frame'[1].obj = frame[1].obj /\ frame'[2].obj = frame[2].obj
      BY <1>1, <1>3, <3>1
    <3>3. QED
      BY <1>1, <1>5, <3>1, <3>2
  <2>6. depth - 1 > 0 => frame'[depth - 1].at = "catch"
    BY <1>1, <1>4
  <2>7. QED
    BY <1>1, <2>1, <2>2, <2>3, <2>4, <2>5, <2>6 DEF StackInv, Top
<1>7. DataInv'
  BY <1>1, <1>3 DEF DataInv
<1>8. AtomicStep
  <2>1. CASE depth > 1
    <3>1. last' = last
      BY <1>1, <2>1 DEF Return
    <3>2. QED
      BY <1>1, <1>3, <2>1, <3>1, Stutter
  <2>2. CASE depth = 1
    <3>1. last'.res = "thrown"
      BY <1>1, <2>2 DEF Return
    <3>2. Atomic!Fail
      BY <1>1, <2>2, <3>1 DEF Atomic!Fail
    <3>3. QED
      BY <3>2 DEF AtomicStep, Atomic!Next
  <2>3. QED
    BY <1>1, <2>1, <2>2
<1>9. QED
  BY <1>6, <1>7, <1>8

\* A save that is done: the outermost one makes the work of the nest durable.
LEMMA CommitRefines ==
  ASSUME SqlOnly, IInv, RInv, StackInv, DataInv, Commit
  PROVE  StackInv' /\ DataInv' /\ AtomicStep
<1> USE Facts
<1>1. /\ depth > 0 /\ depth' = depth - 1 /\ saves' = saves /\ Top.at = "commit"
      /\ work' = work /\ rolled' = rolled /\ Return("true")
  BY DEF Commit, Return, commitTransaction, StackInv, Top
<1>2. ~rolled
  BY <1>1 DEF StackInv
<1>3. \A i \in 1 .. depth - 1 : frame'[i] = frame[i]
  BY <1>1 DEF Return
<1>4. token = depth /\ inTrx
  <2>1. Faults \cap Escapes = {}
    BY DEF SqlOnly, Escapes
  <2>2. token = depth
    BY <1>2, <2>1 DEF IInv, TypeOK, Covered, NoLeak
  <2>3. QED
    BY <1>1, <2>2 DEF IInv, TokenOwnsTransaction
<1>5. StackInv'
  <2>1. \A i \in 1 .. depth - 1 : frame'[i].at # "catch"
    BY <1>1, <1>3 DEF StackInv
  <2>2. QED
    BY <1>1, <1>2, <1>3, <2>1 DEF StackInv, Top
<1>6. CASE depth > 1
  <2>1. durable' = durable /\ last' = last
    BY <1>1, <1>4, <1>6 DEF Commit, commitTransaction, Return
  <2>2. DataInv'
    <3>1. frame'[1] = frame[1]
      BY <1>1, <1>3, <1>6
    <3>2. \A i \in 1 .. depth - 1 : frame'[i].n \in 1 .. saves
      BY <1>3 DEF DataInv
    <3>3. QED
      BY <1>1, <1>2, <1>6, <2>1, <3>1, <3>2 DEF DataInv, Written
  <2>3. AtomicStep
    BY <1>1, <1>3, <1>6, <2>1, Stutter
  <2>4. QED
    BY <1>5, <2>2, <2>3
<1>7. CASE depth = 1
  <2> DEFINE op == frame[1].op
             o == frame[1].obj
  <2>1. durable' = work
    BY <1>4, <1>7 DEF Commit, commitTransaction
  <2>2. last'.res = "true"
    BY <1>1, <1>7 DEF Return
  <2>3. DataInv'
    BY <1>1, <1>7, <2>1 DEF DataInv
  <2>4. work[o] \in Outcome(op, frame[1].n)
    BY <1>1, <1>2, <1>7 DEF RInv, Kept, SoftPending, Written, StackInv, Top
  <2>5. op \in {"insert", "update", "delete"} /\ o \in Obj
    BY <1>1 DEF Frame, Op, StackInv
  <2>6. durable[o] < frame[1].n /\ frame[1].n > 0
    BY <1>1, <2>5 DEF DataInv
  <2>7. op = "update" => (work[o] = NoRow <=> durable[o] = NoRow)
    BY <1>1, <1>2 DEF DataInv
  <2>8. /\ op = "insert" => work[o] # NoRow
        /\ work[o] # durable[o] \/ work[o] = NoRow
    BY <2>4, <2>5, <2>6 DEF Outcome, NoRow
  <2>9. Atomic!Succeed(op, o)
    BY <1>1, <1>7, <2>1, <2>2, <2>7, <2>8
    DEF Atomic!Succeed, Atomic!Rows, Atomic!NoRow, NoRow, Stamp
  <2>10. AtomicStep
    BY <2>5, <2>9 DEF AtomicStep, Atomic!Next
  <2>11. QED
    BY <1>5, <2>3, <2>10
<1>8. QED
  BY <1>1, <1>6, <1>7

LEMMA CallRefines ==
  ASSUME SqlOnly, IInv, StackInv, DataInv, NEW op \in Op \ {"unit"}, NEW o \in Obj,
         Call(op, o, TRUE)
  PROVE  StackInv' /\ DataInv' /\ AtomicStep
<1> USE Facts
<1>1. /\ depth = 0 /\ depth' = 1 /\ saves' = saves + 1 /\ ~rolled' /\ last' = NoCall
      /\ work' = work /\ durable' = durable
      /\ frame'[1] = [op |-> op, obj |-> o, at |-> FirstPhase(op, TRUE),
                      via |-> "caller", n |-> saves + 1, valid |-> TRUE]
  BY DEF Call, Enter, startTransaction
<1>2. /\ frame'[1].op = op /\ frame'[1].obj = o /\ frame'[1].at # "catch"
      /\ frame'[1].valid = TRUE /\ frame'[1].n = saves + 1
  BY <1>1 DEF FirstPhase
<1>3. work = durable
  <2>1. Faults \cap Escapes = {}
    BY DEF SqlOnly, Escapes
  <2>2. QED
    BY <1>1, <2>1 DEF IInv, TypeOK, NoLeak, TokenOwnsTransaction, InSync
<1>4. StackInv'
  <2>1. \A i \in 1 .. 1 : i = 1
    OBVIOUS
  <2>2. 2 .. 1 = {} /\ 1 .. 0 = {}
    OBVIOUS
  <2>3. \A i \in 1 .. depth' : frame'[i].valid /\ frame'[i].op # "unit"
    BY <1>1, <1>2, <2>1
  <2>4. 2 .. depth' = {} /\ 1 .. depth' - 1 = {}
    BY <1>1, <2>2
  <2>5. Top'.at # "catch"
    BY <1>1, <1>2 DEF Top
  <2>6. ~rolled' /\ ~(depth' > 1)
    BY <1>1
  <2>7. QED
    BY <2>3, <2>4, <2>5, <2>6 DEF StackInv
<1>5. DataInv'
  <2>1. \A i \in 1 .. 1 : i = 1
    OBVIOUS
  <2>2. \A x \in Obj : durable[x] < saves + 1 /\ work[x] <= saves + 1
                      /\ durable[x] <= saves + 1
    BY DEF DataInv, Stamp
  <2>3. \A i \in 1 .. 1 : frame'[i].n \in 1 .. saves + 1
    BY <1>2, <2>1
  <2>4. /\ saves' = saves + 1 /\ depth' = 1 /\ work' = durable /\ durable' = durable
        /\ frame'[1].n = saves + 1
    BY <1>1, <1>2, <1>3
  <2>5. QED
    BY <1>3, <2>2, <2>3, <2>4 DEF DataInv
<1>6. Atomic!Begin(op, o)
  BY <1>1, <1>2 DEF Atomic!Begin, NoCall
<1>7. AtomicStep
  BY <1>6 DEF AtomicStep, Atomic!Next, Op
<1>8. QED
  BY <1>4, <1>5, <1>7

-----------------------------------------------------------------------------
(* The refinement.                                                         *)

LEMMA InitRefines == Init => StackInv /\ DataInv /\ Atomic!Init
BY BoundAssumption
DEF Init, StackInv, DataInv, NoCall, NoRow, Atomic!Init, Atomic!NoRow

LEMMA NextRefines ==
  ASSUME SqlOnly
  PROVE  IInv /\ Bodies /\ RInv /\ StackInv /\ DataInv /\ [Next]_vars
             => StackInv' /\ DataInv' /\ AtomicStep
<1> DEFINE Goal == StackInv' /\ DataInv' /\ AtomicStep
<1> SUFFICES ASSUME IInv, Bodies, RInv, StackInv, DataInv, [Next]_vars PROVE Goal
  OBVIOUS
<1> USE Facts
<1>a. Validity = {TRUE} /\ Ops \subseteq Op \ {"unit"}
  BY OpsAssumption DEF SqlOnly, Validity
<1>b. ~statement
  BY DEF SqlOnly, IInv, SlotClean
<1> HIDE DEF Goal
<1>1. ASSUME NEW op \in Ops, NEW o \in Obj, NEW valid \in Validity,
             Call(op, o, valid)
      PROVE  Goal
  BY <1>1, <1>a, CallRefines DEF Goal
<1>2. ASSUME NEW op \in Ops, NEW o \in Obj, NEW valid \in Validity,
             HookCall(op, o, valid)
      PROVE  Goal
  BY <1>2, <1>a, NestedRefines DEF Goal, HookCall
<1>3. ASSUME NEW op \in Ops, NEW o \in Obj, NEW valid \in Validity,
             BodyCall(op, o, valid)
      PROVE  Goal
  BY <1>3 DEF BodyCall, Bodies, StackInv, Top
<1>4. ASSUME NEW op \in Ops, NEW o \in Obj, AspectCall(op, o) PROVE Goal
  BY <1>4, <1>a, NestedRefines DEF Goal, AspectCall
<1>5. CASE Validate
  <2>1. Top.valid
    BY <1>5 DEF Validate, StackInv, Top
  <2>2. GoTo("before") /\ depth > 0 /\ Top.at = "validate"
        /\ UNCHANGED <<work, durable, depth, rolled, saves, last>>
    BY <1>5, <2>1 DEF Validate, trx
  <2>3. QED
    BY <2>2, PhaseRefines DEF Goal, Phase, Written
<1>6. CASE Proceed
  <2> DEFINE at == NextPhase(Top.op, Top.at)
  <2>1. at \in Phase
    BY NextPhaseType
  <2>2. GoTo(at) /\ depth > 0 /\ Top.at \in {"before", "aspect", "after", "index"}
        /\ UNCHANGED <<work, durable, depth, rolled, saves, last>>
    BY <1>6 DEF Proceed, trx, Bodies, StackInv, Top
  <2>3. /\ at # "catch" /\ Top.at # "catch"
        /\ at \in {"aspect", "after", "index", "commit"} <=> Written(Top)
    BY <2>2 DEF NextPhase, Written
  <2> HIDE DEF at
  <2>4. QED
    BY <2>1, <2>2, <2>3, PhaseRefines DEF Goal
<1>7. CASE Write
  BY <1>7, WriteRefines DEF Goal
<1>8. CASE SoftDelete
  BY <1>8, SoftDeleteRefines DEF Goal
<1>9. CASE SqlFails
  <2>1. GoTo("catch") /\ depth > 0 /\ Top.at = "write"
        /\ \A i \in 1 .. depth : frame[i].via # "hook"
        /\ UNCHANGED <<work, durable, depth, rolled, saves, last>>
    BY <1>9 DEF SqlFails, SqlOnly
  <2>2. QED
    BY <2>1, PhaseRefines DEF Goal, Phase, Written
<1>10. CASE Catch
  BY <1>10, CatchRefines DEF Goal
<1>11. CASE Commit
  BY <1>11, CommitRefines DEF Goal
<1>12. CASE PhpError \/ RawQuery
  BY <1>12, <1>b DEF PhpError, RawQuery, SqlOnly, ClearSqlRaises
<1>13. CASE EndProcess
  <2>1. /\ depth' = 0 /\ saves' = saves /\ work' = durable /\ durable' = durable
        /\ last'.res = "none" /\ ~rolled'
    BY <1>13 DEF EndProcess, NoCall
  <2>2. StackInv' /\ DataInv'
    BY <2>1 DEF StackInv, DataInv
  <2>3. Atomic!Die
    BY <2>1 DEF Atomic!Die
  <2>4. QED
    BY <2>2, <2>3 DEF Goal, AtomicStep, Atomic!Next
<1>14. CASE UNCHANGED vars
  <2>1. StackInv' /\ DataInv'
    BY <1>14 DEF vars, StackInv, DataInv, Written, Top
  <2>2. AtomicStep
    BY <1>14 DEF vars, AtomicStep, AtomicCall
  <2>3. QED
    BY <2>1, <2>2 DEF Goal
<1>15. QED
  BY <1>1, <1>2, <1>3, <1>4, <1>5, <1>6, <1>7, <1>8, <1>9, <1>10, <1>11, <1>12, <1>13, <1>14
  DEF Next

\* A save, with all it makes its listeners and aspects save, takes effect at one point,
\* when it returns true, or not at all, as long as what fails is a statement of its own or
\* of an aspect, or the process (DbObject on the counted transaction of DbPDO).
THEOREM SavesAreAtomic ==
  ASSUME SqlOnly
  PROVE  Spec => ImplementsAtomicSave
<1>1. Init => StackInv /\ DataInv /\ Atomic!Init
  BY InitRefines
<1>2. IInv /\ Bodies /\ RInv /\ StackInv /\ DataInv /\ [Next]_vars
          => StackInv' /\ DataInv' /\ [Atomic!Next]_<<durable, AtomicCall, last.res>>
  BY NextRefines DEF AtomicStep
<1>3. QED
  BY <1>1, <1>2, InitRInv, NextBody, NextRInv, SpecInv, PTL
  DEF Spec, ImplementsAtomicSave, Atomic!Spec, AtomicCall
=============================================================================
